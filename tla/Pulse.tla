------------------------------- MODULE Pulse -------------------------------
(***************************************************************************)
(* The PulseAudio driver (rdpsnd_pulse.c): a thread of the library runs    *)
(* the callbacks, which tell the main thread through a pipe what has       *)
(* happened; the main thread owns the streams and builds them again after  *)
(* an error.  Operations of the main thread map the driver's state to the  *)
(* set of their results [ok, p].                                           *)
(***************************************************************************)
EXTENDS Naturals, Sequences, SequencesExt

CONSTANTS
    PipeSize,       \* messages the pipe takes (bound)
    MaxPaFaults     \* failing operations of the library (bound)

ASSUME PulseConstants == PipeSize \in Nat /\ MaxPaFaults \in Nat

PaStreams == {"play", "capture"}

VARIABLES
    pulse,          \* context, pulse_ctl, the pipe, the streams, the started flags
    inUse           \* rdpsnd: device_open and g_input_open

pulseVars == <<pulse, inUse>>

PulseTypeOK ==
    /\ pulse.context \in BOOLEAN
    /\ pulse.ctl \in {"none", "pipe", "closed"}
    /\ pulse.stream \in [PaStreams -> {"null", "failed", "corked", "running"}]
    /\ pulse.started \in [PaStreams -> BOOLEAN] /\ inUse \in [PaStreams -> BOOLEAN]
    /\ pulse.faults \in 0 .. MaxPaFaults

PulseInit ==
    /\ pulse = [context |-> FALSE, ctl |-> "none", pipe |-> << >>,
                stream |-> [s \in PaStreams |-> "null"],
                started |-> [s \in PaStreams |-> FALSE], faults |-> 0]
    /\ inUse = [s \in PaStreams |-> FALSE]

PaOk(p) == {[ok |-> TRUE, p |-> p]}
PaNo(p) == {[ok |-> FALSE, p |-> p]}
PaFault(p) == IF p.faults < MaxPaFaults THEN {[p EXCEPT !.faults = @ + 1]} ELSE {}
PaThen(results, Step(_)) == UNION {IF r.ok THEN Step(r.p) ELSE {r} : r \in results}

-----------------------------------------------------------------------------
(* Callbacks, in the thread of the library *)

PaSendMsg(p, message) == [p EXCEPT !.pipe = Append(@, message)]

(* pulse_stream_state_cb *)
StateCb(p, s) == PaSendMsg([p EXCEPT !.stream[s] = "failed"], <<"error", s>>)

(* pulse_cork_cb: the stream is as it was, and an error is reported. *)
CorkFails(p, s) == PaSendMsg(p, <<"error", s>>)

(* pulse_flush_cb is only used for playback. *)
FlushFails(p) == PaSendMsg(p, <<"error", "play">>)

(* pulse_write_cb and pulse_read_cb; a full pipe makes the thread wait. *)
DataCb(s) ==
    /\ pulse.stream[s] = "running" /\ Len(pulse.pipe) < PipeSize
    /\ pulse' = PaSendMsg(pulse, <<"avail", s>>)
    /\ UNCHANGED inUse

StreamFails(s) ==
    /\ pulse.stream[s] \in {"corked", "running"} /\ Len(pulse.pipe) < PipeSize
    /\ \E p \in PaFault(pulse) : pulse' = StateCb(p, s)
    /\ UNCHANGED inUse

-----------------------------------------------------------------------------
(* Context and streams, in the main thread *)

ContextDeinit(p) ==
    [p EXCEPT !.context = FALSE, !.pipe = << >>,
              !.ctl = IF @ = "none" THEN "none" ELSE "closed"]

PaStreamClose(p, s) == [p EXCEPT !.stream[s] = "null"]

PaDeinit(p) == ContextDeinit(PaStreamClose(PaStreamClose(p, "capture"), "play"))

ContextInit(p) ==
    PaOk([p EXCEPT !.context = TRUE, !.ctl = "pipe", !.pipe = << >>])
    \cup UNION {PaNo(f) \cup PaNo([f EXCEPT !.ctl = "pipe"]) : f \in PaFault(p)}

PaInit(p) ==
    UNION {IF r.ok THEN {r} ELSE PaNo(PaDeinit(r.p)) :
               r \in ContextInit(p) \cup UNION {PaNo(f) : f \in PaFault(p)}}

(* The stream is not made, or made and then fails. *)
PaStreamOpen(p, s, state) ==
    PaOk([p EXCEPT !.stream[s] = state])
    \cup UNION {PaNo([f EXCEPT !.stream[s] = "null"]) \cup PaNo(StateCb(f, s)) : f \in PaFault(p)}

PlaybackStart(p) ==
    IF p.stream["play"] = "null" THEN PaOk(p)
    ELSE IF p.stream["play"] = "failed" THEN PaNo(p)
    ELSE PaOk([p EXCEPT !.stream["play"] = "running"])
         \cup (IF p.stream["play"] = "running" THEN {}
               ELSE UNION {PaNo(f) \cup PaOk(CorkFails(f, "play")) : f \in PaFault(p)})

PlaybackStop(p) ==
    LET corked == [p EXCEPT !.stream["play"] = "corked"]
    IN IF p.stream["play"] = "null" THEN PaOk(p)
       ELSE IF p.stream["play"] = "failed" THEN PaNo(p)
       ELSE PaOk(corked)
            \cup (UNION {PaNo(f) \cup PaOk(CorkFails(f, "play")) : f \in PaFault(p)})
            \cup (UNION {PaNo(f) \cup PaOk(FlushFails(f)) : f \in PaFault(corked)})

PlaybackSetAudio(p) == PaStreamOpen(PaStreamClose(p, "play"), "play", "corked")

CaptureStart(p) ==
    IF p.stream["capture"] = "null" THEN PaOk(p)
    ELSE IF p.stream["capture"] = "failed" THEN PaNo(p)
    ELSE PaOk([p EXCEPT !.stream["capture"] = "running"])
         \cup (IF p.stream["capture"] = "running" THEN {}
               ELSE UNION {PaNo(f) \cup PaOk(CorkFails(f, "capture")) : f \in PaFault(p)})

CaptureStop(p) ==
    IF p.stream["capture"] = "null" THEN PaOk(p)
    ELSE IF p.stream["capture"] = "failed" THEN PaNo(p)
    ELSE PaOk([p EXCEPT !.stream["capture"] = "corked"])
         \cup UNION {PaNo(f) \cup PaOk(CorkFails(f, "capture")) : f \in PaFault(p)}

(* A running stream is opened running. *)
CaptureSetAudio(p) ==
    PaStreamOpen(PaStreamClose(p, "capture"), "capture",
               IF p.stream["capture"] = "running" THEN "running" ELSE "corked")

PaSetAudio(p, s) == IF s = "play" THEN PlaybackSetAudio(p) ELSE CaptureSetAudio(p)
PaStart(p, s) == IF s = "play" THEN PlaybackStart(p) ELSE CaptureStart(p)
PaStop(p, s) == IF s = "play" THEN PlaybackStop(p) ELSE CaptureStop(p)

PaRebuild(p, s) ==
    PaThen(PaSetAudio(p, s), LAMBDA q : IF q.started[s] THEN PaStart(q, s) ELSE PaOk(q))

(* Everything is built again: the streams that were there, in this order. *)
PaRebuildAll(p, there) ==
    PaThen(PaThen(PaInit(PaDeinit(p)),
              LAMBDA q : IF "play" \in there THEN PaRebuild(q, "play") ELSE PaOk(q)),
         LAMBDA q : IF "capture" \in there THEN PaRebuild(q, "capture") ELSE PaOk(q))

PaRecover(p, s) ==
    LET there == {x \in PaStreams : p.stream[x] # "null"}
    IN UNION {IF r.ok THEN {r}
              ELSE UNION {IF a.ok THEN {a} ELSE PaNo(PaDeinit(a.p)) :
                              a \in PaRebuildAll(r.p, there)} :
                  r \in PaRebuild(p, s)}

OrRecover(results, s) == UNION {IF r.ok THEN {r} ELSE PaRecover(r.p, s) : r \in results}

-----------------------------------------------------------------------------
(* Functions of the driver *)

(* pulse_open_out, pulse_set_format_out and their counterparts for input.    *)
PulseOpen(p) == IF p.context THEN PaOk(p) ELSE PaInit(p)

PaSetFormat(p, s, same) ==
    LET formatted == IF same /\ p.stream[s] # "null" THEN PaOk(p)
                     ELSE OrRecover(PaSetAudio(p, s), s)
    IN PaThen(formatted, LAMBDA q : OrRecover(PaStart([q EXCEPT !.started[s] = TRUE], s), s))

(* A stream that cannot be stopped is built again; the result is not used. *)
PulseCloseResults(p, s) ==
    OrRecover(PaStop([p EXCEPT !.started[s] = FALSE], s), s)

OpenStream(s) ==
    /\ \E r \in PulseOpen(pulse) :
       IF ~r.ok THEN pulse' = r.p /\ UNCHANGED inUse
       ELSE \E same \in BOOLEAN : \E f \in PaSetFormat(r.p, s, same) :
            IF f.ok THEN pulse' = f.p /\ inUse' = [inUse EXCEPT ![s] = TRUE]
            ELSE /\ \E c \in PulseCloseResults(f.p, s) : pulse' = c.p
                 /\ inUse' = [inUse EXCEPT ![s] = FALSE]

CloseStream(s) ==
    /\ inUse[s] /\ inUse' = [inUse EXCEPT ![s] = FALSE]
    /\ \E r \in PulseCloseResults(pulse, s) : pulse' = r.p

(* pulse_play and pulse_record: they need the stream, and may fail. *)
PaTransfer(p, s) ==
    IF p.stream[s] \in {"null", "failed"} THEN PaNo(p)
    ELSE PaOk(p) \cup UNION {PaNo(f) : f \in PaFault(p)}

(* pulse_check_fds for one message; rdpsnd_check_fds calls it while playback *)
(* has the device.                                                           *)
PulseCheckFds ==
    /\ inUse["play"] /\ pulse.ctl = "pipe" /\ pulse.pipe # << >>
    /\ LET message == Head(pulse.pipe)
           p == [pulse EXCEPT !.pipe = Tail(@)]
           s == message[2]
       IN \E r \in IF message[1] = "avail" THEN OrRecover(PaTransfer(p, s), s) ELSE PaRecover(p, s) :
             pulse' = r.p
    /\ UNCHANGED inUse

PulseNext ==
    \/ PulseCheckFds
    \/ \E s \in PaStreams : DataCb(s) \/ StreamFails(s) \/ OpenStream(s) \/ CloseStream(s)

PulseSpec == PulseInit /\ [][PulseNext]_pulseVars

-----------------------------------------------------------------------------
(* Properties *)

PaReported(s) == <<"error", s>> \in Range(pulse.pipe)

(* A stream that failed is never forgotten: the report of it is in the pipe   *)
(* until the stream is built again or given up.                               *)
FailureIsReported ==
    \A s \in PaStreams : pulse.stream[s] = "failed" => PaReported(s)

(* While rdpsnd uses a stream it runs, through every recovery, and a playback *)
(* stream that is not used does not, unless an error is reported or all was   *)
(* given up.  (A capture stream that cannot be stopped is built again as it   *)
(* was, running.)                                                             *)
StreamsFollowUse ==
    \A s \in PaStreams :
        \/ pulse.stream[s] \in {"null", "failed"} \/ PaReported(s)
        \/ /\ inUse[s] => pulse.stream[s] = "running"
           /\ s = "play" /\ ~inUse[s] => pulse.stream[s] = "corked"
=============================================================================
