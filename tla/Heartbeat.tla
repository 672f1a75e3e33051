----------------------------- MODULE Heartbeat -----------------------------
(***************************************************************************)
(* Heartbeat monitoring (rdp.c) inside the select loop of process_fds and  *)
(* ui_select (xwin.c).  Heartbeat PDUs tell the client how often to expect *)
(* one; the select timeout is cut down so that the loop looks at the clock *)
(* in time, and a silence that is too long is treated as a network error.  *)
(*                                                                         *)
(* Time is counted in ticks of one second.  It passes inside select() and, *)
(* when the client is busy or suspended, outside it (MaxStall).            *)
(***************************************************************************)
EXTENDS Integers

CONSTANTS
    Periods,        \* heartbeat periods the server may announce
    Counts,         \* missed heartbeat counts it may announce
    SELECT_TIMEOUT, \* default select timeout, in ticks (60 s)
    MaxStall,       \* longest time outside select(), in ticks
    Longest         \* ages saturate here (bound)

DefaultCount == 3

ASSUME HeartbeatConstants ==
    /\ Periods \subseteq Nat /\ Counts \subseteq Nat
    /\ SELECT_TIMEOUT \in Nat /\ MaxStall \in Nat /\ Longest \in Nat
    /\ \A p \in Periods, c \in Counts \cup {DefaultCount} : Longest > 2 * p * c

VARIABLES
    pc,             \* "Loop", in "Select", "Check", "Read", or "Failed"
    alive,          \* environment: the server still sends
    inbox,          \* what waits on the socket
    ready,          \* select() reported the socket readable
    wait,           \* what is left of the select timeout
    stall,          \* time spent outside select() in this turn
    silence,        \* history: time since a PDU that counts arrived
    gap,            \* history: the silence that ended with it
    g_heartbeat_monitoring,
    g_heartbeat_warned,
    lastAge,        \* time(NULL) - g_heartbeat_last
    g_heartbeat_period,
    g_heartbeat_count1,
    g_heartbeat_count2

hbVars == <<g_heartbeat_monitoring, g_heartbeat_warned, lastAge,
            g_heartbeat_period, g_heartbeat_count1, g_heartbeat_count2>>
vars == <<pc, alive, inbox, ready, wait, stall, silence, gap, hbVars>>

HeartbeatPdu == [type : {"heartbeat"}, period : Periods,
                 count1 : Counts, count2 : Counts]
None == [type |-> "none"]
Pdus == HeartbeatPdu \cup {[type |-> "data"], [type |-> "channel"]}

TypeOK ==
    /\ pc \in {"Loop", "Select", "Check", "Read", "Failed"}
    /\ alive \in BOOLEAN /\ ready \in BOOLEAN
    /\ inbox \in Pdus \cup {None}
    /\ wait \in -1 .. SELECT_TIMEOUT
    /\ stall \in 0 .. MaxStall
    /\ silence \in 0 .. Longest /\ gap \in 0 .. Longest
    /\ lastAge \in 0 .. Longest
    /\ g_heartbeat_monitoring \in BOOLEAN /\ g_heartbeat_warned \in BOOLEAN
    /\ g_heartbeat_period \in Nat
    /\ g_heartbeat_count1 \in Nat /\ g_heartbeat_count2 \in Nat
    /\ g_heartbeat_monitoring => /\ g_heartbeat_period > 0
                                 /\ g_heartbeat_count1 > 0
                                 /\ g_heartbeat_count2 > 0

(* rdp_heartbeat_reset_state *)
Init ==
    /\ pc = "Loop" /\ alive = TRUE /\ inbox = None /\ ready = FALSE
    /\ wait = 0 /\ stall = 0 /\ silence = 0 /\ gap = 0
    /\ g_heartbeat_monitoring = FALSE /\ g_heartbeat_warned = FALSE
    /\ lastAge = 0 /\ g_heartbeat_period = 0
    /\ g_heartbeat_count1 = 0 /\ g_heartbeat_count2 = 0

-----------------------------------------------------------------------------
(* Environment *)

Older(age) == IF age = Longest THEN age ELSE age + 1

TimePasses ==
    /\ lastAge' = Older(lastAge)
    /\ silence' = Older(silence)
    /\ UNCHANGED <<alive, inbox, ready, gap, g_heartbeat_monitoring,
                   g_heartbeat_warned, g_heartbeat_period, g_heartbeat_count1,
                   g_heartbeat_count2>>

(* A second passes inside select(); it may return up to one tick late. *)
Tick ==
    /\ pc = "Select" /\ inbox = None /\ wait >= 0
    /\ wait' = wait - 1
    /\ TimePasses
    /\ UNCHANGED <<pc, stall>>

Stall ==
    /\ pc = "Loop" /\ stall < MaxStall
    /\ stall' = stall + 1
    /\ TimePasses
    /\ UNCHANGED <<pc, wait>>

(* A heartbeat without a period is ignored, channel data is not looked at. *)
CountsAsActivity(p) ==
    p.type = "data" \/ (p.type = "heartbeat" /\ p.period > 0)

Arrive(p) ==
    /\ pc # "Failed" /\ alive /\ inbox = None
    /\ inbox' = p
    /\ IF CountsAsActivity(p) THEN silence' = 0 /\ gap' = silence
       ELSE UNCHANGED <<silence, gap>>
    /\ UNCHANGED <<pc, alive, ready, wait, stall, hbVars>>

ServerDies ==
    /\ alive
    /\ alive' = FALSE
    /\ UNCHANGED <<pc, inbox, ready, wait, stall, silence, gap, hbVars>>

-----------------------------------------------------------------------------
(* process_fds *)

(* Mutant: select() keeps its own timeout. *)
SelectTimeout_Default(timeout) == timeout

(* rdp_heartbeat_select_timeout *)
SelectTimeout(timeout) ==
    LET left == IF lastAge >= g_heartbeat_period THEN 0
                ELSE g_heartbeat_period - lastAge
    IN  IF g_heartbeat_monitoring /\ left < timeout THEN left ELSE timeout

(* With X events pending or other descriptors due, the timeout is short. *)
EnterSelect ==
    /\ pc = "Loop"
    /\ \E timeout \in {0, SELECT_TIMEOUT} : wait' = SelectTimeout(timeout)
    /\ pc' = "Select"
    /\ UNCHANGED <<alive, inbox, ready, stall, silence, gap, hbVars>>

SelectReadable ==
    /\ pc = "Select" /\ inbox # None
    /\ ready' = TRUE
    /\ pc' = "Check"
    /\ UNCHANGED <<alive, inbox, wait, stall, silence, gap, hbVars>>

SelectTimesOut ==
    /\ pc = "Select" /\ inbox = None /\ wait <= 0
    /\ ready' = FALSE
    /\ pc' = "Check"
    /\ UNCHANGED <<alive, inbox, wait, stall, silence, gap, hbVars>>

WarnAfter == g_heartbeat_period * g_heartbeat_count1
ReconnectAfter ==
    g_heartbeat_period * (g_heartbeat_count1 + g_heartbeat_count2)

Elapsed(n) == g_heartbeat_monitoring /\ lastAge > 0 /\ n > 0 /\ lastAge >= n

(* Mutant: the warning starts the clock again. *)
CheckQuiet_Restarts ==
    /\ pc = "Check" /\ ~Elapsed(ReconnectAfter)
    /\ g_heartbeat_warned' = (g_heartbeat_warned \/ Elapsed(WarnAfter))
    /\ lastAge' = IF Elapsed(WarnAfter) THEN 0 ELSE lastAge
    /\ pc' = IF ready THEN "Read" ELSE "Loop"
    /\ stall' = 0
    /\ UNCHANGED <<alive, inbox, ready, wait, silence, gap,
                   g_heartbeat_monitoring, g_heartbeat_period,
                   g_heartbeat_count1, g_heartbeat_count2>>

(* rdp_heartbeat_check_timeout, before the pending data is read. *)
CheckQuiet ==
    /\ pc = "Check" /\ ~Elapsed(ReconnectAfter)
    /\ g_heartbeat_warned' = (g_heartbeat_warned \/ Elapsed(WarnAfter))
    /\ pc' = IF ready THEN "Read" ELSE "Loop"
    /\ stall' = 0
    /\ UNCHANGED <<alive, inbox, ready, wait, silence, gap,
                   g_heartbeat_monitoring, lastAge, g_heartbeat_period,
                   g_heartbeat_count1, g_heartbeat_count2>>

CheckFails ==
    /\ pc = "Check" /\ Elapsed(ReconnectAfter)
    /\ pc' = "Failed"       \* g_network_error and g_exit_mainloop
    /\ UNCHANGED <<alive, inbox, ready, wait, stall, silence, gap, hbVars>>

-----------------------------------------------------------------------------
(* tcp_recv .. rdp_recv: the PDU is read and taken notice of *)

CountOf(c) == IF c = 0 THEN DefaultCount ELSE c

(* rdp_process_heartbeat *)
ProcessHeartbeat(p) ==
    IF p.period = 0 THEN UNCHANGED hbVars
    ELSE /\ g_heartbeat_period' = p.period
         /\ g_heartbeat_count1' = CountOf(p.count1)
         /\ g_heartbeat_count2' = CountOf(p.count2)
         /\ lastAge' = 0
         /\ g_heartbeat_warned' = FALSE
         /\ g_heartbeat_monitoring' = TRUE

(* rdp_heartbeat_note_activity *)
NoteActivity ==
    IF ~g_heartbeat_monitoring THEN UNCHANGED hbVars
    ELSE /\ lastAge' = 0
         /\ g_heartbeat_warned' = FALSE
         /\ UNCHANGED <<g_heartbeat_monitoring, g_heartbeat_period,
                        g_heartbeat_count1, g_heartbeat_count2>>

(* Virtual channel data is handled inside sec_recv, which does not note it. *)
Read ==
    /\ pc = "Read"
    /\ CASE inbox.type = "heartbeat" -> ProcessHeartbeat(inbox)
         [] inbox.type = "data" -> NoteActivity
         [] inbox.type = "channel" -> UNCHANGED hbVars
    /\ inbox' = None
    /\ pc' = "Loop"
    /\ UNCHANGED <<alive, ready, wait, stall, silence, gap>>

-----------------------------------------------------------------------------

ClientStep ==
    \/ EnterSelect \/ SelectReadable \/ SelectTimesOut
    \/ CheckQuiet \/ CheckFails \/ Read

Next ==
    \/ ClientStep \/ Tick \/ Stall \/ ServerDies
    \/ \E p \in Pdus : Arrive(p)

Spec == Init /\ [][Next]_vars

(* The client runs and time passes, also while select() returns at once. *)
FairSpec == Spec /\ WF_vars(ClientStep) /\ SF_vars(Tick)

-----------------------------------------------------------------------------
(* Properties *)

(* The client declares the connection failed only when nothing that counts    *)
(* came from the server for as long as the server itself announced, less the  *)
(* time for which the client was busy and left the socket unread.             *)
FailureMeansSilence ==
    pc = "Failed" => \/ silence >= ReconnectAfter
                     \/ CountsAsActivity(inbox) /\ gap + stall >= ReconnectAfter

(* The user was warned before the connection is given up, unless the warning  *)
(* was jumped over by a late wake-up or by time the client was busy.          *)
WarnedBeforeFailure ==
    pc = "Failed" /\ g_heartbeat_period > stall + 1 => g_heartbeat_warned

(* select() never sleeps past the moment at which the connection has to be    *)
(* given up, whatever its own timeout is.                                     *)
DetectedInTime ==
    pc = "Select" /\ g_heartbeat_monitoring =>
        wait <= 0 \/ lastAge + wait <= ReconnectAfter

(* What the monitor of rdp.c never does, in every state of its loop.          *)
HeartbeatInvariant == TypeOK /\ FailureMeansSilence /\ WarnedBeforeFailure /\ DetectedInTime

(* Once the server announced heartbeats and fell silent, the client gives up  *)
(* in the end, also when it is busy now and then.                             *)
DeadServerDetected ==
    (g_heartbeat_monitoring /\ ~alive) ~> pc = "Failed"
=============================================================================
