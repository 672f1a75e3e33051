--------------------------- MODULE HeartbeatProofs ---------------------------
(***************************************************************************)
(* The heartbeat monitor is sound for every period, every pair of counts,  *)
(* every select timeout and every stall.  The invariant bounds the age of  *)
(* the last activity from both sides: by the silence of the server (no     *)
(* false alarm), and, while the user has not been warned, by the age at    *)
(* the last check plus what the loop can lose before the next one.         *)
(***************************************************************************)
EXTENDS Heartbeat, TLAPS

(* What select() reported, and what is then read, was on the socket. *)
ReadyInv ==
    /\ pc = "Check" /\ ready => inbox # None
    /\ pc = "Read" => inbox # None /\ stall = 0

(* g_heartbeat_last is never older than the server's silence, except for     *)
(* activity that waits on the socket while the client is busy.               *)
ClockInv ==
    g_heartbeat_monitoring =>
        /\ ~CountsAsActivity(inbox) => lastAge <= silence
        /\ CountsAsActivity(inbox) =>
               /\ pc \in {"Loop", "Select"} => lastAge <= gap + stall
               /\ pc = "Check" => lastAge <= gap + (IF ready THEN stall ELSE 0)

(* The select timeout ends with the period, one late tick apart. *)
SleepInv ==
    pc = "Select" /\ g_heartbeat_monitoring =>
        wait <= 0 \/ lastAge + wait <= g_heartbeat_period

(* Without a warning, the last check saw less than WarnAfter; stall and one  *)
(* sleep are all that has been added since.                                  *)
QuietInv ==
    g_heartbeat_monitoring /\ ~g_heartbeat_warned =>
        /\ pc \in {"Loop", "Read"} => lastAge < WarnAfter + stall
        /\ pc = "Select" => \/ lastAge + wait <= g_heartbeat_period
                            \/ lastAge + wait < WarnAfter + stall
        /\ pc = "Check" => \/ lastAge <= g_heartbeat_period + 1
                           \/ lastAge <= WarnAfter + stall

IInv ==
    /\ TypeOK /\ ReadyInv /\ ClockInv /\ SleepInv /\ QuietInv
    /\ FailureMeansSilence /\ WarnedBeforeFailure

-----------------------------------------------------------------------------

(* Products of a period and the missed heartbeat counts, as compared by      *)
(* rdp_heartbeat_check_timeout.                                              *)
LEMMA Products ==
    ASSUME NEW p \in Nat, NEW c \in Nat, NEW d \in Nat
    PROVE  /\ p * c \in Nat /\ p * (c + d) \in Nat
           /\ p > 0 /\ c > 0 => p * c >= p
           /\ p * (c + d) = p * c + p * d
<1>1. p * c \in Nat /\ p * d \in Nat /\ p * (c + d) \in Nat
  OBVIOUS
<1>2. p * (c + d) = p * c + p * d
  OBVIOUS
<1>3. ASSUME p > 0, c > 0 PROVE p * c >= p
  <2>1. c - 1 \in Nat /\ c = (c - 1) + 1
    BY <1>3
  <2>2. p * ((c - 1) + 1) = p * (c - 1) + p
    BY <2>1
  <2>3. p * (c - 1) \in Nat
    BY <2>1
  <2> QED BY <2>1, <2>2, <2>3
<1> QED BY <1>1, <1>2, <1>3

(* With monitoring on, a warning takes at least one period, and giving up    *)
(* at least one more.                                                        *)
LEMMA Delays ==
    ASSUME TypeOK
    PROVE  /\ WarnAfter \in Nat /\ ReconnectAfter \in Nat
           /\ g_heartbeat_monitoring =>
                  /\ g_heartbeat_period > 0
                  /\ WarnAfter >= g_heartbeat_period
                  /\ ReconnectAfter >= WarnAfter + g_heartbeat_period
<1>1. /\ g_heartbeat_period \in Nat
      /\ g_heartbeat_count1 \in Nat /\ g_heartbeat_count2 \in Nat
      /\ g_heartbeat_monitoring => /\ g_heartbeat_period > 0
                                   /\ g_heartbeat_count1 > 0
                                   /\ g_heartbeat_count2 > 0
  BY DEF TypeOK
<1> DEFINE P == g_heartbeat_period
           W == P * g_heartbeat_count1
           R == P * (g_heartbeat_count1 + g_heartbeat_count2)
           D == P * g_heartbeat_count2
<1>2. /\ W \in Nat /\ R \in Nat /\ R = W + D /\ D \in Nat
      /\ P > 0 /\ g_heartbeat_count1 > 0 => W >= P
      /\ P > 0 /\ g_heartbeat_count2 > 0 => D >= P
  BY <1>1, Products
<1> HIDE DEF W, R, D
<1>3. g_heartbeat_monitoring => P > 0 /\ W >= P /\ R >= W + P
  BY <1>1, <1>2
<1> QED BY <1>2, <1>3, Zenon DEF WarnAfter, ReconnectAfter, W, R

(* What tcp_recv delivers has one of the three types Read distinguishes. *)
LEMMA PduTypes ==
    ASSUME NEW p \in Pdus
    PROVE  /\ p.type \in {"heartbeat", "data", "channel"} /\ p # None
           /\ p.type = "heartbeat" =>
                  /\ p.period \in Nat /\ p.count1 \in Nat /\ p.count2 \in Nat
<1>1. CASE p \in HeartbeatPdu
  <2>1. /\ p.type = "heartbeat"
        /\ p.period \in Periods /\ p.count1 \in Counts /\ p.count2 \in Counts
    BY <1>1 DEF HeartbeatPdu
  <2>2. Periods \subseteq Nat /\ Counts \subseteq Nat
    BY HeartbeatConstants
  <2>3. None.type = "none"
    BY DEF None
  <2> QED BY <2>1, <2>2, <2>3
<1>2. CASE p = [type |-> "data"]
  BY <1>2 DEF None
<1>3. CASE p = [type |-> "channel"]
  BY <1>3 DEF None
<1> QED BY <1>1, <1>2, <1>3 DEF Pdus

(* Nothing read is no activity. *)
LEMMA NoneIsNoActivity == ~CountsAsActivity(None)
BY DEF CountsAsActivity, None

(* The saturating ages stay in their range. *)
LEMMA AgeType ==
    ASSUME NEW age \in 0 .. Longest
    PROVE  /\ Older(age) \in 0 .. Longest
           /\ Older(age) <= age + 1 /\ age <= Older(age)
           /\ \A old \in 0 .. Longest : age <= old => Older(age) <= Older(old)
BY HeartbeatConstants DEF Older

(* A session begins with fresh clocks. *)
LEMMA InitIInv == Init => IInv
<1> SUFFICES ASSUME Init PROVE IInv
  OBVIOUS
<1>1. /\ wait \in -1 .. SELECT_TIMEOUT /\ stall \in 0 .. MaxStall
      /\ silence \in 0 .. Longest /\ gap \in 0 .. Longest
      /\ lastAge \in 0 .. Longest
  BY HeartbeatConstants DEF Init
<1>2. TypeOK
  BY <1>1, Zenon DEF Init, TypeOK
<1> QED
  BY <1>2 DEF Init, IInv, ReadyInv, ClockInv, SleepInv, QuietInv,
              FailureMeansSilence, WarnedBeforeFailure

-----------------------------------------------------------------------------

(* A step that keeps the announced period and counts keeps the delays. *)
LEMMA SameDelays ==
    ASSUME UNCHANGED <<g_heartbeat_period, g_heartbeat_count1,
                       g_heartbeat_count2>>
    PROVE  WarnAfter' = WarnAfter /\ ReconnectAfter' = ReconnectAfter
BY DEF WarnAfter, ReconnectAfter

(* ui_select chooses its timeout from the two deadlines. *)
LEMMA KeepEnterSelect == IInv /\ EnterSelect => IInv'
<1> SUFFICES ASSUME IInv, EnterSelect PROVE IInv'
  OBVIOUS
<1> USE DEF IInv, EnterSelect, hbVars
<1>1. /\ WarnAfter' = WarnAfter /\ ReconnectAfter' = ReconnectAfter
      /\ CountsAsActivity(inbox)' = CountsAsActivity(inbox)
  BY SameDelays DEF CountsAsActivity
<1>2. /\ wait' \in 0 .. SELECT_TIMEOUT
      /\ g_heartbeat_monitoring =>
             \/ wait' = 0
             \/ lastAge + wait' <= g_heartbeat_period
  <2> PICK timeout \in {0, SELECT_TIMEOUT} : wait' = SelectTimeout(timeout)
    OBVIOUS
  <2> QED BY HeartbeatConstants DEF TypeOK, SelectTimeout
<1>3. TypeOK'
  BY <1>2 DEF TypeOK
<1>4. ReadyInv' /\ ClockInv'
  BY <1>1 DEF ReadyInv, ClockInv
<1>5. SleepInv'
  BY <1>2 DEF SleepInv, TypeOK
<1>6. QuietInv'
  BY <1>1, <1>2 DEF QuietInv, TypeOK
<1>7. FailureMeansSilence' /\ WarnedBeforeFailure'
  BY DEF FailureMeansSilence, WarnedBeforeFailure
<1> QED BY <1>3, <1>4, <1>5, <1>6, <1>7

(* select() returns, with or without input. *)
LEMMA KeepSelectReturns ==
    IInv /\ (SelectReadable \/ SelectTimesOut) => IInv'
<1> SUFFICES ASSUME IInv, SelectReadable \/ SelectTimesOut PROVE IInv'
  OBVIOUS
<1>1. /\ pc = "Select" /\ pc' = "Check"
      /\ ready' \in BOOLEAN
      /\ inbox = None => wait <= 0
      /\ ready' => inbox # None
      /\ ~ready' => inbox = None
      /\ UNCHANGED <<alive, inbox, wait, stall, silence, gap, hbVars>>
  BY Zenon DEF SelectReadable, SelectTimesOut
<1> USE <1>1 DEF IInv, hbVars
<1>2. /\ WarnAfter' = WarnAfter /\ ReconnectAfter' = ReconnectAfter
      /\ CountsAsActivity(inbox)' = CountsAsActivity(inbox)
  BY SameDelays DEF CountsAsActivity
<1>3. TypeOK'
  BY Zenon DEF TypeOK
<1>4. ReadyInv' /\ SleepInv'
  BY DEF ReadyInv, SleepInv
<1>5. ClockInv'
  BY <1>2, NoneIsNoActivity DEF ClockInv, TypeOK
<1>6. QuietInv'
  <2>1. /\ WarnAfter \in Nat /\ wait \in Int /\ wait >= -1
        /\ lastAge \in Int /\ stall \in Int /\ g_heartbeat_period \in Int
    BY Delays DEF TypeOK
  <2> QED BY <1>2, <2>1 DEF QuietInv
<1>7. FailureMeansSilence' /\ WarnedBeforeFailure'
  BY DEF FailureMeansSilence, WarnedBeforeFailure
<1> QED BY <1>3, <1>4, <1>5, <1>6, <1>7

(* The check finds neither deadline passed. *)
LEMMA KeepCheckQuiet == IInv /\ CheckQuiet => IInv'
<1> SUFFICES ASSUME IInv, CheckQuiet PROVE IInv'
  OBVIOUS
<1> USE DEF IInv, CheckQuiet
<1>1. /\ WarnAfter' = WarnAfter /\ ReconnectAfter' = ReconnectAfter
      /\ CountsAsActivity(inbox)' = CountsAsActivity(inbox)
  BY SameDelays DEF CountsAsActivity
<1>2. g_heartbeat_warned' \in BOOLEAN
  BY Zenon DEF TypeOK, Elapsed
<1>3. g_heartbeat_monitoring /\ ~g_heartbeat_warned' => lastAge < WarnAfter
  <2>1. ~g_heartbeat_warned' => ~Elapsed(WarnAfter)
    BY Zenon
  <2>2. g_heartbeat_monitoring => WarnAfter \in Nat /\ WarnAfter > 0
    BY Delays DEF TypeOK
  <2>3. lastAge \in Nat
    BY DEF TypeOK
  <2> QED BY <2>1, <2>2, <2>3 DEF Elapsed
<1>4. TypeOK'
  BY <1>2, HeartbeatConstants DEF TypeOK
<1>5. ReadyInv' /\ SleepInv'
  BY DEF ReadyInv, SleepInv
<1>6. ClockInv'
  BY <1>1 DEF ClockInv, ReadyInv, TypeOK
<1>7. QuietInv'
  BY <1>1, <1>3, Delays DEF QuietInv, TypeOK
<1>8. FailureMeansSilence' /\ WarnedBeforeFailure'
  BY DEF FailureMeansSilence, WarnedBeforeFailure
<1> QED BY <1>4, <1>5, <1>6, <1>7, <1>8

(* The two properties of the failure itself. *)
LEMMA KeepCheckFails == IInv /\ CheckFails => IInv'
<1> SUFFICES ASSUME IInv, CheckFails PROVE IInv'
  OBVIOUS
<1> USE DEF IInv, CheckFails, hbVars
<1>1. /\ WarnAfter' = WarnAfter /\ ReconnectAfter' = ReconnectAfter
      /\ CountsAsActivity(inbox)' = CountsAsActivity(inbox)
  BY SameDelays DEF CountsAsActivity
<1>2. g_heartbeat_monitoring /\ lastAge >= ReconnectAfter
  BY DEF Elapsed
<1>3. TypeOK'
  BY DEF TypeOK
<1>4. ReadyInv' /\ SleepInv' /\ ClockInv' /\ QuietInv'
  BY <1>1 DEF ReadyInv, SleepInv, ClockInv, QuietInv
<1>5. FailureMeansSilence'
  BY <1>1, <1>2, Delays DEF FailureMeansSilence, ClockInv, TypeOK
<1>6. WarnedBeforeFailure'
  BY <1>2, Delays DEF WarnedBeforeFailure, QuietInv, TypeOK
<1> QED BY <1>3, <1>4, <1>5, <1>6

(* A PDU that counts resets the clock, a heartbeat PDU the counts. *)
LEMMA KeepRead == IInv /\ Read => IInv'
<1> SUFFICES ASSUME IInv, Read PROVE IInv'
  OBVIOUS
<1> USE DEF IInv
<1>1. /\ pc = "Read" /\ pc' = "Loop" /\ inbox' = None
      /\ inbox \in Pdus /\ stall = 0
      /\ UNCHANGED <<alive, ready, wait, stall, silence, gap>>
  BY DEF Read, ReadyInv, TypeOK
<1>2. /\ inbox.type \in {"heartbeat", "data", "channel"}
      /\ inbox.type = "heartbeat" =>
             inbox.period \in Nat /\ inbox.count1 \in Nat /\ inbox.count2 \in Nat
  BY <1>1, PduTypes
<1>3. \/ inbox.type = "heartbeat" /\ inbox.period # 0 /\ ProcessHeartbeat(inbox)
      \/ inbox.type = "data" /\ NoteActivity
      \/ ~CountsAsActivity(inbox) /\ UNCHANGED hbVars
  <2>1. CASE inbox.type = "heartbeat"
    <3>1. ProcessHeartbeat(inbox)
      BY <2>1 DEF Read
    <3> QED BY <1>2, <2>1, <3>1 DEF ProcessHeartbeat, CountsAsActivity
  <2>2. CASE inbox.type = "data"
    BY <2>2 DEF Read
  <2>3. CASE inbox.type = "channel"
    BY <2>3 DEF Read, CountsAsActivity
  <2> QED BY <1>2, <2>1, <2>2, <2>3
<1>4. ~CountsAsActivity(inbox)'
  BY <1>1, NoneIsNoActivity
<1>5. ReadyInv' /\ SleepInv' /\ FailureMeansSilence' /\ WarnedBeforeFailure'
  BY <1>1 DEF ReadyInv, SleepInv, FailureMeansSilence, WarnedBeforeFailure
<1>6. CASE inbox.type = "heartbeat" /\ inbox.period # 0
           /\ ProcessHeartbeat(inbox)
  <2>1. /\ g_heartbeat_period' \in Nat /\ g_heartbeat_period' > 0
        /\ g_heartbeat_count1' \in Nat /\ g_heartbeat_count1' > 0
        /\ g_heartbeat_count2' \in Nat /\ g_heartbeat_count2' > 0
        /\ lastAge' = 0 /\ g_heartbeat_warned' = FALSE
        /\ g_heartbeat_monitoring' = TRUE
    BY <1>2, <1>6 DEF ProcessHeartbeat, CountOf, DefaultCount
  <2>2. TypeOK'
    <3>1. lastAge' \in 0 .. Longest
      BY <2>1, HeartbeatConstants
    <3> QED BY <1>1, <2>1, <3>1, Zenon DEF TypeOK
  <2>3. ClockInv'
    BY <1>1, <1>4, <2>1 DEF ClockInv, TypeOK
  <2>4. WarnAfter' \in Nat /\ WarnAfter' > 0
    <3> DEFINE P == g_heartbeat_period'
               C == g_heartbeat_count1'
    <3>1. P \in Nat /\ P > 0 /\ C \in Nat /\ C > 0
      BY <2>1
    <3>2. P * C \in Nat /\ P * C >= P
      BY <3>1, Products
    <3>3. WarnAfter' = P * C
      BY DEF WarnAfter
    <3> HIDE DEF P, C
    <3> QED BY <3>1, <3>2, <3>3
  <2>5. QuietInv'
    <3> DEFINE W == WarnAfter'
    <3>1. W \in Nat /\ W > 0
      BY <2>4
    <3>2. lastAge' = 0 /\ stall' = 0
      BY <1>1, <2>1
    <3> HIDE DEF W
    <3>3. lastAge' < W + stall'
      BY <3>1, <3>2
    <3> QED BY <1>1, <3>3, Zenon DEF QuietInv, W
  <2> QED BY <1>5, <2>2, <2>3, <2>5
<1>7. CASE inbox.type = "data" /\ NoteActivity
  <2>1. /\ WarnAfter' = WarnAfter
        /\ UNCHANGED <<g_heartbeat_monitoring, g_heartbeat_period,
                       g_heartbeat_count1, g_heartbeat_count2>>
        /\ g_heartbeat_monitoring => lastAge' = 0
        /\ lastAge' \in {0, lastAge}
        /\ g_heartbeat_warned' = FALSE \/ UNCHANGED g_heartbeat_warned
    BY <1>7 DEF NoteActivity, hbVars, WarnAfter
  <2>2. TypeOK'
    <3>1. lastAge' \in 0 .. Longest
      BY <2>1, HeartbeatConstants DEF TypeOK
    <3>2. g_heartbeat_warned' \in BOOLEAN
      BY <2>1, Zenon DEF TypeOK
    <3> QED BY <1>1, <2>1, <3>1, <3>2, Zenon DEF TypeOK
  <2>3. ClockInv'
    BY <1>1, <1>4, <2>1 DEF ClockInv, TypeOK
  <2>4. QuietInv'
    <3>1. g_heartbeat_monitoring => WarnAfter \in Nat /\ WarnAfter > 0
      BY Delays DEF TypeOK
    <3>2. g_heartbeat_monitoring => lastAge' < WarnAfter' + stall'
      BY <1>1, <2>1, <3>1
    <3> QED BY <1>1, <2>1, <3>2 DEF QuietInv
  <2> QED BY <1>5, <2>2, <2>3, <2>4
<1>8. CASE ~CountsAsActivity(inbox) /\ UNCHANGED hbVars
  <2> USE <1>8 DEF hbVars
  <2>1. WarnAfter' = WarnAfter
    BY SameDelays
  <2>2. TypeOK'
    BY <1>1 DEF TypeOK
  <2>3. ClockInv' /\ QuietInv'
    BY <1>1, <1>4, <2>1 DEF ClockInv, QuietInv
  <2> QED BY <1>5, <2>2, <2>3
<1> QED BY <1>3, <1>6, <1>7, <1>8

(* One tick, in select or elsewhere. *)
LEMMA KeepTimePasses == IInv /\ (Tick \/ Stall) => IInv'
<1> SUFFICES ASSUME IInv, Tick \/ Stall PROVE IInv'
  OBVIOUS
<1> USE DEF IInv, TimePasses
<1>1. /\ WarnAfter' = WarnAfter
      /\ CountsAsActivity(inbox)' = CountsAsActivity(inbox)
      /\ TimePasses /\ pc' = pc
  BY SameDelays DEF CountsAsActivity, Tick, Stall
<1>2. /\ lastAge' \in 0 .. Longest /\ lastAge <= lastAge'
      /\ lastAge' <= lastAge + 1 /\ silence' \in 0 .. Longest
      /\ lastAge <= silence => lastAge' <= silence'
  BY <1>1, AgeType DEF TypeOK
<1>3. CASE Tick
  <2>1. TypeOK'
    BY <1>1, <1>2, <1>3, HeartbeatConstants DEF Tick, TypeOK
  <2>2. ReadyInv' /\ FailureMeansSilence' /\ WarnedBeforeFailure'
    BY <1>1, <1>3 DEF Tick, ReadyInv, FailureMeansSilence, WarnedBeforeFailure
  <2>3. ClockInv'
    BY <1>1, <1>2, <1>3, NoneIsNoActivity DEF Tick, ClockInv, TypeOK
  <2>4. SleepInv'
    BY <1>1, <1>2, <1>3 DEF Tick, SleepInv, TypeOK
  <2>5. QuietInv'
    BY <1>1, <1>2, <1>3, Delays DEF Tick, QuietInv, TypeOK
  <2> QED BY <2>1, <2>2, <2>3, <2>4, <2>5
<1>4. CASE Stall
  <2>1. TypeOK'
    BY <1>1, <1>2, <1>4, HeartbeatConstants DEF Stall, TypeOK
  <2>2. /\ ReadyInv' /\ SleepInv'
        /\ FailureMeansSilence' /\ WarnedBeforeFailure'
    BY <1>1, <1>4
    DEF Stall, ReadyInv, SleepInv, FailureMeansSilence, WarnedBeforeFailure
  <2>3. ClockInv'
    BY <1>1, <1>2, <1>4 DEF Stall, ClockInv, TypeOK
  <2>4. QuietInv'
    BY <1>1, <1>2, <1>4, Delays DEF Stall, QuietInv, TypeOK
  <2> QED BY <2>1, <2>2, <2>3, <2>4
<1> QED BY <1>3, <1>4

(* The server sends. *)
LEMMA KeepArrive ==
    ASSUME IInv, NEW p \in Pdus, Arrive(p)
    PROVE  IInv'
<1> USE DEF IInv, hbVars
<1>1. /\ WarnAfter' = WarnAfter
      /\ pc' = pc /\ pc # "Failed" /\ inbox = None /\ inbox' = p /\ p # None
      /\ UNCHANGED <<alive, ready, wait, stall, hbVars>>
      /\ pc = "Read" => FALSE
      /\ pc = "Check" => ~ready
  BY SameDelays, PduTypes DEF Arrive, ReadyInv, TypeOK
<1>2. g_heartbeat_monitoring => lastAge <= silence
  BY <1>1, NoneIsNoActivity DEF ClockInv
<1>3. IF CountsAsActivity(p) THEN silence' = 0 /\ gap' = silence
      ELSE UNCHANGED <<silence, gap>>
  BY DEF Arrive
<1>4. CountsAsActivity(inbox)' = CountsAsActivity(p)
  BY <1>1 DEF CountsAsActivity
<1>5. TypeOK'
  BY <1>1, <1>3, HeartbeatConstants DEF TypeOK
<1>6. /\ ReadyInv' /\ SleepInv' /\ QuietInv'
      /\ FailureMeansSilence' /\ WarnedBeforeFailure'
  BY <1>1 DEF ReadyInv, SleepInv, QuietInv, FailureMeansSilence,
              WarnedBeforeFailure
<1>7. ClockInv'
  BY <1>1, <1>2, <1>3, <1>4 DEF ClockInv, TypeOK
<1> QED BY <1>5, <1>6, <1>7

(* The server falls silent, or nothing happens. *)
LEMMA KeepServerDies == IInv /\ (ServerDies \/ UNCHANGED vars) => IInv'
<1> SUFFICES ASSUME IInv, ServerDies \/ UNCHANGED vars PROVE IInv'
  OBVIOUS
<1>1. /\ alive' \in BOOLEAN
      /\ UNCHANGED <<pc, inbox, ready, wait, stall, silence, gap, hbVars>>
  BY Zenon DEF IInv, ServerDies, vars, TypeOK
<1> USE <1>1 DEF IInv, hbVars
<1>2. /\ WarnAfter' = WarnAfter /\ ReconnectAfter' = ReconnectAfter
      /\ CountsAsActivity(inbox)' = CountsAsActivity(inbox)
  BY SameDelays DEF CountsAsActivity
<1>3. TypeOK'
  BY Zenon DEF TypeOK
<1> QED
  BY <1>2, <1>3 DEF ReadyInv, ClockInv, SleepInv, QuietInv,
                    FailureMeansSilence, WarnedBeforeFailure

(* It holds in every state of a session. *)
LEMMA InductiveInvariant == Spec => []IInv
<1>1. IInv /\ [Next]_vars => IInv'
  BY KeepEnterSelect, KeepSelectReturns, KeepCheckQuiet, KeepCheckFails,
     KeepRead, KeepTimePasses, KeepArrive, KeepServerDies
  DEF Next, ClientStep
<1> QED BY <1>1, InitIInv, PTL DEF Spec

(* rdp_heartbeat_check_timeout gives a connection up only after the silence  *)
(* the server announced, with the warning first, and select() never sleeps   *)
(* past that moment.                                                         *)
THEOREM MonitorIsSound == Spec => []HeartbeatInvariant
<1>1. IInv => DetectedInTime
  <2> SUFFICES ASSUME IInv PROVE DetectedInTime
    OBVIOUS
  <2> QED BY Delays DEF IInv, TypeOK, SleepInv, DetectedInTime
<1>2. IInv => HeartbeatInvariant
  BY <1>1 DEF IInv, HeartbeatInvariant
<1> QED BY <1>2, InductiveInvariant, PTL
=============================================================================
