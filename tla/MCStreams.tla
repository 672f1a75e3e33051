------------------------------ MODULE MCStreams -----------------------------
(***************************************************************************)
(* Model checking of what passes data on: virtual channels, dynamic        *)
(* channels, the receiving side of the security layer with licensing,      *)
(* fast-path updates, sound and its pulse driver, add-ins and the control  *)
(* socket.  They share no state; a behaviour is one of a single component, *)
(* the others stay as they began.                                          *)
(***************************************************************************)
EXTENDS VChannels, Dvc, SecRecv, FastPath, Sound, Pulse, Addin, Ctrl

VARIABLE component  \* the one that runs

\* The second add-in only has to be started and stopped with the first.
MCAddinBytes == [i \in AddinIds |-> IF i = 1 THEN 3 ELSE 1]

\* Any id is legal on the wire, also those of slots that are not open.
MCDvcIds == {INVALID_CHANNEL, 0, 1}

\* A single byte, and two that a match can find apart.
MCFpPieces == {<<1>>, <<0, 1>>}

allVars == <<component, vchanVars, dvcVars, secVars, fpVars, sndVars,
             pulseVars, addinVars, ctrlVars>>

Runs(c) == component = c /\ UNCHANGED component

Init ==
    /\ component \in {"channels", "dvc", "secure", "fastpath", "sound",
                      "pulse", "addin", "ctrl"}
    /\ VChannelsInit /\ DvcInit /\ SecRecvInit /\ FastPathInit /\ SoundInit
    /\ PulseInit /\ AddinInit /\ CtrlInit
    \* one of the beginnings is enough for the components that rest
    /\ component # "sound" =>
           /\ built = (CHOOSE d \in Drivers : TRUE)
           /\ current_driver = NoDriver /\ dev = Closed(FALSE)

Next ==
    \/ /\ Runs("channels") /\ VChannelsNext
       /\ UNCHANGED <<dvcVars, secVars, fpVars, sndVars, pulseVars,
                       addinVars, ctrlVars>>
    \/ /\ Runs("dvc") /\ DvcNext
       /\ UNCHANGED <<vchanVars, secVars, fpVars, sndVars, pulseVars,
                       addinVars, ctrlVars>>
    \/ /\ Runs("secure") /\ SecRecvNext
       /\ UNCHANGED <<vchanVars, dvcVars, fpVars, sndVars, pulseVars,
                       addinVars, ctrlVars>>
    \/ /\ Runs("fastpath") /\ FastPathNext
       /\ UNCHANGED <<vchanVars, dvcVars, secVars, sndVars, pulseVars,
                       addinVars, ctrlVars>>
    \/ /\ Runs("sound") /\ SoundNext
       /\ UNCHANGED <<vchanVars, dvcVars, secVars, fpVars, pulseVars,
                       addinVars, ctrlVars>>
    \/ /\ Runs("pulse") /\ PulseNext
       /\ UNCHANGED <<vchanVars, dvcVars, secVars, fpVars, sndVars,
                       addinVars, ctrlVars>>
    \/ /\ Runs("addin") /\ AddinNext
       /\ UNCHANGED <<vchanVars, dvcVars, secVars, fpVars, sndVars,
                       pulseVars, ctrlVars>>
    \/ /\ Runs("ctrl") /\ CtrlNext
       /\ UNCHANGED <<vchanVars, dvcVars, secVars, fpVars, sndVars,
                       pulseVars, addinVars>>

Spec == Init /\ [][Next]_allVars

(* The fairness each component's own specification states. *)
FairSpec ==
    /\ Spec
    /\ WF_secVars(Runs("secure") /\ SecRecvStep)
    /\ WF_secVars(Runs("secure") /\ SrvLicence)
    /\ WF_sndVars(Runs("sound") /\ (PlayPart \/ PlayLast \/ CheckPending))
    /\ WF_sndVars(Runs("sound") /\ SoundTick)
    /\ WF_addinVars(Runs("addin") /\ AddinLoop)
    /\ \A i \in AddinIds : WF_addinVars(Runs("addin") /\ ChildReads(i))
    /\ \A p \in Instances : WF_ctrlVars(Runs("ctrl") /\ InstanceStep(p))

-----------------------------------------------------------------------------
(* The client reads what the server sent as the server meant it: headers,  *)
(* cipher and licence keys of both sides agree through reconnections, and  *)
(* data of a dynamic channel reaches the handler of its name (secure.c,    *)
(* licence.c, channels.c, dvc.c).                                          *)
ReceiverInStep ==
    /\ component = "channels" => VChannelsTypeOK
    /\ component = "dvc" => DvcTypeOK /\ DataReachesHandler
    /\ component = "secure" =>
           SecRecvTypeOK /\ FramingAgrees /\ DecryptInStep /\ LicenceOnDiskIsWhole

(* Updates come out as they were put in, whatever was cut in fragments,    *)
(* compressed against earlier ones or lost with a connection (rdp5.c,      *)
(* mppc.c).                                                                *)
UpdatesInStep ==
    component = "fastpath" => FastPathTypeOK /\ UpdatesAreWhole /\ HistoryInStep

(* Sound devices and streams are open exactly while something uses them,   *)
(* and their failures are not forgotten (rdpsnd*.c).                       *)
SoundFollowsDevice ==
    /\ component = "sound" => SoundTypeOK /\ NoOrphanedWaves /\ DirectionsShareDevice
    /\ component = "pulse" => PulseTypeOK /\ FailureIsReported /\ StreamsFollowUse

(* What other processes get arrives once and in order, and no child is     *)
(* left behind (addin.c, ctrl.c).                                          *)
ProcessesAreServed ==
    /\ component = "addin" => AddinTypeOK /\ InputInOrder /\ StoppedIsReaped
    /\ component = "ctrl" => CtrlTypeOK /\ CommandsRunOnce

(* What was begun is brought to an end: the licence exchange, the waves    *)
(* taken, what is queued for an add-in, the command of a control slave.    *)
WorkCompletes == LicensingEnds /\ TakenIsConfirmed /\ QueueDrains /\ SlavesAnswered
=============================================================================
