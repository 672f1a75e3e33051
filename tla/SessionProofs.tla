--------------------------- MODULE SessionProofs ---------------------------
(***************************************************************************)
(* TLAPS proofs for module Session: the safety properties hold for every   *)
(* retry window, pause and TLS behaviour of the server.                    *)
(***************************************************************************)
EXTENDS Session, TLAPS

(* At the head of the loop the error flag is only raised for a redirect,    *)
(* whose iteration clears it.  An attempt that begins with the flag gets    *)
(* nowhere, so that no sound device is open when the next one begins.       *)
ErrorInv ==
    /\ pc = "Reset" => (g_network_error => g_redirect)
    /\ pc = "Sleep" => ~g_network_error
    /\ pc = "Connect" => (unclean <=> g_network_error)
    /\ unclean =>
          ~waves /\ pc \in {"Connect", "Failed", "Sleep", "Reset", "Exit"}

(* Until a Demand Active arrives the share id is 0. *)
ShareInv ==
    pc \in {"Connect", "Info", "Activate"} => g_rdp_shareid = 0

(* From the end of sec_connect on, the connection owns a socket and TLS is   *)
(* not left over from an earlier one; outside, no TLS session is current.    *)
TransportInv ==
    /\ pc \in {"Info", "Activate"} => sock = "open" /\ tls # "stale"
    /\ pc \in {"Failed", "Sleep", "Decide", "Reset", "Connect"} =>
           tls # "current"
    /\ SessionIsActivated

(* The clock of the -R retries starts when the session is lost. *)
ClockInv ==
    /\ pc \in {"Main", "Wait", "Down", "Decide"} => startedAge = Unset
    /\ startedAge # Unset => lossAge = startedAge

IInv == TypeOK /\ ErrorInv /\ ShareInv /\ TransportInv /\ ClockInv

-----------------------------------------------------------------------------

(* Older keeps ages in their range. *)
LEMMA OlderType ==
    ASSUME NEW a \in Ages, NEW d \in Nat
    PROVE  Older(a, d) \in Ages
  BY SessionConstants DEF Ages, Older, Unset, Expired

(* The invariant holds initially. *)
LEMMA InitIInv == Init => IInv
<1> SUFFICES ASSUME Init PROVE IInv
  OBVIOUS
<1>1. /\ up \in BOOLEAN /\ waves \in BOOLEAN /\ unclean \in BOOLEAN
      /\ eof \in BOOLEAN /\ g_network_error \in BOOLEAN
      /\ g_exit_mainloop \in BOOLEAN /\ g_user_quit \in BOOLEAN
      /\ activated \in BOOLEAN /\ g_redirect \in BOOLEAN
      /\ g_password \in BOOLEAN
      /\ g_reconnect_loop \in BOOLEAN /\ g_pending_resize \in BOOLEAN
      /\ deactivated \in BOOLEAN
  BY Zenon DEF Init
<1>2. Unset \in Ages
  BY SessionConstants DEF Ages, Unset, Expired
<1>3. TypeOK
  BY <1>1, <1>2 DEF Init, TypeOK, PCs, Reasons, ByUser, ExitCodes
<1>4. ErrorInv /\ ShareInv /\ TransportInv /\ ClockInv
  BY DEF Init, ErrorInv, ShareInv, TransportInv, ClockInv,
         SessionIsActivated
<1> QED BY <1>3, <1>4 DEF IInv

(* Type correctness, one step per action. *)
LEMMA TypeStep == TypeOK /\ [Next]_vars => TypeOK'
<1> SUFFICES ASSUME TypeOK, [Next]_vars PROVE TypeOK'
  OBVIOUS
<1> USE SessionConstants DEF TypeOK, PCs, Reasons, ByUser, ExitCodes
<1>a. 0 \in Ages /\ Unset \in Ages
  BY DEF Ages, Unset, Expired
<1>p. ASSUME NEW d \in Nat, PassTime(d)
      PROVE  randomAge' \in Ages /\ startedAge' \in Ages /\ lossAge' \in Ages
  BY <1>p, OlderType DEF PassTime
<1>1. CASE UNCHANGED vars
  BY <1>1 DEF vars, envVars, soundVars, netVars, shareVars, redirVars,
              ageVars, endVars
<1> USE DEF envVars, soundVars, netVars, shareVars, redirVars, ageVars, endVars
<1>2. CASE ResetState
  <2>1. /\ g_network_error' \in BOOLEAN /\ g_exit_mainloop' \in BOOLEAN
        /\ activated' \in BOOLEAN /\ waves' \in BOOLEAN
        /\ unclean' \in BOOLEAN
    BY <1>2, Zenon DEF ResetState
  <2>2. pc' = "Connect" /\ g_rdp_shareid' = 0 /\ ResetFrame
    BY <1>2, Zenon DEF ResetState
  <2> QED BY <2>1, <2>2 DEF ResetFrame
<1>3. CASE SecConnect
  <2>1. g_network_error' \in BOOLEAN
    BY <1>3, Zenon DEF SecConnect, ConnectRefused, ConnectOverOldState,
                       ConnectNoConfirm, ConnectRejected, Connected
  <2> QED
    BY <1>3, <2>1
       DEF SecConnect, ConnectRefused, ConnectOverOldState,
           ConnectNoConfirm, ConnectRejected, Connected, ConnectFrame
<1>4. CASE SendClientInfo
  <2>1. g_network_error' \in BOOLEAN /\ g_redirect' \in BOOLEAN
    BY <1>4, Zenon DEF SendClientInfo
  <2> QED BY <1>4, <2>1 DEF SendClientInfo
<1>5. CASE StartSession
  <2>1. deactivated' \in BOOLEAN /\ g_reconnect_loop' \in BOOLEAN
    BY <1>5, Zenon DEF StartSession
  <2> QED BY <1>5, <1>a, <2>1 DEF StartSession
<1>6. CASE EnterRecv
  BY <1>6 DEF EnterRecv
<1>7. CASE Disconnect
  <2>1. /\ g_network_error' \in BOOLEAN /\ deactivated' \in BOOLEAN
        /\ eof' \in BOOLEAN
    BY <1>7, Zenon DEF Disconnect
  <2> QED BY <1>7, <2>1 DEF Disconnect
<1>8. CASE Decision
  <2>1. CASE EndSession \/ NetworkErrorExit \/ UnhandledExit
    BY <2>1 DEF EndSession, NetworkErrorExit, UnhandledExit, Teardown,
                LeaveProgram, DisconnectCode
  <2>2. CASE RedirectReconnect
    BY <2>2 DEF RedirectReconnect, Again
  <2>3. CASE ResizeReconnect
    <3>1. g_pending_resize' \in BOOLEAN /\ g_reconnect_loop' \in BOOLEAN
      BY <2>3, Zenon DEF ResizeReconnect
    <3> QED BY <2>3, <3>1 DEF ResizeReconnect, Again
  <2>4. CASE NetworkErrorFresh \/ NetworkErrorCookie
    <3>1. g_network_error' \in BOOLEAN /\ g_reconnect_loop' \in BOOLEAN
      BY <2>4, Zenon DEF NetworkErrorFresh, NetworkErrorCookie
    <3> QED
      BY <2>4, <1>a, <3>1 DEF NetworkErrorFresh, NetworkErrorCookie, Again
  <2> QED BY <1>8, <2>1, <2>2, <2>3, <2>4 DEF Decision
<1>9. CASE FailToLauncher \/ FailToExit \/ GiveUp
  <2>1. g_network_error' \in BOOLEAN
    BY <1>9, Zenon DEF FailToLauncher, FailToExit, GiveUp
  <2> QED
    BY <1>9, <2>1 DEF FailToLauncher, FailToExit, GiveUp, LeaveProgram
<1>10. CASE RetryLater
  <2>1. g_network_error' \in BOOLEAN
    BY <1>10, Zenon DEF RetryLater
  <2> QED BY <1>10, <2>1 DEF RetryLater
<1>11. CASE Sleep
  BY <1>11, <1>p DEF Sleep
<1>12. CASE Pdu
  <2>1. CASE PduDemandActive
    <3>1. /\ g_network_error' \in BOOLEAN /\ deactivated' \in BOOLEAN
          /\ activated' \in BOOLEAN
      BY <2>1, Zenon DEF PduDemandActive
    <3>2. /\ pc' \in PCs /\ g_rdp_shareid' \in {0, 1}
          /\ UNCHANGED <<envVars, netVars, g_exit_mainloop, g_user_quit,
                         redirVars, ageVars, g_reconnect_loop,
                         g_pending_resize, ext_disc_reason, exitCode>>
      BY <2>1, Zenon DEF PduDemandActive
    <3> QED BY <3>1, <3>2
  <2>2. CASE PduDeactivate
    <3>1. deactivated' \in BOOLEAN
      BY <2>2, Zenon DEF PduDeactivate
    <3>2. /\ pc' \in PCs
          /\ UNCHANGED <<envVars, netVars, g_network_error, g_exit_mainloop,
                         g_user_quit, shareVars, redirVars, ageVars,
                         g_reconnect_loop, g_pending_resize,
                         ext_disc_reason, exitCode>>
      BY <2>2, Zenon DEF PduDeactivate, NextPdu
    <3> QED BY <3>1, <3>2
  <2>3. CASE PduData \/ PduSetErrorInfo \/ PduLogonCookie
    <3>1. g_password' \in BOOLEAN
      BY <2>3, Zenon DEF PduData, PduSetErrorInfo, PduLogonCookie, DataPdu
    <3>2. ext_disc_reason' \in Reasons
      BY <2>3 DEF PduData, PduSetErrorInfo, PduLogonCookie
    <3> QED
      BY <2>3, <3>1, <3>2, <1>a
         DEF PduData, PduSetErrorInfo, PduLogonCookie, DataPdu, NextPdu
  <2>4. CASE PduRedirect
    <3>1. /\ g_network_error' \in BOOLEAN /\ eof' \in BOOLEAN
          /\ g_redirect' \in BOOLEAN /\ g_exit_mainloop' \in BOOLEAN
      BY <2>4, Zenon DEF PduRedirect, RedirectInfo
    <3>2. /\ g_redirect_cookie' \in {"null", "blob"}
          /\ g_redirect_cookie_len' \in {0, 1}
          /\ infoBlob' = infoBlob /\ g_password' = g_password
      BY <2>4 DEF PduRedirect, RedirectInfo
    <3>3. /\ pc' \in PCs
          /\ sock' \in {"none", "open"} /\ tls' \in {"none", "current", "stale"}
          /\ UNCHANGED <<envVars, g_user_quit, shareVars, ageVars,
                         g_reconnect_loop, g_pending_resize, endVars>>
      BY <2>4, Zenon DEF PduRedirect
    <3> QED BY <3>1, <3>2, <3>3
  <2>5. CASE PduSound
    <3>1. waves' \in BOOLEAN
      BY <2>5, Zenon DEF PduSound
    <3> QED BY <2>5, <3>1 DEF PduSound, NextPdu
  <2> QED BY <1>12, <2>1, <2>2, <2>3, <2>4, <2>5 DEF Pdu
<1>13. CASE RecvTlsEof
  BY <1>13 DEF RecvTlsEof
<1>14. CASE RecvFatal \/ RecvClosed
  <2>1. g_network_error' \in BOOLEAN /\ g_exit_mainloop' \in BOOLEAN
    BY <1>14, Zenon DEF RecvFatal, RecvClosed, RecvNull
  <2> QED BY <1>14, <2>1 DEF RecvFatal, RecvClosed, RecvNull
<1>15. CASE SendFails \/ WindowResized \/ Reachability
  <2>1. /\ g_network_error' \in BOOLEAN /\ g_pending_resize' \in BOOLEAN
        /\ up' \in BOOLEAN
    BY <1>15, Zenon DEF SendFails, WindowResized, Reachability
  <2> QED BY <1>15, <2>1 DEF SendFails, WindowResized, Reachability
<1>16. CASE UserQuit \/ ResizeByReconnect \/ HeartbeatTimeout
  <2>1. /\ g_network_error' \in BOOLEAN /\ g_pending_resize' \in BOOLEAN
        /\ g_user_quit' \in BOOLEAN /\ g_exit_mainloop' \in BOOLEAN
    BY <1>16, Zenon
       DEF UserQuit, ResizeByReconnect, HeartbeatTimeout, LeaveSession
  <2> QED
    BY <1>16, <2>1
       DEF UserQuit, ResizeByReconnect, HeartbeatTimeout, LeaveSession
<1>17. CASE Tick
  BY <1>17, <1>p DEF Tick
<1>18. CASE WavesPlayed
  <2>1. waves' \in BOOLEAN
    BY <1>18, Zenon DEF WavesPlayed
  <2> QED BY <1>18, <2>1 DEF WavesPlayed
<1> QED
  BY <1>1, <1>2, <1>3, <1>4, <1>5, <1>6, <1>7, <1>8, <1>9, <1>10, <1>11,
     <1>12, <1>13, <1>14, <1>15, <1>16, <1>17, <1>18
     DEF Next, ClientStep, Event

-----------------------------------------------------------------------------
(* The remaining conjuncts, one lemma each. *)

(* The flags agree with the history of the attempts. *)
LEMMA ErrorStep == IInv /\ [Next]_vars => ErrorInv'
<1> SUFFICES ASSUME IInv, [Next]_vars PROVE ErrorInv'
  OBVIOUS
<1> USE DEF IInv, ErrorInv, envVars, soundVars
<1>1. CASE UNCHANGED vars
  BY <1>1 DEF vars, redirVars
<1>2. CASE ResetState
  <2>1. PICK failed \in ConfirmsFail :
            g_network_error' = ((g_network_error \/ failed) /\ ~g_redirect)
    BY <1>2, Zenon DEF ResetState
  <2> QED BY <1>2, <2>1 DEF ResetState
<1>3. CASE SecConnect
  <2>1. /\ pc = "Connect" /\ pc' \in {"Failed", "Info"}
        /\ pc' = "Info" => ~g_network_error
        /\ UNCHANGED <<waves, unclean>>
    BY <1>3 DEF SecConnect, ConnectRefused, ConnectOverOldState,
                ConnectNoConfirm, ConnectRejected, Connected, ConnectFrame
  <2> QED BY <2>1
<1>3a. CASE SendClientInfo \/ StartSession \/ EnterRecv \/ Disconnect
  <2>1. /\ pc \in {"Info", "Up", "Main", "Down"}
        /\ pc' \in {"Activate", "Up", "Main", "Wait", "Down", "Decide"}
        /\ UNCHANGED <<waves, unclean>>
    BY <1>3a DEF SendClientInfo, StartSession, EnterRecv, Disconnect
  <2> QED BY <2>1
<1>4. CASE EndSession \/ NetworkErrorExit \/ UnhandledExit
           \/ FailToLauncher \/ FailToExit \/ GiveUp
  BY <1>4 DEF EndSession, NetworkErrorExit, UnhandledExit, Teardown,
              FailToLauncher, FailToExit, GiveUp, LeaveProgram
<1>5. CASE RedirectReconnect
  BY <1>5 DEF RedirectReconnect, Again, redirVars
<1>6. CASE NetworkErrorFresh \/ NetworkErrorCookie \/ ResizeReconnect
  BY <1>6 DEF NetworkErrorFresh, NetworkErrorCookie, ResizeReconnect, Again
<1>7. CASE RetryLater
  BY <1>7 DEF RetryLater
<1>8. CASE Sleep
  BY <1>8 DEF Sleep
<1>9. CASE Pdu
  <2>0. ~unclean
    BY <1>9, Zenon
       DEF Pdu, PduDemandActive, PduDeactivate, PduData, PduSetErrorInfo,
           PduLogonCookie, DataPdu, PduRedirect, PduSound, Receiving
  <2>1. CASE PduRedirect
    <3>1. pc' = "Reset" => g_redirect'
      BY <2>1 DEF PduRedirect, InSession
    <3>2. pc' \in {"Reset", "Down", "Main", "Activate"}
      BY <2>1 DEF PduRedirect, InSession
    <3>3. UNCHANGED unclean
      BY <2>1 DEF PduRedirect
    <3> QED BY <2>0, <3>1, <3>2, <3>3
  <2>2. CASE PduDemandActive \/ PduDeactivate \/ PduData
             \/ PduSetErrorInfo \/ PduLogonCookie \/ PduSound
    <3>1. pc' \in {"Main", "Activate", "Up"}
      BY <2>2, Zenon DEF PduDemandActive, PduDeactivate, PduData, PduSound,
                         PduSetErrorInfo, PduLogonCookie, DataPdu, NextPdu
    <3>2. UNCHANGED unclean
      BY <2>2 DEF PduDemandActive, PduDeactivate, PduData, PduSound,
                  PduSetErrorInfo, PduLogonCookie, DataPdu
    <3> QED BY <2>0, <3>1, <3>2
  <2> QED BY <1>9, <2>1, <2>2 DEF Pdu
<1>10. CASE RecvTlsEof \/ SendFails \/ WindowResized \/ Tick \/ WavesPlayed
  BY <1>10 DEF RecvTlsEof, SendFails, WindowResized, Tick, WavesPlayed
<1>11. CASE RecvFatal \/ RecvClosed
  BY <1>11 DEF RecvFatal, RecvClosed, RecvNull, InSession
<1>12. CASE UserQuit \/ ResizeByReconnect \/ HeartbeatTimeout
  BY <1>12 DEF UserQuit, ResizeByReconnect, HeartbeatTimeout, LeaveSession
<1>13. CASE Reachability
  BY <1>13 DEF Reachability, redirVars
<1> QED
  BY <1>1, <1>2, <1>3, <1>3a, <1>4, <1>5, <1>6, <1>7, <1>8, <1>9, <1>10, <1>11,
     <1>12, <1>13
     DEF Next, ClientStep, Event, Decision

(* No share id before Demand Active, and a session owns its transport. *)
LEMMA TransportStep == IInv /\ [Next]_vars => ShareInv' /\ TransportInv'
<1> SUFFICES ASSUME IInv, [Next]_vars PROVE ShareInv' /\ TransportInv'
  OBVIOUS
<1> USE DEF IInv, ShareInv, TransportInv, SessionIsActivated
<1> USE DEF netVars, shareVars
<1>1. CASE UNCHANGED vars
  BY <1>1 DEF vars
<1>2. CASE ResetState
  BY <1>2 DEF ResetState, ResetFrame
<1>3. CASE SecConnect
  BY <1>3 DEF SecConnect, ConnectRefused, ConnectOverOldState,
              ConnectNoConfirm, ConnectRejected, Connected, ConnectFrame
<1>4. CASE SendClientInfo
  BY <1>4 DEF SendClientInfo
<1>5. CASE StartSession \/ EnterRecv
  BY <1>5 DEF StartSession, EnterRecv
<1>6. CASE Disconnect
  BY <1>6 DEF Disconnect
<1>7. CASE EndSession \/ NetworkErrorExit \/ UnhandledExit
           \/ FailToLauncher \/ FailToExit \/ GiveUp
  BY <1>7 DEF EndSession, NetworkErrorExit, UnhandledExit, Teardown,
              FailToLauncher, FailToExit, GiveUp, LeaveProgram
<1>8. CASE RedirectReconnect \/ NetworkErrorFresh \/ NetworkErrorCookie
           \/ ResizeReconnect
  BY <1>8 DEF RedirectReconnect, NetworkErrorFresh, NetworkErrorCookie,
              ResizeReconnect, Again
<1>9. CASE RetryLater \/ Sleep
  BY <1>9 DEF RetryLater, Sleep
<1>10. CASE Pdu
  <2> USE DEF Receiving, InSession, NextPdu
  <2>1. CASE PduDemandActive
    <3>1. activated'
      BY <2>1 DEF PduDemandActive
    <3>2. /\ UNCHANGED <<sock, tls>>
          /\ pc' = "Activate" => g_rdp_shareid' = 0
          /\ pc' \in {"Main", "Up", "Activate"}
      BY <2>1 DEF PduDemandActive, TypeOK
    <3>3. pc \in {"Activate", "Wait"}
      BY <2>1, Zenon DEF PduDemandActive
    <3> QED BY <3>1, <3>2, <3>3
  <2>2. CASE PduDeactivate
    BY <2>2 DEF PduDeactivate
  <2>3. CASE PduData \/ PduSetErrorInfo \/ PduLogonCookie \/ PduSound
    BY <2>3 DEF PduData, PduSetErrorInfo, PduLogonCookie, DataPdu, PduSound
  <2>4. CASE PduRedirect
    <3>1. CASE pc' = "Reset"
      BY <2>4, <3>1 DEF PduRedirect
    <3>2. CASE pc' # "Reset"
      BY <2>4, <3>2 DEF PduRedirect
    <3> QED BY <3>1, <3>2
  <2> QED BY <1>10, <2>1, <2>2, <2>3, <2>4 DEF Pdu
<1>11. CASE RecvTlsEof \/ SendFails \/ WindowResized \/ Tick
            \/ Reachability \/ WavesPlayed
  BY <1>11 DEF RecvTlsEof, SendFails, WindowResized, Tick, Reachability,
               WavesPlayed
<1>12. CASE RecvFatal \/ RecvClosed
  BY <1>12 DEF RecvFatal, RecvClosed, RecvNull, InSession, TypeOK
<1>13. CASE UserQuit \/ ResizeByReconnect \/ HeartbeatTimeout
  BY <1>13 DEF UserQuit, ResizeByReconnect, HeartbeatTimeout, LeaveSession
<1> QED
  BY <1>1, <1>2, <1>3, <1>4, <1>5, <1>6, <1>7, <1>8, <1>9, <1>10, <1>11,
     <1>12, <1>13
     DEF Next, ClientStep, Event, Decision

(* The -R clock agrees with the time since the loss. *)
LEMMA ClockStep == IInv /\ [Next]_vars => ClockInv'
<1> SUFFICES ASSUME IInv, [Next]_vars PROVE ClockInv'
  OBVIOUS
<1> USE DEF IInv, ClockInv, ageVars
<1>p. ASSUME NEW d \in Nat, PassTime(d)
      PROVE  /\ startedAge' # Unset => lossAge' = startedAge'
             /\ startedAge = Unset => startedAge' = Unset
  BY <1>p DEF PassTime, Older
<1>1. CASE UNCHANGED vars
  BY <1>1 DEF vars
<1>2. CASE ResetState \/ SecConnect \/ SendClientInfo
  BY <1>2 DEF ResetState, ResetFrame, SecConnect, ConnectRefused, ConnectOverOldState,
              ConnectNoConfirm, ConnectRejected, Connected, ConnectFrame,
              SendClientInfo
<1>3. CASE StartSession \/ EnterRecv \/ Disconnect
  BY <1>3 DEF StartSession, EnterRecv, Disconnect
<1>4. CASE EndSession \/ NetworkErrorExit \/ UnhandledExit
           \/ FailToLauncher \/ FailToExit \/ GiveUp
  BY <1>4 DEF EndSession, NetworkErrorExit, UnhandledExit, Teardown,
              FailToLauncher, FailToExit, GiveUp, LeaveProgram
<1>5. CASE RedirectReconnect \/ NetworkErrorFresh \/ NetworkErrorCookie
           \/ ResizeReconnect
  BY <1>5 DEF RedirectReconnect, NetworkErrorFresh, NetworkErrorCookie,
              ResizeReconnect, Again
<1>6. CASE RetryLater
  BY <1>6 DEF RetryLater
<1>7. CASE Sleep
  BY <1>7, <1>p, SessionConstants DEF Sleep
<1>8. CASE Pdu
  BY <1>8 DEF Pdu, PduDemandActive, PduDeactivate, PduData,
              PduSetErrorInfo, PduLogonCookie, DataPdu, PduRedirect,
              PduSound, NextPdu, InSession, Receiving
<1>9. CASE RecvTlsEof \/ SendFails \/ WindowResized \/ Reachability
           \/ WavesPlayed
  BY <1>9 DEF RecvTlsEof, SendFails, WindowResized, Reachability, WavesPlayed
<1>10. CASE Tick
  BY <1>10, <1>p DEF Tick
<1>11. CASE RecvFatal \/ RecvClosed
  BY <1>11 DEF RecvFatal, RecvClosed, RecvNull, InSession
<1>12. CASE UserQuit \/ ResizeByReconnect \/ HeartbeatTimeout
  BY <1>12 DEF UserQuit, ResizeByReconnect, HeartbeatTimeout, LeaveSession
<1> QED
  BY <1>1, <1>2, <1>3, <1>4, <1>5, <1>6, <1>7, <1>8, <1>9, <1>10, <1>11,
     <1>12
     DEF Next, ClientStep, Event, Decision

(* The inductive invariant holds in every reachable state of main()'s loop. *)
THEOREM Invariance == Spec => []IInv
<1>1. IInv /\ [Next]_vars => IInv'
  BY TypeStep, ErrorStep, TransportStep, ClockStep DEF IInv
<1> QED BY <1>1, InitIInv, PTL DEF Spec

-----------------------------------------------------------------------------
(* The theorems a reader wants *)

(* Every variable of main()'s loop keeps its type. *)
THEOREM TypeCorrect == Spec => []TypeOK
  BY Invariance, PTL DEF IInv

(* Only waves confirmed by rdesktop_reset_state itself can make an attempt    *)
(* begin with g_network_error, never for a redirected session and never twice *)
(* in a row: -R cannot retry for ever on a flag that nothing clears.          *)
THEOREM ErrorsDoNotPersist == Spec => UncleanStartsOnce
<1>1. IInv /\ [Next]_vars =>
         [pc' = "Connect" /\ pc # "Connect" =>
             /\ ~g_exit_mainloop'
             /\ g_network_error' => waves /\ ~unclean /\ ~g_redirect']_vars
  <2> SUFFICES ASSUME IInv, Next, pc' = "Connect", pc # "Connect"
               PROVE  /\ ~g_exit_mainloop'
                      /\ g_network_error' => waves /\ ~unclean /\ ~g_redirect'
    OBVIOUS
  <2>1. ResetState
    BY DEF Next, ClientStep, Event, SecConnect, ConnectRefused,
           ConnectOverOldState, ConnectNoConfirm, ConnectRejected, Connected,
           SendClientInfo, StartSession, EnterRecv, Disconnect, Decision,
           EndSession, Teardown, LeaveProgram, RedirectReconnect,
           NetworkErrorExit, NetworkErrorFresh, NetworkErrorCookie,
           ResizeReconnect, UnhandledExit, Again,
           FailToLauncher, FailToExit, GiveUp, RetryLater, Sleep, Pdu,
           PduDemandActive, PduDeactivate, PduData, PduSetErrorInfo,
           PduLogonCookie, DataPdu, PduRedirect, PduSound, NextPdu, Receiving,
           RecvTlsEof, RecvFatal, RecvClosed, RecvNull, SendFails,
           WindowResized, UserQuit, ResizeByReconnect, HeartbeatTimeout,
           LeaveSession, WavesPlayed, Tick, Reachability
  <2>2. PICK failed \in ConfirmsFail :
            g_network_error' = ((g_network_error \/ failed) /\ ~g_redirect)
    BY <2>1, Zenon DEF ResetState
  <2>3. failed => waves
    BY DEF ConfirmsFail
  <2>4. g_redirect' = g_redirect /\ ~g_exit_mainloop'
    BY <2>1 DEF ResetState, ResetFrame, redirVars
  <2> QED BY <2>1, <2>2, <2>3, <2>4 DEF ResetState, IInv, ErrorInv
<1> QED BY <1>1, Invariance, PTL DEF Spec, UncleanStartsOnce

(* rdp_main_loop only runs on a connection that was activated, over the       *)
(* socket and TLS session of that connection.                                 *)
THEOREM SessionsAreActivated == Spec => []SessionIsActivated
<1>1. IInv => SessionIsActivated
  BY DEF IInv, TransportInv
<1> QED BY <1>1, Invariance, PTL

(* A session that ended gave up its TLS session before the next attempt.      *)
THEOREM NoTlsAfterSession == Spec => []EndedSessionsLeaveNoTls
<1>1. IInv => EndedSessionsLeaveNoTls
  BY DEF IInv, TransportInv, EndedSessionsLeaveNoTls
<1> QED BY <1>1, Invariance, PTL

(* -R retries for the whole window, whatever the window and the pause are.    *)
THEOREM FreshRetryWindow == Spec => FreshRetryLastsWindow
<1>1. IInv /\ [Next]_vars =>
         [GiveUp /\ ~g_reconnect_loop => lossAge > RECONNECT_TIMEOUT]_vars
  BY SessionConstants
     DEF IInv, TypeOK, ClockInv, GiveUp, MayRetry, RetryClock, TimedOut,
         Ages, Unset, Expired
<1> QED BY <1>1, Invariance, PTL DEF Spec, FreshRetryLastsWindow

=============================================================================
