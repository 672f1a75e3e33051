------------------------------ MODULE Session ------------------------------
(***************************************************************************)
(* The life of one rdesktop process: the connect / run / reconnect loop of *)
(* main() in rdesktop.c with the functions it drives in rdp.c              *)
(* (rdp_connect, rdp_loop, rdp_main_loop, process_redirect_pdu,            *)
(* rdp_send_client_info_pdu) and the flags those share with tcp.c and      *)
(* xwin.c.  Negotiation (iso.c) and the MCS handshake appear only through  *)
(* their outcomes; module Connect models them step by step.                *)
(*                                                                         *)
(* The server is the environment: every PDU, failure or close it can cause *)
(* is a choice.  Time is kept as saturating ages (time since an event),    *)
(* because the code only compares an age with RECONNECT_TIMEOUT.           *)
(***************************************************************************)
EXTENDS Integers

CONSTANTS
    RECONNECT_TIMEOUT,  \* the retry window, in ticks (rdesktop.c:55)
    SLEEP               \* pause between two attempts, in ticks (sleep(4))

ASSUME SessionConstants ==
    /\ RECONNECT_TIMEOUT \in Nat
    /\ SLEEP \in Nat \ {0}

VARIABLES
    pc,                     \* where main() is
    options,                \* command line: R (-R), gui prompts
    up,                     \* environment: the server can be reached
    waves,                  \* the sound device is open and has waves to confirm
    unclean,                \* history: the last attempt began with an error
    sock,                   \* g_sock: "none" or "open"
    tls,                    \* g_ssl_initialized, and to which socket it belongs
    eof,                    \* environment: TLS close_notify was received
    g_network_error,
    g_exit_mainloop,
    g_user_quit,
    g_rdp_shareid,          \* 0, or non-zero (1)
    activated,              \* history: Demand Active seen on this connection
    g_password,             \* whether g_password still holds the password
    g_redirect,
    g_redirect_cookie,      \* "null" or "blob"
    g_redirect_cookie_len,  \* 0, or non-zero (1)
    infoBlob,               \* what the last Client Info PDU used as password
    randomAge,              \* age of g_reconnect_random_ts, Unset when 0
    startedAge,             \* age of g_reconnect_started_ts, Unset when 0
    lossAge,                \* history: time since the session was lost
    g_reconnect_loop,
    g_pending_resize,
    deactivated,
    ext_disc_reason,
    exitCode

soundVars == <<waves, unclean>>
envVars == <<options, up, soundVars>>
netVars == <<sock, tls, eof>>
shareVars == <<g_rdp_shareid, activated>>
redirVars == <<g_password, g_redirect, g_redirect_cookie,
               g_redirect_cookie_len, infoBlob>>
ageVars == <<randomAge, startedAge, lossAge>>
endVars == <<deactivated, ext_disc_reason, exitCode>>

vars == <<pc, envVars, netVars, g_network_error, g_exit_mainloop, g_user_quit,
          shareVars, redirVars, ageVars, g_reconnect_loop, g_pending_resize,
          endVars>>

Unset == -1
Expired == RECONNECT_TIMEOUT + 1        \* ages saturate here
Ages == Unset .. Expired

(* rdp_connect is in "Connect" (sec_connect), "Info" (Client Info PDU) and *)
(* "Activate" (rdp_loop until a share id); rdp_main_loop is in "Main"      *)
(* (about to call tcp_recv) and "Wait" (in ui_select or recv).             *)
PCs == {"Reset", "Connect", "Info", "Activate", "Failed", "Sleep", "Up",
        "Main", "Wait", "Down", "Decide", "Exit"}

(* DISCONNECT_BYUSER is ERRINFO_RPC_INITIATED_DISCONNECT_BYUSER. *)
ByUser == {"LOGOFF_BYUSER", "DISCONNECT_BYUSER"}
Reasons == {"UNSET", "NO_INFO", "OTHER"} \cup ByUser
ExitCodes == {"none", "EX_OK", "EX_PROTOCOL", "WINDOW_CLOSED", "UNKNOWN",
              "LOGOFF_BY_USER", "DISCONNECT_BY_USER", "OTHER", "LAUNCHER"}

TypeOK ==
    /\ pc \in PCs
    /\ options \in [R : BOOLEAN, gui : BOOLEAN]
    /\ up \in BOOLEAN
    /\ waves \in BOOLEAN /\ unclean \in BOOLEAN
    /\ sock \in {"none", "open"}
    /\ tls \in {"none", "current", "stale"}
    /\ eof \in BOOLEAN
    /\ g_network_error \in BOOLEAN
    /\ g_exit_mainloop \in BOOLEAN
    /\ g_user_quit \in BOOLEAN
    /\ g_rdp_shareid \in {0, 1}
    /\ activated \in BOOLEAN
    /\ g_password \in BOOLEAN
    /\ g_redirect \in BOOLEAN
    /\ g_redirect_cookie \in {"null", "blob"}
    /\ g_redirect_cookie_len \in {0, 1}
    /\ infoBlob \in {"password", "blob", "null"}
    /\ randomAge \in Ages
    /\ startedAge \in Ages
    /\ lossAge \in Ages
    /\ g_reconnect_loop \in BOOLEAN
    /\ g_pending_resize \in BOOLEAN
    /\ deactivated \in BOOLEAN
    /\ ext_disc_reason \in Reasons
    /\ exitCode \in ExitCodes

Init ==
    /\ pc = "Reset"
    /\ options \in [R : BOOLEAN, gui : BOOLEAN]
    /\ up = TRUE
    /\ waves = FALSE /\ unclean = FALSE
    /\ sock = "none" /\ tls = "none" /\ eof = FALSE
    /\ g_network_error = FALSE /\ g_exit_mainloop = FALSE
    /\ g_user_quit = FALSE
    /\ g_rdp_shareid = 0 /\ activated = FALSE
    /\ g_password = TRUE /\ g_redirect = FALSE
    /\ g_redirect_cookie = "null" /\ g_redirect_cookie_len = 0
    /\ infoBlob = "password"
    /\ randomAge = Unset /\ startedAge = Unset /\ lossAge = Unset
    /\ g_reconnect_loop = FALSE /\ g_pending_resize = FALSE
    /\ deactivated = FALSE /\ ext_disc_reason = "UNSET" /\ exitCode = "none"

-----------------------------------------------------------------------------
(* Time and environment *)

Older(age, d) ==
    IF age = Unset THEN Unset
    ELSE IF age + d > Expired THEN Expired ELSE age + d

PassTime(d) ==
    /\ randomAge' = Older(randomAge, d)
    /\ startedAge' = Older(startedAge, d)
    /\ lossAge' = Older(lossAge, d)

(* Mutant: retries never end. *)
TimedOut_Never(age) == age = Unset

(* time(NULL) - ts > RECONNECT_TIMEOUT; a ts of 0 is always long ago. *)
TimedOut(age) == age = Unset \/ age > RECONNECT_TIMEOUT

Tick ==
    /\ pc \in {"Activate", "Wait"}
    /\ PassTime(1)
    /\ UNCHANGED <<pc, envVars, netVars, g_network_error, g_exit_mainloop,
                   g_user_quit, shareVars, redirVars, g_reconnect_loop,
                   g_pending_resize, endVars>>

Reachability ==
    /\ pc # "Exit"
    /\ up' = ~up
    /\ UNCHANGED <<pc, options, soundVars, netVars, g_network_error, g_exit_mainloop,
                   g_user_quit, shareVars, redirVars, ageVars,
                   g_reconnect_loop, g_pending_resize, endVars>>

-----------------------------------------------------------------------------
(* One iteration of main()'s loop, up to a running session *)

(* The waves a closing device confirms are sent on whatever is left of the   *)
(* connection: on a closed socket tcp_send raises g_network_error again.     *)
ConfirmsFail == IF waves THEN BOOLEAN ELSE {FALSE}

ResetFrame ==
    UNCHANGED <<options, up, netVars, g_user_quit, redirVars, ageVars,
                g_reconnect_loop, g_pending_resize, endVars>>

(* Mutants of ResetState: the sound device stays open; the share id of the   *)
(* previous connection survives.                                             *)
ResetState_KeepsDevice ==
    /\ pc = "Reset"
    /\ g_rdp_shareid' = 0 /\ activated' = FALSE /\ g_exit_mainloop' = FALSE
    /\ \E failed \in ConfirmsFail :
           g_network_error' = ((g_network_error \/ failed) /\ ~g_redirect)
    /\ unclean' = g_network_error'
    /\ pc' = "Connect"
    /\ UNCHANGED waves
    /\ ResetFrame

ResetState_KeepsShare ==
    /\ pc = "Reset"
    /\ activated' = FALSE /\ g_exit_mainloop' = FALSE
    /\ \E failed \in ConfirmsFail :
           g_network_error' = ((g_network_error \/ failed) /\ ~g_redirect)
    /\ waves' = FALSE /\ unclean' = g_network_error'
    /\ pc' = "Connect"
    /\ UNCHANGED g_rdp_shareid
    /\ ResetFrame

(* rdesktop_reset_state: rdp_reset_state, then rdpsnd_reset_state, which     *)
(* closes the device; after it the error of a redirect is cleared.           *)
ResetState ==
    /\ pc = "Reset"
    /\ g_rdp_shareid' = 0
    /\ activated' = FALSE
    /\ g_exit_mainloop' = FALSE
    /\ \E failed \in ConfirmsFail :
           g_network_error' = ((g_network_error \/ failed) /\ ~g_redirect)
    /\ waves' = FALSE
    /\ unclean' = g_network_error'
    /\ pc' = "Connect"
    /\ ResetFrame

(* What sec_connect leaves behind apart from sock, tls and the error flag. *)
ConnectFrame ==
    UNCHANGED <<envVars, eof, g_exit_mainloop, g_user_quit, shareVars,
                redirVars, ageVars, g_reconnect_loop, g_pending_resize,
                endVars>>

(* tcp_connect returns False: nothing was opened, TLS state is not touched. *)
ConnectRefused ==
    /\ pc = "Connect"
    /\ sock' = "none"
    /\ pc' = "Failed"
    /\ UNCHANGED <<tls, g_network_error>>
    /\ ConnectFrame

(* tcp_connect succeeds, but g_network_error is set, so that nothing is sent *)
(* or received; or g_ssl_initialized still is, and the connection request is *)
(* written to the old TLS session, which is dead, so that tcp_send sets it.  *)
(* Either way iso_recv_msg returns NULL at once.                             *)
ConnectOverOldState ==
    /\ pc = "Connect" /\ up /\ (tls # "none" \/ g_network_error)
    /\ sock' = "open"
    /\ g_network_error' = TRUE
    /\ pc' = "Failed"
    /\ UNCHANGED tls
    /\ ConnectFrame

(* The connection confirm never arrives: iso_connect returns without        *)
(* tcp_disconnect and the socket stays open.                                *)
ConnectNoConfirm ==
    /\ pc = "Connect" /\ up /\ tls = "none" /\ ~g_network_error
    /\ sock' = "open"
    /\ g_network_error' \in BOOLEAN
    /\ pc' = "Failed"
    /\ UNCHANGED tls
    /\ ConnectFrame

(* Negotiation, TLS, CredSSP or the MCS handshake is refused: every such    *)
(* path goes through tcp_disconnect.                                        *)
ConnectRejected ==
    /\ pc = "Connect" /\ up /\ tls = "none" /\ ~g_network_error
    /\ sock' = "none"
    /\ g_network_error' \in BOOLEAN
    /\ pc' = "Failed"
    /\ UNCHANGED tls
    /\ ConnectFrame

Connected ==
    /\ pc = "Connect" /\ up /\ tls = "none" /\ ~g_network_error
    /\ sock' = "open"
    /\ tls' \in {"none", "current"}
    /\ pc' = "Info"
    /\ UNCHANGED g_network_error
    /\ ConnectFrame

SecConnect ==
    \/ ConnectRefused \/ ConnectOverOldState \/ ConnectNoConfirm
    \/ ConnectRejected \/ Connected

(* The redirection blob replaces the password when g_redirect is set and    *)
(* its length is positive; sending may fail.                                *)
SendClientInfo ==
    /\ pc = "Info"
    /\ infoBlob' = IF g_redirect /\ g_redirect_cookie_len > 0
                   THEN g_redirect_cookie ELSE "password"
    /\ g_redirect' = FALSE
    /\ g_network_error' \in {g_network_error, TRUE}
    /\ pc' = IF g_rdp_shareid = 0 THEN "Activate" ELSE "Up"
    /\ UNCHANGED <<envVars, netVars, g_exit_mainloop, g_user_quit, shareVars,
                   g_password, g_redirect_cookie, g_redirect_cookie_len,
                   ageVars, g_reconnect_loop, g_pending_resize, endVars>>

-----------------------------------------------------------------------------
(* rdp_loop, shared by rdp_connect (pc = "Activate") and rdp_main_loop      *)

(* A PDU can be read: the peer is there and tcp_recv did not give up.       *)
Receiving ==
    /\ up /\ ~eof
    /\ \/ pc = "Activate" /\ ~g_network_error /\ ~g_exit_mainloop
       \/ pc = "Wait"

InSession == pc = "Wait"

(* Back to the head of the receive loop. *)
NextPdu == pc' = IF InSession THEN "Main" ELSE "Activate"

(* process_demand_active also reads four PDUs whose results it ignores, so   *)
(* the connection may die inside it unnoticed.                              *)
PduDemandActive ==
    /\ Receiving
    /\ g_rdp_shareid' \in {0, 1}
    /\ activated' = TRUE
    /\ g_network_error' \in {g_network_error, TRUE}
    /\ deactivated' = IF InSession THEN FALSE ELSE deactivated
    /\ pc' = IF InSession THEN "Main"
             ELSE IF g_rdp_shareid' # 0 THEN "Up" ELSE "Activate"
    /\ UNCHANGED <<envVars, netVars, g_exit_mainloop, g_user_quit, redirVars,
                   ageVars, g_reconnect_loop, g_pending_resize,
                   ext_disc_reason, exitCode>>

PduDeactivate ==
    /\ Receiving
    /\ deactivated' = IF InSession THEN TRUE ELSE deactivated
    /\ NextPdu
    /\ UNCHANGED <<envVars, netVars, g_network_error, g_exit_mainloop,
                   g_user_quit, shareVars, redirVars, ageVars,
                   g_reconnect_loop, g_pending_resize, ext_disc_reason,
                   exitCode>>

(* Any data PDU clears the password. *)
DataPdu ==
    /\ Receiving
    /\ g_password' = FALSE
    /\ NextPdu
    /\ UNCHANGED <<envVars, netVars, g_network_error, g_exit_mainloop,
                   g_user_quit, shareVars, g_redirect, g_redirect_cookie,
                   g_redirect_cookie_len, infoBlob, startedAge, lossAge,
                   g_reconnect_loop, g_pending_resize, deactivated, exitCode>>

(* Updates, pointers, and the data PDUs rdesktop does not act on. *)
PduData ==
    /\ DataPdu
    /\ UNCHANGED <<randomAge, ext_disc_reason>>

PduSetErrorInfo ==
    /\ DataPdu
    /\ \E r \in Reasons \ {"UNSET"} :
           ext_disc_reason' = IF InSession THEN r ELSE ext_disc_reason
    /\ UNCHANGED randomAge

(* Save Session Info with an auto-reconnect cookie. *)
PduLogonCookie ==
    /\ DataPdu
    /\ randomAge' = 0
    /\ UNCHANGED ext_disc_reason

(* Mutant: the old cookie is freed but the pointer to it is kept. *)
RedirectInfo_Dangling(flags) ==
    /\ g_redirect' = ("NOREDIRECT" \notin flags)
    /\ g_redirect_cookie' = IF "PASSWORD" \in flags THEN "blob"
                            ELSE IF g_redirect_cookie = "blob" THEN "freed"
                            ELSE g_redirect_cookie
    /\ g_redirect_cookie_len' = IF "PASSWORD" \in flags THEN 1
                                ELSE g_redirect_cookie_len
    /\ UNCHANGED <<g_password, infoBlob>>

(* process_redirect_pdu: flags is the set of LB_ bits that matter here.      *)
(* Only a PDU with LB_PASSWORD writes the cookie length.                     *)
RedirectInfo(flags) ==
    /\ g_redirect' = ("NOREDIRECT" \notin flags)
    /\ g_redirect_cookie' = IF "PASSWORD" \in flags THEN "blob" ELSE "null"
    /\ g_redirect_cookie_len' = IF "PASSWORD" \in flags THEN 1
                                ELSE g_redirect_cookie_len
    /\ UNCHANGED <<g_password, infoBlob>>

(* While connecting, rdp_connect returns True and main() disconnects and     *)
(* continues; in a session rdp_main_loop ends.                               *)
PduRedirect ==
    /\ Receiving
    /\ \E flags \in SUBSET {"PASSWORD", "NOREDIRECT"} : RedirectInfo(flags)
    /\ g_exit_mainloop' = (g_exit_mainloop \/ g_redirect')
    /\ IF g_redirect' /\ ~InSession
       THEN /\ sock' = "none" /\ tls' = "none" /\ eof' = FALSE
            /\ g_network_error' \in {g_network_error, TRUE}
            /\ pc' = "Reset"
       ELSE /\ UNCHANGED <<netVars, g_network_error>>
            /\ pc' = IF g_redirect' THEN "Down"
                     ELSE IF InSession THEN "Main" ELSE "Activate"
    /\ UNCHANGED <<envVars, g_user_quit, shareVars, ageVars, g_reconnect_loop,
                   g_pending_resize, endVars>>

(* Sound over its channel: the device is opened, plays, or is closed.        *)
PduSound ==
    /\ Receiving
    /\ waves' \in BOOLEAN
    /\ NextPdu
    /\ UNCHANGED <<options, up, unclean, netVars, g_network_error,
                   g_exit_mainloop, g_user_quit, shareVars, redirVars, ageVars,
                   g_reconnect_loop, g_pending_resize, endVars>>

Pdu ==
    \/ PduDemandActive \/ PduDeactivate \/ PduData \/ PduSetErrorInfo
    \/ PduLogonCookie \/ PduRedirect \/ PduSound

(* The TLS close_notify alert makes gnutls_record_recv return 0, which        *)
(* tcp_recv counts as "nothing yet": it keeps polling.                        *)
RecvTlsEof ==
    /\ pc \in {"Activate", "Wait"} /\ tls = "current" /\ ~eof
    /\ eof' = TRUE
    /\ UNCHANGED <<pc, envVars, sock, tls, g_network_error, g_exit_mainloop,
                   g_user_quit, shareVars, redirVars, ageVars,
                   g_reconnect_loop, g_pending_resize, endVars>>

(* rdp_recv returned NULL: rdp_connect fails without disconnecting, whereas  *)
(* rdp_main_loop ends.                                                       *)
RecvNull ==
    /\ pc' = IF InSession THEN "Down" ELSE "Failed"
    /\ g_exit_mainloop' = (g_exit_mainloop \/ InSession)
    /\ tls' = IF InSession \/ tls = "none" THEN tls ELSE "stale"
    /\ UNCHANGED <<envVars, sock, eof, g_user_quit, shareVars, redirVars,
                   ageVars, g_reconnect_loop, g_pending_resize, endVars>>

RecvFatal ==
    /\ pc \in {"Activate", "Wait"} /\ ~eof
    /\ g_network_error' = TRUE
    /\ RecvNull

(* recv() returning 0 on a plain socket ends the loop but is not counted as  *)
(* a network error.                                                          *)
RecvClosed ==
    /\ pc \in {"Activate", "Wait"} /\ tls = "none"
    /\ pc = "Activate" => ~g_network_error
    /\ UNCHANGED g_network_error
    /\ RecvNull

-----------------------------------------------------------------------------
(* The running session *)

(* Mutant: the start of an earlier retry period is not forgotten. *)
StartSession_KeepsStarted ==
    /\ pc = "Up"
    /\ lossAge' = Unset
    /\ deactivated' = FALSE
    /\ ext_disc_reason' = "UNSET"
    /\ g_reconnect_loop' = FALSE
    /\ pc' = "Main"
    /\ UNCHANGED <<startedAge, envVars, netVars, g_network_error,
                   g_exit_mainloop, g_user_quit, shareVars, redirVars,
                   randomAge, g_pending_resize, exitCode>>

(* rdp_connect returned True without a redirect: main() enters the session. *)
StartSession ==
    /\ pc = "Up"
    /\ startedAge' = Unset
    /\ lossAge' = Unset
    /\ deactivated' = FALSE
    /\ ext_disc_reason' = "UNSET"
    /\ g_reconnect_loop' = FALSE
    /\ pc' = "Main"
    /\ UNCHANGED <<envVars, netVars, g_network_error, g_exit_mainloop,
                   g_user_quit, shareVars, redirVars, randomAge,
                   g_pending_resize, exitCode>>

(* tcp_recv's entry test, then ui_select. *)
EnterRecv ==
    /\ pc = "Main"
    /\ pc' = IF g_network_error \/ g_exit_mainloop THEN "Down" ELSE "Wait"
    /\ g_exit_mainloop' = (g_exit_mainloop \/ g_network_error)
    /\ UNCHANGED <<envVars, netVars, g_network_error, g_user_quit, shareVars,
                   redirVars, ageVars, g_reconnect_loop, g_pending_resize,
                   endVars>>

(* rdpsnd_check_fds confirms what has been played. *)
WavesPlayed ==
    /\ pc = "Wait" /\ waves
    /\ waves' = FALSE
    /\ UNCHANGED <<pc, options, up, unclean, netVars, g_network_error,
                   g_exit_mainloop, g_user_quit, shareVars, redirVars, ageVars,
                   g_reconnect_loop, g_pending_resize, endVars>>

(* Input or channel data written from ui_select hits a dead connection; the *)
(* flag is only looked at when the next tcp_recv starts.                    *)
SendFails ==
    /\ pc = "Wait"
    /\ g_network_error' = TRUE
    /\ UNCHANGED <<pc, envVars, netVars, g_exit_mainloop, g_user_quit,
                   shareVars, redirVars, ageVars, g_reconnect_loop,
                   g_pending_resize, endVars>>

(* A ConfigureNotify or RandR event, or an RDPEDISP resize that was sent.   *)
WindowResized ==
    /\ pc = "Wait"
    /\ g_pending_resize' = ~g_pending_resize
    /\ UNCHANGED <<pc, envVars, netVars, g_network_error, g_exit_mainloop,
                   g_user_quit, shareVars, redirVars, ageVars,
                   g_reconnect_loop, endVars>>

LeaveSession ==
    /\ g_exit_mainloop' = TRUE
    /\ pc' = "Down"
    /\ UNCHANGED <<envVars, netVars, shareVars, redirVars, ageVars,
                   g_reconnect_loop, endVars>>

UserQuit ==
    /\ pc = "Wait"
    /\ g_user_quit' = TRUE
    /\ g_pending_resize' = FALSE
    /\ UNCHANGED g_network_error
    /\ LeaveSession

(* process_pending_resize asks for a disconnect / reconnect resize. *)
ResizeByReconnect ==
    /\ pc = "Wait" /\ g_pending_resize
    /\ UNCHANGED <<g_network_error, g_user_quit, g_pending_resize>>
    /\ LeaveSession

(* rdp_heartbeat_check_timeout declares the connection failed. *)
HeartbeatTimeout ==
    /\ pc = "Wait"
    /\ g_network_error' = TRUE
    /\ UNCHANGED <<g_user_quit, g_pending_resize>>
    /\ LeaveSession

-----------------------------------------------------------------------------
(* After the session *)

(* Mutant: g_ssl_initialized survives the disconnect. *)
Disconnect_KeepsTls ==
    /\ pc = "Down"
    /\ sock' = "none" /\ eof' = FALSE
    /\ g_network_error' \in {g_network_error, TRUE}
    /\ pc' = "Decide"
    /\ UNCHANGED <<tls, envVars, g_exit_mainloop, g_user_quit, shareVars,
                   redirVars, ageVars, g_reconnect_loop, g_pending_resize,
                   endVars>>

(* rdp_disconnect (which itself sends, and may fail) and the translation of *)
(* the Windows 2008 style logoff.                                           *)
Disconnect ==
    /\ pc = "Down"
    /\ sock' = "none" /\ tls' = "none" /\ eof' = FALSE
    /\ g_network_error' \in {g_network_error, TRUE}
    /\ IF ext_disc_reason = "NO_INFO"
       THEN /\ deactivated' = FALSE
            /\ ext_disc_reason' = IF deactivated THEN "LOGOFF_BYUSER"
                                  ELSE "UNSET"
       ELSE UNCHANGED <<deactivated, ext_disc_reason>>
    /\ pc' = "Decide"
    /\ UNCHANGED <<envVars, g_exit_mainloop, g_user_quit, shareVars,
                   redirVars, ageVars, g_reconnect_loop, g_pending_resize,
                   exitCode>>

SessionEnded == g_user_quit \/ deactivated \/ ext_disc_reason # "UNSET"

(* handle_disconnect_reason; its parameter is 16 bits wide, so ERRINFO_UNSET *)
(* arrives as 0xffff and falls into the default case.                        *)
DisconnectCode ==
    CASE ext_disc_reason = "NO_INFO" ->
             IF deactivated THEN "EX_OK" ELSE "UNKNOWN"
      [] ext_disc_reason = "LOGOFF_BYUSER" -> "LOGOFF_BY_USER"
      [] ext_disc_reason = "DISCONNECT_BYUSER" -> "DISCONNECT_BY_USER"
      [] ext_disc_reason = "OTHER" -> "OTHER"
      [] OTHER -> "UNKNOWN"

LeaveProgram(code) ==
    /\ exitCode' = code
    /\ pc' = "Exit"
    /\ UNCHANGED <<envVars, netVars, g_exit_mainloop, g_user_quit, shareVars,
                   redirVars, ageVars, g_reconnect_loop, g_pending_resize,
                   deactivated, ext_disc_reason>>

(* Mutant: the server's reason goes before the user's quit. *)
Teardown_ReasonFirst ==
    /\ LeaveProgram(IF g_user_quit /\ ext_disc_reason = "UNSET"
                    THEN "WINDOW_CLOSED" ELSE DisconnectCode)
    /\ UNCHANGED g_network_error

(* The break statements of the loop and the code after it. *)
Teardown ==
    /\ LeaveProgram(IF g_user_quit THEN "WINDOW_CLOSED"
                    ELSE IF options.gui /\ DisconnectCode # "EX_OK"
                            /\ ext_disc_reason \notin ByUser
                         THEN "LAUNCHER" ELSE DisconnectCode)
    /\ UNCHANGED g_network_error

(* Next iteration of the loop. *)
Again ==
    /\ pc' = "Reset"
    /\ UNCHANGED <<envVars, netVars, g_exit_mainloop, g_user_quit, shareVars,
                   redirVars, randomAge, endVars>>

EndSession ==
    /\ pc = "Decide" /\ SessionEnded
    /\ Teardown

RedirectReconnect ==
    /\ pc = "Decide" /\ ~SessionEnded /\ g_redirect
    /\ UNCHANGED <<g_network_error, startedAge, lossAge, g_reconnect_loop,
                   g_pending_resize>>
    /\ Again

NetworkErrorExit ==
    /\ pc = "Decide" /\ ~SessionEnded /\ ~g_redirect /\ g_network_error
    /\ randomAge = Unset /\ ~options.R
    /\ Teardown

NetworkErrorFresh ==
    /\ pc = "Decide" /\ ~SessionEnded /\ ~g_redirect /\ g_network_error
    /\ randomAge = Unset /\ options.R
    /\ startedAge' = IF startedAge = Unset THEN 0 ELSE startedAge
    /\ lossAge' = 0
    /\ g_network_error' = FALSE
    /\ g_reconnect_loop' = FALSE
    /\ UNCHANGED g_pending_resize
    /\ Again

NetworkErrorCookie ==
    /\ pc = "Decide" /\ ~SessionEnded /\ ~g_redirect /\ g_network_error
    /\ randomAge # Unset
    /\ lossAge' = 0
    /\ g_network_error' = FALSE
    /\ g_reconnect_loop' = TRUE
    /\ UNCHANGED <<startedAge, g_pending_resize>>
    /\ Again

ResizeReconnect ==
    /\ pc = "Decide" /\ ~SessionEnded /\ ~g_redirect /\ ~g_network_error
    /\ g_pending_resize
    /\ g_pending_resize' = FALSE
    /\ g_reconnect_loop' = TRUE
    /\ UNCHANGED <<g_network_error, startedAge, lossAge>>
    /\ Again

UnhandledExit ==
    /\ pc = "Decide" /\ ~SessionEnded /\ ~g_redirect /\ ~g_network_error
    /\ ~g_pending_resize
    /\ Teardown

Decision ==
    \/ EndSession \/ RedirectReconnect \/ NetworkErrorExit
    \/ NetworkErrorFresh \/ NetworkErrorCookie \/ ResizeReconnect
    \/ UnhandledExit

(* rdp_connect returned False. *)
MayRetry == g_reconnect_loop \/ (options.R /\ startedAge # Unset)
RetryClock == IF g_reconnect_loop THEN randomAge ELSE startedAge

FailToLauncher ==
    /\ pc = "Failed" /\ options.gui
    /\ g_network_error' = FALSE
    /\ LeaveProgram("LAUNCHER")

FailToExit ==
    /\ pc = "Failed" /\ ~options.gui /\ ~MayRetry
    /\ g_network_error' = FALSE
    /\ LeaveProgram("EX_PROTOCOL")

GiveUp ==
    /\ pc = "Failed" /\ ~options.gui /\ MayRetry /\ TimedOut(RetryClock)
    /\ g_network_error' = FALSE
    /\ LeaveProgram("EX_PROTOCOL")

RetryLater ==
    /\ pc = "Failed" /\ ~options.gui /\ MayRetry /\ ~TimedOut(RetryClock)
    /\ g_network_error' = FALSE
    /\ pc' = "Sleep"
    /\ UNCHANGED <<envVars, netVars, g_exit_mainloop, g_user_quit, shareVars,
                   redirVars, ageVars, g_reconnect_loop, g_pending_resize,
                   endVars>>

Sleep ==
    /\ pc = "Sleep"
    /\ PassTime(SLEEP)
    /\ pc' = "Reset"
    /\ UNCHANGED <<envVars, netVars, g_network_error, g_exit_mainloop,
                   g_user_quit, shareVars, redirVars, g_reconnect_loop,
                   g_pending_resize, endVars>>

-----------------------------------------------------------------------------

(* Steps the client takes by itself. *)
ClientStep ==
    \/ ResetState \/ SecConnect \/ SendClientInfo \/ StartSession
    \/ EnterRecv \/ Disconnect \/ Decision
    \/ FailToLauncher \/ FailToExit \/ GiveUp \/ RetryLater \/ Sleep

(* Steps the server, the network or the user causes. *)
Event ==
    \/ Pdu \/ RecvTlsEof \/ RecvFatal \/ RecvClosed \/ SendFails
    \/ WindowResized \/ UserQuit \/ ResizeByReconnect \/ HeartbeatTimeout
    \/ WavesPlayed \/ Tick \/ Reachability

Next == ClientStep \/ Event

Spec == Init /\ [][Next]_vars

(* A dead path is eventually reported by the kernel (keepalive and user     *)
(* timeout, tcp_enable_keepalive), also when a send had already failed.     *)
DeadPathReported == (~up \/ g_network_error) /\ RecvFatal

FairSpec == Spec /\ WF_vars(ClientStep) /\ WF_vars(DeadPathReported)

-----------------------------------------------------------------------------
(* Properties *)

(* tcp_send and tcp_recv do nothing once g_network_error is set, so that an   *)
(* attempt that begins with it fails.  Only the waves confirmed by the reset  *)
(* itself can set it again, never for a redirected session, and never for two *)
(* attempts after each other: the retry of one that failed this way begins    *)
(* without it.  g_exit_mainloop, which ends rdp_loop, never survives.         *)
UncleanStartsOnce ==
    [][pc' = "Connect" /\ pc # "Connect" =>
          /\ ~g_exit_mainloop'
          /\ g_network_error' => waves /\ ~unclean /\ ~g_redirect']_vars

(* The main loop only runs over the socket of this attempt, and only after a  *)
(* Demand Active PDU of this connection: a share id left over from an earlier *)
(* connection never lets rdp_connect return early.                            *)
SessionIsActivated ==
    pc \in {"Up", "Main", "Wait"} =>
        activated /\ sock = "open" /\ tls # "stale"

(* rdp_disconnect gives up the TLS session with the socket: whatever TLS      *)
(* state a new attempt finds was left by an attempt that failed after         *)
(* sec_connect, never by a session that ended.                                *)
EndedSessionsLeaveNoTls ==
    pc \in {"Decide", "Reset", "Connect"} => tls # "current"

(* With -R and no cookie, the client gives up only when the full window has   *)
(* passed since the session was lost.                                         *)
FreshRetryLastsWindow ==
    [][GiveUp /\ ~g_reconnect_loop => lossAge > RECONNECT_TIMEOUT]_vars

(* Closing the window ends the program with the exit value for it, whatever   *)
(* else was going on (a lost connection, a pending redirect or resize).       *)
QuitExits == g_user_quit ~> (pc = "Exit" /\ exitCode = "WINDOW_CLOSED")

(* When the server stays away for good, the retry loop does not run forever   *)
(* (nor does a session, unless it was closed by close_notify: then the        *)
(* receive loop of an idle client may read nothing for ever).                 *)
RetriesEnd == <>[](~up /\ ~eof) => <>(pc = "Exit")
=============================================================================
