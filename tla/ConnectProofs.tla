---------------------------- MODULE ConnectProofs ----------------------------
(***************************************************************************)
(* sec_connect reports the transport it really has, for any number of      *)
(* virtual channels.  The invariant says, step by step of the sequence,    *)
(* what the socket, the TLS session and the encryption flag are; the least *)
(* obvious part is that a TLS session of an earlier connection cannot      *)
(* survive a request that was answered, because the request was sent       *)
(* through it.                                                             *)
(***************************************************************************)
EXTENDS Connect, TLAPS

(* Nothing negotiated is in force: before TLS, and for plain RDP. *)
PlainTransport ==
    selected = "RDP" /\ tls # "current" /\ g_encryption = opts.encryption

(* tcp_tls_connect or cssp_connect has succeeded on this socket. *)
SecureTransport ==
    selected # "RDP" /\ tls = "current" /\ ~g_encryption

TransportInv ==
    /\ pc \in {"Start", "Tcp"} => sock = "none" /\ PlainTransport
    /\ pc \in {"Request", "Confirm"} => sock = "open" /\ PlainTransport
    /\ pc = "Confirm" /\ tls = "stale" => g_network_error
    /\ pc \in {"Tls", "Cssp"} => sock = "open" /\ PlainTransport /\ tls # "stale"
    /\ pc \in {"McsConnect", "McsAttach", "McsJoin", "Ok"} =>
           /\ sock = "open" /\ tls # "stale"
           /\ PlainTransport \/ SecureTransport

(* What was asked for, and what a server that keeps to it can have chosen. *)
NegotiationInv ==
    /\ pc # "Start" => neg_proto = {} \/ "SSL" \in neg_proto
    /\ pc = "Tls" => choice = "SSL"
    /\ pc = "Cssp" => choice \in CredSSP
    /\ compliant /\ pc \in {"Tls", "Cssp"} => choice \in neg_proto
    /\ choice = "SSL" => ~opts.restricted /\ ~opts.guard

JoinInv ==
    /\ pc \notin {"McsJoin", "Ok", "Fail"} => joined = 0
    /\ pc = "Ok" => AllJoined

IInv ==
    /\ TypeOK /\ TransportInv /\ NegotiationInv /\ JoinInv
    /\ OneSocket /\ FailureReleases

-----------------------------------------------------------------------------

(* The command line options are flags. *)
LEMMA OptionsAreFlags ==
    ASSUME NEW o \in Options
    PROVE  /\ o.restricted \in BOOLEAN /\ o.guard \in BOOLEAN
           /\ o.encryption \in BOOLEAN
BY DEF Options

(* An attempt begins in the invariant, whatever the last one left. *)
LEMMA InitIInv == Init => IInv
<1> SUFFICES ASSUME Init PROVE IInv
  OBVIOUS
<1> USE ConnectConstants
<1>1. TypeOK
  <2>1. g_encryption \in BOOLEAN
    BY OptionsAreFlags, Zenon DEF Init
  <2>2. joined \in 0 .. ToJoin
    BY DEF Init, ToJoin
  <2> QED BY <2>1, <2>2, Zenon DEF Init, TypeOK, PCs, Protocols
<1>2. TransportInv
  BY DEF Init, TransportInv, PlainTransport, SecureTransport
<1>3. NegotiationInv /\ JoinInv /\ OneSocket /\ FailureReleases
  BY DEF Init, NegotiationInv, JoinInv, OneSocket, FailureReleases
<1> QED BY <1>1, <1>2, <1>3 DEF IInv

(* One case for each place of sec_connect. *)
LEMMA StepIInv == IInv /\ [Next]_vars => IInv'
<1> SUFFICES ASSUME IInv, [Next]_vars PROVE IInv'
  OBVIOUS
<1> USE ConnectConstants, OptionsAreFlags DEF IInv, negVars, cryptVars, TcpDisconnect, Fail, Answered, AllJoined, InMcs
<1>1. CASE StartConnect
  <2>1. TypeOK'
    BY <1>1 DEF StartConnect, NegProto, CredSSP, TypeOK, PCs, ToJoin, Protocols
  <2>2. TransportInv'
    BY <1>1 DEF StartConnect, NegProto, CredSSP, TypeOK, TransportInv, PlainTransport, SecureTransport, NegotiationInv, CredSSP
  <2>3. NegotiationInv'
    BY <1>1 DEF StartConnect, NegProto, CredSSP, TypeOK, NegotiationInv, Protocols, CredSSP
  <2>4. JoinInv' /\ OneSocket' /\ FailureReleases'
    BY <1>1 DEF StartConnect, NegProto, CredSSP, TypeOK, TransportInv, PlainTransport, JoinInv, OneSocket, FailureReleases, ToJoin
  <2> QED BY <2>1, <2>2, <2>3, <2>4
<1>2. CASE TcpConnect
  <2>1. TypeOK'
    BY <1>2 DEF TcpConnect, TypeOK, PCs, ToJoin, Protocols
  <2>2. TransportInv'
    BY <1>2 DEF TcpConnect, TypeOK, TransportInv, PlainTransport, SecureTransport, NegotiationInv, CredSSP
  <2>3. NegotiationInv'
    BY <1>2 DEF TcpConnect, TypeOK, NegotiationInv, Protocols, CredSSP
  <2>4. JoinInv' /\ OneSocket' /\ FailureReleases'
    BY <1>2 DEF TcpConnect, TypeOK, TransportInv, PlainTransport, JoinInv, OneSocket, FailureReleases, ToJoin
  <2> QED BY <2>1, <2>2, <2>3, <2>4
<1>3. CASE TcpConnectFails
  <2>1. TypeOK'
    BY <1>3 DEF TcpConnectFails, TypeOK, PCs, ToJoin, Protocols
  <2>2. TransportInv'
    BY <1>3 DEF TcpConnectFails, TypeOK, TransportInv, PlainTransport, SecureTransport, NegotiationInv, CredSSP
  <2>3. NegotiationInv'
    BY <1>3 DEF TcpConnectFails, TypeOK, NegotiationInv, Protocols, CredSSP
  <2>4. JoinInv' /\ OneSocket' /\ FailureReleases'
    BY <1>3 DEF TcpConnectFails, TypeOK, TransportInv, PlainTransport, JoinInv, OneSocket, FailureReleases, ToJoin
  <2> QED BY <2>1, <2>2, <2>3, <2>4
<1>4. CASE SendRequest
  <2>1. TypeOK'
    <3>1. g_network_error' \in BOOLEAN
      BY <1>4, Zenon DEF SendRequest, TypeOK
    <3> QED BY <1>4, <3>1 DEF SendRequest, TypeOK, PCs, ToJoin, Protocols
  <2>2. TransportInv'
    BY <1>4 DEF SendRequest, TypeOK, TransportInv, PlainTransport, SecureTransport, NegotiationInv, CredSSP
  <2>3. NegotiationInv'
    BY <1>4 DEF SendRequest, TypeOK, NegotiationInv, Protocols, CredSSP
  <2>4. JoinInv' /\ OneSocket' /\ FailureReleases'
    BY <1>4 DEF SendRequest, TypeOK, TransportInv, PlainTransport, JoinInv, OneSocket, FailureReleases, ToJoin
  <2> QED BY <2>1, <2>2, <2>3, <2>4
<1>5. CASE NoConfirm
  <2>1. TypeOK'
    <3>1. g_network_error' \in BOOLEAN
      BY <1>5, Zenon DEF NoConfirm, TypeOK
    <3> QED BY <1>5, <3>1 DEF NoConfirm, TypeOK, PCs, ToJoin, Protocols
  <2>2. TransportInv'
    BY <1>5 DEF NoConfirm, TypeOK, TransportInv, PlainTransport, SecureTransport, NegotiationInv, CredSSP
  <2>3. NegotiationInv'
    BY <1>5 DEF NoConfirm, TypeOK, NegotiationInv, Protocols, CredSSP
  <2>4. JoinInv' /\ OneSocket' /\ FailureReleases'
    BY <1>5 DEF NoConfirm, TypeOK, TransportInv, PlainTransport, JoinInv, OneSocket, FailureReleases, ToJoin
  <2> QED BY <2>1, <2>2, <2>3, <2>4
<1>6. CASE BadConfirm
  <2>1. TypeOK'
    BY <1>6 DEF BadConfirm, TypeOK, PCs, ToJoin, Protocols
  <2>2. TransportInv'
    BY <1>6 DEF BadConfirm, TypeOK, TransportInv, PlainTransport, SecureTransport, NegotiationInv, CredSSP
  <2>3. NegotiationInv'
    BY <1>6 DEF BadConfirm, TypeOK, NegotiationInv, Protocols, CredSSP
  <2>4. JoinInv' /\ OneSocket' /\ FailureReleases'
    BY <1>6 DEF BadConfirm, TypeOK, TransportInv, PlainTransport, JoinInv, OneSocket, FailureReleases, ToJoin
  <2> QED BY <2>1, <2>2, <2>3, <2>4
<1>7. CASE PlainConfirm
  <2>1. TypeOK'
    BY <1>7 DEF PlainConfirm, TypeOK, PCs, ToJoin, Protocols
  <2>2. TransportInv'
    BY <1>7 DEF PlainConfirm, TypeOK, TransportInv, PlainTransport, SecureTransport, NegotiationInv, CredSSP
  <2>3. NegotiationInv'
    BY <1>7 DEF PlainConfirm, TypeOK, NegotiationInv, Protocols, CredSSP
  <2>4. JoinInv' /\ OneSocket' /\ FailureReleases'
    BY <1>7 DEF PlainConfirm, TypeOK, TransportInv, PlainTransport, JoinInv, OneSocket, FailureReleases, ToJoin
  <2> QED BY <2>1, <2>2, <2>3, <2>4
<1>8. CASE NegFailurePlain
  <2>1. TypeOK'
    BY <1>8 DEF NegFailurePlain, TypeOK, PCs, ToJoin, Protocols
  <2>2. TransportInv'
    BY <1>8 DEF NegFailurePlain, TypeOK, TransportInv, PlainTransport, SecureTransport, NegotiationInv, CredSSP
  <2>3. NegotiationInv'
    BY <1>8 DEF NegFailurePlain, TypeOK, NegotiationInv, Protocols, CredSSP
  <2>4. JoinInv' /\ OneSocket' /\ FailureReleases'
    BY <1>8 DEF NegFailurePlain, TypeOK, TransportInv, PlainTransport, JoinInv, OneSocket, FailureReleases, ToJoin
  <2> QED BY <2>1, <2>2, <2>3, <2>4
<1>9. CASE NegFailure
  <2>1. TypeOK'
    BY <1>9 DEF NegFailure, TypeOK, PCs, ToJoin, Protocols
  <2>2. TransportInv'
    BY <1>9 DEF NegFailure, TypeOK, TransportInv, PlainTransport, SecureTransport, NegotiationInv, CredSSP
  <2>3. NegotiationInv'
    BY <1>9 DEF NegFailure, TypeOK, NegotiationInv, Protocols, CredSSP
  <2>4. JoinInv' /\ OneSocket' /\ FailureReleases'
    BY <1>9 DEF NegFailure, TypeOK, TransportInv, PlainTransport, JoinInv, OneSocket, FailureReleases, ToJoin
  <2> QED BY <2>1, <2>2, <2>3, <2>4
<1>10. CASE NegResponses
  <2> PICK modeFlag \in BOOLEAN, data \in Protocols \cup {"RDP", "other"} :
               NegResponse(modeFlag, data)
    BY <1>10 DEF NegResponses
  <2> USE DEF ModeRefused, CredSSP
  <2>1. CASE ModeRefused(modeFlag, data) \/ data = "other"
    <3>1. TypeOK' /\ NegotiationInv'
      BY <2>1 DEF NegResponse, TypeOK, PCs, NegotiationInv
    <3>2. TransportInv' /\ JoinInv' /\ OneSocket' /\ FailureReleases'
      BY <2>1 DEF NegResponse, TransportInv, JoinInv, OneSocket, FailureReleases
    <3> QED BY <3>1, <3>2
  <2>2. CASE ~ModeRefused(modeFlag, data) /\ data # "other"
    <3>1. /\ choice' = data /\ pc = "Confirm" /\ ~g_network_error
          /\ data = "SSL" => pc' = "Tls"
          /\ data \in CredSSP => pc' = "Cssp"
          /\ data = "RDP" => pc' = "McsConnect"
          /\ compliant => data \in neg_proto \cup {"RDP"}
          /\ UNCHANGED <<compliant, quiet, opts, negVars, selected, sock, orphans,
                         tls, cryptVars, g_network_error, joined>>
      BY <2>2 DEF NegResponse
    <3>2. data \in {"SSL", "HYBRID", "HYBRID_EX", "RDP"}
      BY <2>2 DEF Protocols
    <3>3. TypeOK'
      BY <3>1, <3>2 DEF TypeOK, PCs, Protocols
    <3>4. NegotiationInv'
      BY <2>2, <3>1, <3>2 DEF NegotiationInv
    <3>5. TransportInv'
      BY <3>1, <3>2 DEF TransportInv, PlainTransport
    <3>6. JoinInv' /\ OneSocket' /\ FailureReleases'
      BY <3>1, <3>2 DEF JoinInv, OneSocket, FailureReleases
    <3> QED BY <3>3, <3>4, <3>5, <3>6
  <2> QED BY <2>1, <2>2 DEF NegResponse
<1>11. CASE SecureTransportUp
  <2>1. TypeOK'
    BY <1>11 DEF SecureTransportUp, TypeOK, PCs, ToJoin, Protocols
  <2>2. TransportInv'
    BY <1>11 DEF SecureTransportUp, TypeOK, TransportInv, PlainTransport, SecureTransport, NegotiationInv, CredSSP
  <2>3. NegotiationInv'
    BY <1>11 DEF SecureTransportUp, TypeOK, NegotiationInv, Protocols, CredSSP
  <2>4. JoinInv' /\ OneSocket' /\ FailureReleases'
    BY <1>11 DEF SecureTransportUp, TypeOK, TransportInv, PlainTransport, JoinInv, OneSocket, FailureReleases, ToJoin
  <2> QED BY <2>1, <2>2, <2>3, <2>4
<1>12. CASE TlsFails
  <2>1. TypeOK'
    BY <1>12 DEF TlsFails, TypeOK, PCs, ToJoin, Protocols
  <2>2. TransportInv'
    BY <1>12 DEF TlsFails, TypeOK, TransportInv, PlainTransport, SecureTransport, NegotiationInv, CredSSP
  <2>3. NegotiationInv'
    BY <1>12 DEF TlsFails, TypeOK, NegotiationInv, Protocols, CredSSP
  <2>4. JoinInv' /\ OneSocket' /\ FailureReleases'
    BY <1>12 DEF TlsFails, TypeOK, TransportInv, PlainTransport, JoinInv, OneSocket, FailureReleases, ToJoin
  <2> QED BY <2>1, <2>2, <2>3, <2>4
<1>13. CASE CsspFails
  <2>1. TypeOK'
    <3>1. pc' \in PCs /\ neg_proto' \in SUBSET Protocols /\ g_network_error' \in BOOLEAN
      BY <1>13 DEF CsspFails, TypeOK, PCs, Protocols
    <3>2. sock' = "none" /\ tls' = "none" /\ orphans' = orphans
      BY <1>13 DEF CsspFails
    <3>3. UNCHANGED <<compliant, quiet, opts, g_negotiate_rdp_protocol, selected, choice,
                      g_encryption, keys, joined>>
      BY <1>13 DEF CsspFails
    <3> QED BY <3>1, <3>2, <3>3, Zenon DEF TypeOK
  <2>2. TransportInv'
    BY <1>13 DEF CsspFails, TypeOK, TransportInv, PlainTransport, SecureTransport, NegotiationInv, CredSSP
  <2>3. NegotiationInv'
    BY <1>13 DEF CsspFails, TypeOK, NegotiationInv, Protocols, CredSSP
  <2>4. JoinInv' /\ OneSocket' /\ FailureReleases'
    BY <1>13 DEF CsspFails, TypeOK, TransportInv, PlainTransport, JoinInv, OneSocket, FailureReleases, ToJoin
  <2> QED BY <2>1, <2>2, <2>3, <2>4
<1>14. CASE McsFails
  <2>1. TypeOK'
    <3>1. pc' \in PCs /\ neg_proto' \in SUBSET Protocols /\ g_network_error' \in BOOLEAN
      BY <1>14 DEF McsFails, TypeOK, PCs, Protocols
    <3>2. sock' = "none" /\ tls' = "none" /\ orphans' = orphans
      BY <1>14 DEF McsFails
    <3>3. UNCHANGED <<compliant, quiet, opts, g_negotiate_rdp_protocol, selected, choice,
                      g_encryption, keys, joined>>
      BY <1>14 DEF McsFails
    <3> QED BY <3>1, <3>2, <3>3, Zenon DEF TypeOK
  <2>2. TransportInv'
    BY <1>14 DEF McsFails, TypeOK, TransportInv, PlainTransport, SecureTransport, NegotiationInv, CredSSP
  <2>3. NegotiationInv'
    BY <1>14 DEF McsFails, TypeOK, NegotiationInv, Protocols, CredSSP
  <2>4. JoinInv' /\ OneSocket' /\ FailureReleases'
    BY <1>14 DEF McsFails, TypeOK, TransportInv, PlainTransport, JoinInv, OneSocket, FailureReleases, ToJoin
  <2> QED BY <2>1, <2>2, <2>3, <2>4
<1>15. CASE McsConnectResponse
  <2>1. TypeOK'
    BY <1>15 DEF McsConnectResponse, TypeOK, PCs, ToJoin, Protocols
  <2>2. TransportInv'
    BY <1>15 DEF McsConnectResponse, TypeOK, TransportInv, PlainTransport, SecureTransport, NegotiationInv, CredSSP
  <2>3. NegotiationInv'
    BY <1>15 DEF McsConnectResponse, TypeOK, NegotiationInv, Protocols, CredSSP
  <2>4. JoinInv' /\ OneSocket' /\ FailureReleases'
    BY <1>15 DEF McsConnectResponse, TypeOK, TransportInv, PlainTransport, JoinInv, OneSocket, FailureReleases, ToJoin
  <2> QED BY <2>1, <2>2, <2>3, <2>4
<1>16. CASE McsAttachConfirm
  <2>1. TypeOK'
    BY <1>16 DEF McsAttachConfirm, TypeOK, PCs, ToJoin, Protocols
  <2>2. TransportInv'
    BY <1>16 DEF McsAttachConfirm, TypeOK, TransportInv, PlainTransport, SecureTransport, NegotiationInv, CredSSP
  <2>3. NegotiationInv'
    BY <1>16 DEF McsAttachConfirm, TypeOK, NegotiationInv, Protocols, CredSSP
  <2>4. JoinInv' /\ OneSocket' /\ FailureReleases'
    BY <1>16 DEF McsAttachConfirm, TypeOK, TransportInv, PlainTransport, JoinInv, OneSocket, FailureReleases, ToJoin
  <2> QED BY <2>1, <2>2, <2>3, <2>4
<1>17. CASE McsJoinConfirm
  <2>1. TypeOK'
    BY <1>17 DEF McsJoinConfirm, TypeOK, PCs, ToJoin, Protocols
  <2>2. TransportInv'
    BY <1>17 DEF McsJoinConfirm, TypeOK, TransportInv, PlainTransport, SecureTransport, NegotiationInv, CredSSP
  <2>3. NegotiationInv'
    BY <1>17 DEF McsJoinConfirm, TypeOK, NegotiationInv, Protocols, CredSSP
  <2>4. JoinInv' /\ OneSocket' /\ FailureReleases'
    BY <1>17 DEF McsJoinConfirm, TypeOK, TransportInv, PlainTransport, JoinInv, OneSocket, FailureReleases, ToJoin
  <2> QED BY <2>1, <2>2, <2>3, <2>4
<1>18. CASE EstablishKey
  <2>1. TypeOK'
    <3>1. g_network_error' \in BOOLEAN
      BY <1>18, Zenon DEF EstablishKey, TypeOK
    <3> QED BY <1>18, <3>1 DEF EstablishKey, TypeOK, PCs, ToJoin, Protocols
  <2>2. TransportInv'
    BY <1>18 DEF EstablishKey, TypeOK, TransportInv, PlainTransport, SecureTransport, NegotiationInv, CredSSP
  <2>3. NegotiationInv'
    BY <1>18 DEF EstablishKey, TypeOK, NegotiationInv, Protocols, CredSSP
  <2>4. JoinInv' /\ OneSocket' /\ FailureReleases'
    BY <1>18 DEF EstablishKey, TypeOK, TransportInv, PlainTransport, JoinInv, OneSocket, FailureReleases, ToJoin
  <2> QED BY <2>1, <2>2, <2>3, <2>4
<1>19. CASE UNCHANGED vars
  BY <1>19 DEF vars, TypeOK, TransportInv, PlainTransport, SecureTransport, NegotiationInv, JoinInv, OneSocket, FailureReleases
<1>20. CASE GoesQuiet
  BY <1>20 DEF GoesQuiet, TypeOK, TransportInv, PlainTransport, SecureTransport, NegotiationInv, JoinInv, OneSocket, FailureReleases
<1> QED
  BY <1>1, <1>2, <1>3, <1>4, <1>5, <1>6, <1>7, <1>8, <1>9, <1>10, <1>11,
     <1>12, <1>13, <1>14, <1>15, <1>16, <1>17, <1>18, <1>19, <1>20
  DEF Next, ClientStep, Receive

(* It holds in every state of an attempt. *)
LEMMA InductiveInvariant == Spec => []IInv
<1>1. Init => IInv
  BY InitIInv
<1>2. IInv /\ [Next]_vars => IInv'
  BY StepIInv
<1> QED BY <1>1, <1>2, PTL DEF Spec

(* sec_connect, from tcp_connect to its return: the protocol it reports is   *)
(* the one its socket runs, no connection is dropped open, a failure gives   *)
(* everything up, and Restricted Admin or Remote Guard come with CredSSP.    *)
THEOREM ConnectIsConsistent == Spec => []ConnectInvariant
<1>1. IInv => ConnectInvariant
  <2> SUFFICES ASSUME IInv PROVE ConnectInvariant
    OBVIOUS
  <2>1. opts \in Options
    BY DEF IInv, TypeOK
  <2>2. ProtocolMatchesTransport
    BY <2>1, OptionsAreFlags
    DEF IInv, TypeOK, TransportInv, PlainTransport, SecureTransport,
        ProtocolMatchesTransport
  <2>3. ModeNeedsCredSSP /\ ChannelsJoined
    BY DEF IInv, NegotiationInv, JoinInv, AllJoined, ToJoin,
           ModeNeedsCredSSP, ChannelsJoined
  <2> QED BY <2>2, <2>3 DEF IInv, ConnectInvariant
<1> QED BY <1>1, InductiveInvariant, PTL

(* The goto retry of iso_connect: with a server that answers what it was     *)
(* asked, every further attempt asks for a smaller set of protocols, or      *)
(* stops asking.                                                             *)
THEOREM RetriesAskLess == Spec => FallbackAsksLess
<1> DEFINE AsksLess ==
        compliant /\ pc' = "Tcp" /\ pc # "Start" =>
            /\ neg_proto' \subseteq neg_proto
            /\ \/ neg_proto' # neg_proto
               \/ g_negotiate_rdp_protocol /\ ~g_negotiate_rdp_protocol'
<1>1. IInv /\ [Next]_vars => [AsksLess]_vars
  <2> SUFFICES ASSUME IInv, Next, compliant, pc' = "Tcp", pc # "Start"
               PROVE  AsksLess
    BY DEF AsksLess
  <2>1. ~NegResponses
    <3> SUFFICES ASSUME NEW modeFlag \in BOOLEAN,
                        NEW data \in Protocols \cup {"RDP", "other"},
                        NegResponse(modeFlag, data)
                 PROVE  pc' # "Tcp"
      BY DEF NegResponses
    <3> QED BY DEF NegResponse, Fail, Protocols, CredSSP
  <2>2. NegFailurePlain \/ TlsFails \/ CsspFails
    BY <2>1 DEF Next, ClientStep, Receive, GoesQuiet, InMcs,
           StartConnect, TcpConnect, TcpConnectFails, SendRequest,
           NoConfirm, BadConfirm, PlainConfirm, NegFailure,
           SecureTransportUp, McsFails, McsConnectResponse,
           McsAttachConfirm, McsJoinConfirm, EstablishKey, Fail
  <2>3. CASE NegFailurePlain
    BY <2>3 DEF NegFailurePlain, Asked
  <2>4. CASE TlsFails
    BY <2>4 DEF TlsFails, IInv, NegotiationInv
  <2>5. CASE CsspFails
    BY <2>5 DEF CsspFails, IInv, NegotiationInv, CredSSP
  <2> QED BY <2>2, <2>3, <2>4, <2>5
<1> QED BY <1>1, InductiveInvariant, PTL DEF FallbackAsksLess, Spec
=============================================================================
