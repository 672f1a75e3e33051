------------------------------ MODULE Connect ------------------------------
(***************************************************************************)
(* sec_connect: the protocol negotiation of iso_connect (iso.c) with its   *)
(* fallbacks, the TLS and CredSSP handshakes it calls (tcp.c, cssp.c), and *)
(* the MCS connect and channel join sequence of mcs_connect_finalize       *)
(* (mcs.c).  One behaviour is one call of sec_connect; the server and the  *)
(* network choose every answer.                                            *)
(***************************************************************************)
EXTENDS Naturals, FiniteSets

CONSTANT NumChannels    \* g_num_channels, the registered virtual channels

ASSUME ConnectConstants == NumChannels \in Nat

VARIABLES
    pc,
    compliant,      \* environment: the server only answers what was asked
    quiet,          \* environment: the peer is alive but answers no more
    opts,           \* command line: restricted admin, remote guard, NLA, -e, v5
    neg_proto,      \* protocols asked for; {} is PROTOCOL_RDP
    g_negotiate_rdp_protocol,
    selected,       \* *selected_protocol
    choice,         \* data of the negotiation response being acted on
    sock,           \* "none" or "open"
    orphans,        \* history: this call dropped an open socket
    tls,            \* g_ssl_initialized, and to which socket it belongs
    g_encryption,
    g_network_error,
    keys,           \* RC4 keys: "none", "old" (earlier connection), "fresh"
    joined          \* channels the server has confirmed, in order: a count

vars == <<pc, compliant, quiet, opts, neg_proto, g_negotiate_rdp_protocol, selected,
          choice, sock, orphans, tls, g_encryption, g_network_error, keys,
          joined>>

Protocols == {"SSL", "HYBRID", "HYBRID_EX"}
CredSSP == {"HYBRID", "HYBRID_EX"}
ToJoin == NumChannels + 2       \* user channel, global channel, g_channels

(* main() refuses both modes at once, or one with smart card authentication. *)
Options ==
    {o \in [restricted : BOOLEAN, guard : BOOLEAN, nla : BOOLEAN,
            encryption : BOOLEAN, v5 : BOOLEAN] :
        /\ ~(o.restricted /\ o.guard)
        /\ o.restricted \/ o.guard => o.nla}

PCs == {"Start", "Tcp", "Request", "Confirm", "Tls", "Cssp", "McsConnect",
        "McsAttach", "McsJoin", "Ok", "Fail"}

TypeOK ==
    /\ pc \in PCs
    /\ compliant \in BOOLEAN
    /\ quiet \in BOOLEAN
    /\ opts \in Options
    /\ neg_proto \in SUBSET Protocols
    /\ g_negotiate_rdp_protocol \in BOOLEAN
    /\ selected \in Protocols \cup {"RDP"}
    /\ choice \in Protocols \cup {"RDP"}
    /\ sock \in {"none", "open"}
    /\ orphans \in BOOLEAN
    /\ tls \in {"none", "current", "stale"}
    /\ g_encryption \in BOOLEAN
    /\ g_network_error \in BOOLEAN
    /\ keys \in {"none", "old", "fresh"}
    /\ joined \in 0 .. ToJoin

(* A call starts with the flags reset_state left; a TLS session and keys of  *)
(* an earlier connection may still be there (see Session).                   *)
Init ==
    /\ pc = "Start"
    /\ compliant \in BOOLEAN /\ quiet = FALSE
    /\ opts \in Options
    /\ neg_proto = {} /\ g_negotiate_rdp_protocol = TRUE
    /\ selected = "RDP" /\ choice = "RDP"
    /\ sock = "none" /\ orphans = FALSE
    /\ tls \in {"none", "stale"}
    /\ g_encryption = opts.encryption
    /\ g_network_error = FALSE
    /\ keys \in {"none", "old"}
    /\ joined = 0

-----------------------------------------------------------------------------

negVars == <<neg_proto, g_negotiate_rdp_protocol>>
cryptVars == <<g_encryption, keys>>

(* tcp_disconnect: TLS session, socket and input buffer are given up. *)
TcpDisconnect ==
    /\ sock' = "none"
    /\ tls' = "none"
    /\ UNCHANGED orphans

Fail ==
    /\ pc' = "Fail"
    /\ UNCHANGED <<compliant, quiet, opts, negVars, selected, choice, cryptVars,
                   joined>>

(* iso_connect's preamble. *)
NegProto(o) ==
    {"SSL"} \cup (IF o.guard THEN CredSSP
                  ELSE IF o.restricted \/ o.nla THEN {"HYBRID"} ELSE {})

StartConnect ==
    /\ pc = "Start"
    /\ neg_proto' = NegProto(opts)
    /\ g_negotiate_rdp_protocol' = TRUE
    /\ pc' = "Tcp"
    /\ UNCHANGED <<compliant, quiet, opts, selected, choice, sock, orphans, tls,
                   cryptVars, g_network_error, joined>>

TcpConnect ==
    /\ pc = "Tcp"
    /\ selected' = "RDP"
    /\ sock' = "open"
    /\ orphans' = (orphans \/ sock = "open")
    /\ quiet' = FALSE
    /\ pc' = "Request"
    /\ UNCHANGED <<compliant, opts, negVars, choice, tls, cryptVars,
                   g_network_error, joined>>

TcpConnectFails ==
    /\ pc = "Tcp"
    /\ sock' = "none"
    /\ UNCHANGED <<tls, orphans, g_network_error>>
    /\ Fail

(* tcp_send writes to the TLS session if there is one; a stale one is dead. *)
SendRequest ==
    /\ pc = "Request"
    /\ g_network_error' \in IF tls = "stale" THEN {TRUE}
                            ELSE {g_network_error, TRUE}
    /\ pc' = "Confirm"
    /\ UNCHANGED <<compliant, quiet, opts, negVars, selected, choice, sock, orphans,
                   tls, cryptVars, joined>>

-----------------------------------------------------------------------------
(* The connection confirm *)

(* A request for negotiation was part of the connection request. *)
Asked == opts.v5 /\ g_negotiate_rdp_protocol

Answered == pc = "Confirm" /\ ~g_network_error /\ ~quiet

(* iso_recv_msg returned NULL: iso_connect leaves the socket open. *)
NoConfirm ==
    /\ pc = "Confirm"
    /\ g_network_error' \in {g_network_error, TRUE}
    /\ UNCHANGED <<sock, tls, orphans>>
    /\ Fail

(* A fast-path header, another ISO code, or a type that is no response. *)
BadConfirm ==
    /\ Answered
    /\ ~compliant
    /\ UNCHANGED g_network_error
    /\ TcpDisconnect
    /\ Fail

(* A confirm without negotiation data, or one an RDP 4 client does not read. *)
PlainConfirm ==
    /\ Answered
    /\ pc' = "McsConnect"
    /\ UNCHANGED <<compliant, quiet, opts, negVars, selected, choice, sock, orphans,
                   tls, cryptVars, g_network_error, joined>>

(* Mutant: the plain RDP retry sends the same request again. *)
NegFailurePlain_SameRequest ==
    /\ Answered /\ opts.v5
    /\ compliant => Asked
    /\ pc' = "Tcp"
    /\ UNCHANGED g_network_error
    /\ TcpDisconnect
    /\ UNCHANGED <<compliant, quiet, opts, negVars, selected, choice, cryptVars,
                   joined>>

(* Mutant: the request is sent again over the connection it was refused on. *)
NegFailurePlain_NoReconnect ==
    /\ Answered /\ opts.v5
    /\ compliant => Asked
    /\ pc' = "Request"
    /\ UNCHANGED <<compliant, quiet, opts, negVars, selected, choice, sock, orphans,
                   tls, cryptVars, g_network_error, joined>>

(* SSL_NOT_ALLOWED_BY_SERVER or SSL_CERT_NOT_ON_SERVER: again, without       *)
(* asking for a protocol.                                                    *)
NegFailurePlain ==
    /\ Answered /\ opts.v5
    /\ compliant => Asked
    /\ g_negotiate_rdp_protocol' = FALSE
    /\ pc' = "Tcp"
    /\ UNCHANGED g_network_error
    /\ TcpDisconnect
    /\ UNCHANGED <<compliant, quiet, opts, neg_proto, selected, choice, cryptVars,
                   joined>>

NegFailure ==
    /\ Answered /\ opts.v5
    /\ compliant => Asked
    /\ UNCHANGED g_network_error
    /\ TcpDisconnect
    /\ Fail

(* Restricted Admin and Remote Guard need the server's flag and CredSSP. *)
ModeRefused(modeFlag, data) ==
    (opts.restricted \/ opts.guard) /\ (~modeFlag \/ data \notin CredSSP)

NegResponse(modeFlag, data) ==
    /\ Answered /\ opts.v5
    /\ compliant => Asked /\ data \in neg_proto \cup {"RDP"}
    /\ \/ /\ ModeRefused(modeFlag, data) \/ data = "other"
          /\ UNCHANGED g_network_error
          /\ TcpDisconnect
          /\ Fail
       \/ /\ ~ModeRefused(modeFlag, data) /\ data # "other"
          /\ choice' = data
          /\ pc' = CASE data = "SSL" -> "Tls"
                     [] data \in CredSSP -> "Cssp"
                     [] data = "RDP" -> "McsConnect"
          /\ UNCHANGED <<compliant, quiet, opts, negVars, selected, sock, orphans,
                         tls, cryptVars, g_network_error, joined>>

NegResponses ==
    \E modeFlag \in BOOLEAN, data \in Protocols \cup {"RDP", "other"} :
        NegResponse(modeFlag, data)

-----------------------------------------------------------------------------
(* TLS and CredSSP *)

(* Mutant: standard RDP encryption stays on inside TLS. *)
SecureTransportUp_KeepsEncryption ==
    /\ pc \in {"Tls", "Cssp"} /\ ~quiet
    /\ tls' = "current"
    /\ selected' = choice
    /\ pc' = "McsConnect"
    /\ UNCHANGED <<compliant, quiet, opts, negVars, choice, sock, orphans,
                   g_encryption, keys, g_network_error, joined>>

(* tcp_tls_connect or cssp_connect succeeded. *)
SecureTransportUp ==
    /\ pc \in {"Tls", "Cssp"} /\ ~quiet
    /\ tls' = "current"
    /\ g_encryption' = FALSE
    /\ selected' = choice
    /\ pc' = "McsConnect"
    /\ UNCHANGED <<compliant, quiet, opts, negVars, choice, sock, orphans, keys,
                   g_network_error, joined>>

(* tcp_tls_connect failed: again, asking for plain RDP. *)
TlsFails ==
    /\ pc = "Tls"
    /\ TcpDisconnect
    /\ neg_proto' = {}
    /\ pc' = "Tcp"
    /\ UNCHANGED <<compliant, quiet, opts, g_negotiate_rdp_protocol, selected,
                   choice, cryptVars, g_network_error, joined>>

(* cssp_connect failed, before or after its TLS handshake, or because the    *)
(* connection died: again, asking for TLS only.                              *)
CsspFails ==
    /\ pc = "Cssp"
    /\ TcpDisconnect
    /\ g_network_error' \in {g_network_error, TRUE}
    /\ neg_proto' = {"SSL"}
    /\ pc' = "Tcp"
    /\ UNCHANGED <<compliant, quiet, opts, g_negotiate_rdp_protocol, selected,
                   choice, cryptVars, joined>>

-----------------------------------------------------------------------------
(* mcs_connect_finalize *)

AllJoined == joined = ToJoin

InMcs ==
    \/ pc \in {"McsConnect", "McsAttach"}
    \/ pc = "McsJoin" /\ ~AllJoined

(* Any receive error or refusal: the error label, iso_disconnect. *)
McsFails ==
    /\ InMcs
    /\ g_network_error' \in {g_network_error, TRUE}
    /\ TcpDisconnect
    /\ Fail

(* The Connect Response; server is its crypto info.  Keys are only made when *)
(* sec_parse_crypt_info returns True, which it does not for level 0.         *)
McsConnectResponse ==
    /\ pc = "McsConnect" /\ ~g_network_error /\ ~quiet
    /\ \E level \in {"none", "some"} :
           keys' = IF level = "some" THEN "fresh" ELSE keys
    /\ pc' = "McsAttach"
    /\ UNCHANGED <<compliant, quiet, opts, negVars, selected, choice, sock, orphans,
                   tls, g_encryption, g_network_error, joined>>

McsAttachConfirm ==
    /\ pc = "McsAttach" /\ ~g_network_error /\ ~quiet
    /\ pc' = "McsJoin"
    /\ UNCHANGED <<compliant, quiet, opts, negVars, selected, choice, sock, orphans,
                   tls, cryptVars, g_network_error, joined>>

McsJoinConfirm ==
    /\ pc = "McsJoin" /\ ~AllJoined /\ ~g_network_error /\ ~quiet
    /\ joined' = joined + 1
    /\ UNCHANGED <<pc, compliant, quiet, opts, negVars, selected, choice, sock,
                   orphans, tls, cryptVars, g_network_error>>

(* sec_establish_key sends the client random when encryption is on. *)
EstablishKey ==
    /\ pc = "McsJoin" /\ AllJoined
    /\ g_network_error' \in IF g_encryption THEN {g_network_error, TRUE}
                            ELSE {g_network_error}
    /\ pc' = "Ok"
    /\ UNCHANGED <<compliant, quiet, opts, negVars, selected, choice, sock, orphans,
                   tls, cryptVars, joined>>

-----------------------------------------------------------------------------

(* The server stops answering on a connection that stays up, or closes TLS   *)
(* with close_notify, which tcp_recv takes for "nothing yet": it polls until *)
(* the connection dies.                                                      *)
GoesQuiet ==
    /\ pc \in {"Confirm", "Cssp"} \/ InMcs
    /\ ~g_network_error /\ ~quiet
    /\ quiet' = TRUE
    /\ UNCHANGED <<pc, compliant, opts, negVars, selected, choice, sock,
                   orphans, tls, cryptVars, g_network_error, joined>>

(* Steps that wait for nobody but the kernel's connect(). *)
ClientStep ==
    \/ StartConnect \/ TcpConnect \/ TcpConnectFails \/ SendRequest
    \/ EstablishKey

(* An answer is read, or the read fails. *)
Receive ==
    \/ NoConfirm \/ BadConfirm \/ PlainConfirm \/ NegFailurePlain
    \/ NegFailure \/ NegResponses
    \/ SecureTransportUp \/ TlsFails \/ CsspFails
    \/ McsFails \/ McsConnectResponse \/ McsAttachConfirm
    \/ McsJoinConfirm

Next == ClientStep \/ Receive \/ GoesQuiet

Spec == Init /\ [][Next]_vars

(* A read returns while the server is not quiet: it answers, or the kernel    *)
(* reports a dead peer (tcp_enable_keepalive), or GnuTLS ends a handshake.    *)
(* After a failed write it returns at once.  Nothing ends the wait for a      *)
(* quiet one.                                                                 *)
ReadReturns == Receive /\ (quiet => g_network_error)

FairSpec == Spec /\ WF_vars(ClientStep) /\ WF_vars(ReadReturns)

-----------------------------------------------------------------------------
(* Properties *)

(* What sec_connect reports and what the layers below it are in agree: with   *)
(* TLS or CredSSP selected the TLS session of this socket is up and standard  *)
(* RDP encryption is off; with plain RDP there is no TLS and encryption is as *)
(* the command line wants it, whatever fallbacks happened on the way.         *)
ProtocolMatchesTransport ==
    pc = "Ok" =>
        /\ sock = "open"
        /\ (selected # "RDP") = (tls = "current")
        /\ tls # "stale"
        /\ g_encryption = (opts.encryption /\ selected = "RDP")

(* A fallback closes the connection it gives up before opening the next.      *)
OneSocket == ~orphans

(* A failed call leaves a socket behind only in one way: no confirm arrived   *)
(* (iso.c:297); and it never leaves a TLS session of its own.                 *)
FailureReleases ==
    pc = "Fail" =>
        /\ tls # "current"
        /\ sock = "open" => selected = "RDP" /\ joined = 0

(* When a server answered the negotiation, a requested Restricted Admin or    *)
(* Remote Guard mode is only ever combined with CredSSP.                      *)
ModeNeedsCredSSP ==
    (pc \in {"Tls", "McsConnect"} /\ choice = "SSL") =>
        ~opts.restricted /\ ~opts.guard

(* A successful call has joined the user, the global and every registered     *)
(* virtual channel.                                                           *)
ChannelsJoined == pc = "Ok" => joined = NumChannels + 2

(* What holds at every call of the sequence from tcp_connect to sec_connect.  *)
ConnectInvariant ==
    /\ TypeOK
    /\ ProtocolMatchesTransport /\ OneSocket /\ FailureReleases
    /\ ModeNeedsCredSSP /\ ChannelsJoined

(* Each fallback asks for strictly less than the attempt before it, so the    *)
(* goto retry loop of iso_connect cannot repeat itself with a server that     *)
(* answers what it was asked.                                                 *)
FallbackAsksLess ==
    [][compliant /\ pc' = "Tcp" /\ pc # "Start" =>
          /\ neg_proto' \subseteq neg_proto
          /\ \/ neg_proto' # neg_proto
             \/ g_negotiate_rdp_protocol /\ ~g_negotiate_rdp_protocol']_vars

(* With such a server iso_connect and mcs_connect_finalize come to an end,    *)
(* unless in the end they wait for one that is quiet: no fallback and no join *)
(* goes round for ever.                                                       *)
ConnectEnds == compliant /\ <>[]~quiet => <>(pc \in {"Ok", "Fail"})
=============================================================================
