------------------------------ MODULE SecRecv ------------------------------
(***************************************************************************)
(* The security layer, receiving side: sec_recv (secure.c) with the RC4    *)
(* stream, and the licence exchange (licence.c), whose result decides      *)
(* whether later PDUs carry a security header.  The licence is kept in a   *)
(* file (rdesktop.c) that outlives the process.                            *)
(***************************************************************************)
EXTENDS Naturals, Sequences

CONSTANTS
    SecRekey,           \* packets per RC4 key (4096)
    MaxSecSessions,     \* connections (bound)
    MaxSecFrames        \* PDUs the server sends after licensing (bound)

ASSUME SecRecvConstants ==
    /\ SecRekey \in Nat \ {0}
    /\ MaxSecSessions \in Nat \ {0} /\ MaxSecFrames \in Nat

VARIABLES
    g_encryption, g_licence_issued, g_licence_error_result,
    decrypt,        \* key and use count of the decrypting side
    licKey,         \* g_licence_key: the server random it was made from
    licFile,        \* {sha1}.cal
    licTmp,         \* {sha1}.cal.new
    licPc,          \* where save_licence is
    srv,            \* environment: the server
    toClient, toServer,
    secSession,     \* environment: number of the connection
    taken           \* history: the last PDU and what sec_recv did with it

secVars == <<g_encryption, g_licence_issued, g_licence_error_result, decrypt,
             licKey, licFile, licTmp, licPc, srv, toClient, toServer,
             secSession, taken>>
licenceVars == <<licKey, licFile, licTmp, licPc>>
flagVars == <<g_encryption, g_licence_issued, g_licence_error_result>>

NoLicence == 0                  \* a licence is named by its connection
Torn == MaxSecSessions + 1      \* part of a licence, or not decrypted
Phases == {"start", "waiting", "licensed"}
Tags == {"request", "challenge", "new", "valid", "error"}
Kinds == Tags \cup {"heartbeat", "data", "channel", "redirect", "fast"}

SecRecvTypeOK ==
    /\ {g_encryption, g_licence_issued, g_licence_error_result} \subseteq BOOLEAN
    /\ decrypt.use \in 0 .. SecRekey
    /\ licKey \in 0 .. MaxSecSessions
    /\ {licFile, licTmp} \subseteq NoLicence .. Torn
    /\ licPc \in {"idle", "opened", "written", "dead"}
    /\ srv.phase \in Phases /\ srv.frames \in 0 .. MaxSecFrames
    /\ \A i \in DOMAIN toClient : toClient[i].kind \in Kinds
    /\ secSession \in 0 .. MaxSecSessions

-----------------------------------------------------------------------------
(* Connections *)

(* Mutant: the licence state of the last connection is kept. *)
SecResetState_KeepsLicence ==
    UNCHANGED <<g_licence_issued, g_licence_error_result>>

SecResetState ==
    /\ g_licence_issued' = FALSE
    /\ g_licence_error_result' = FALSE

FreshKey == [gen |-> 0, use |-> 0]

(* sec_connect: MCS connect decides on RC4 and sets the first keys. *)
SecConnect ==
    /\ secSession < MaxSecSessions /\ licPc \in {"idle", "dead"}
    /\ secSession' = secSession + 1 /\ licPc' = "idle"
    /\ SecResetState
    /\ g_encryption' \in BOOLEAN
    /\ decrypt' = FreshKey
    /\ srv' = [phase |-> "start", frames |-> 0, key |-> FreshKey]
    /\ toClient' = << >> /\ toServer' = << >>
    /\ UNCHANGED <<licKey, licFile, licTmp, taken>>

SecRecvInit ==
    /\ g_encryption = FALSE
    /\ g_licence_issued = FALSE /\ g_licence_error_result = FALSE
    /\ decrypt = FreshKey
    /\ licKey = 0 /\ licFile = NoLicence /\ licTmp = NoLicence /\ licPc = "idle"
    /\ srv = [phase |-> "licensed", frames |-> MaxSecFrames, key |-> FreshKey]
    /\ toClient = << >> /\ toServer = << >> /\ secSession = 0
    /\ taken = [kind |-> "none", misread |-> FALSE, instep |-> TRUE, tls |-> FALSE]

-----------------------------------------------------------------------------
(* The server, external.  Licensing and heartbeat PDUs always have a         *)
(* security header, other PDUs only under RDP security.                      *)

Used(key) == IF key.use = SecRekey THEN [gen |-> key.gen + 1, use |-> 1]
             ELSE [key EXCEPT !.use = @ + 1]

Frame(kind, encrypted) ==
    [kind |-> kind, encrypted |-> encrypted, key |-> srv.key,
     header |-> g_encryption \/ kind \in Tags \cup {"heartbeat"}]

SrvSends(kind, encrypted, phase, frames) ==
    /\ toClient' = Append(toClient, Frame(kind, encrypted))
    /\ srv' = [phase |-> phase, frames |-> frames,
               key |-> IF encrypted THEN Used(srv.key) ELSE srv.key]

Replies(msg) ==
    CASE msg = "start" -> {"request", "valid", "error"}
      [] msg = "info" -> {"challenge", "new", "valid", "error"}
      [] msg = "newrequest" -> {"challenge", "error"}
      [] msg = "response" -> {"new", "error"}

SrvLicence ==
    /\ toClient = << >>
    /\ \/ srv.phase = "start" /\ UNCHANGED toServer
       \/ srv.phase = "waiting" /\ toServer # << >> /\ toServer' = Tail(toServer)
    /\ \E tag \in Replies(IF srv.phase = "start" THEN "start"
                          ELSE Head(toServer).tag),
          encrypted \in {FALSE, g_encryption} :
           SrvSends(tag, encrypted,
                    IF tag \in {"request", "challenge"} THEN "waiting"
                    ELSE "licensed", 0)
    /\ UNCHANGED <<flagVars, decrypt, licenceVars, secSession, taken>>

SrvData(kind) ==
    /\ srv.phase = "licensed" /\ srv.frames < MaxSecFrames
    /\ kind = "redirect" => g_encryption
    /\ SrvSends(kind, g_encryption, srv.phase, srv.frames + 1)
    /\ UNCHANGED <<flagVars, decrypt, licenceVars, toServer, secSession, taken>>

-----------------------------------------------------------------------------
(* sec_recv *)

ExpectsHeader ==
    g_encryption \/ (~g_licence_issued /\ ~g_licence_error_result)

(* SEC_ENCRYPT, the fast-path flag, or SEC_REDIRECTION_PKT, whose packets    *)
(* do not set SEC_ENCRYPT and are decrypted in a place of their own.         *)
Decrypts(f) == f.encrypted

(* sec_decrypt *)
Decrypted(f) == decrypt' = IF Decrypts(f) THEN Used(decrypt) ELSE decrypt

(* One PDU is taken off the connection; taken records how it was read. *)
Receive(kinds) ==
    /\ toClient # << >> /\ licPc = "idle"
    /\ LET f == Head(toClient) IN
       /\ f.kind \in kinds /\ (f.kind = "fast" \/ f.header = ExpectsHeader)
       /\ Decrypted(f)
       /\ taken' = [kind |-> f.kind, misread |-> FALSE, tls |-> ~g_encryption,
                    instep |-> f.encrypted =>
                                 Decrypts(f) /\ Used(f.key) = Used(decrypt)]
    /\ toClient' = Tail(toClient)

(* The header is read where there is none, or not read where there is one:   *)
(* the PDU goes to another handler, or its bytes to the wrong fields.        *)
RecvMisread ==
    /\ toClient # << >> /\ licPc = "idle"
    /\ LET f == Head(toClient) IN
       /\ f.kind # "fast" /\ f.header # ExpectsHeader
       /\ taken' = [kind |-> f.kind, misread |-> TRUE, tls |-> ~g_encryption,
                    instep |-> TRUE]
    /\ toClient' = Tail(toClient)
    /\ UNCHANGED <<flagVars, decrypt, licenceVars, srv, toServer, secSession>>

(* Fast-path updates, heartbeats, channel data, and the share PDUs that are  *)
(* handed to rdp_recv. *)
RecvOther ==
    /\ Receive(Kinds \ Tags)
    /\ UNCHANGED <<flagVars, licenceVars, srv, toServer, secSession>>

(* Licence replies leave through sec_init and sec_send, which write a header *)
(* while licensing has no result. *)
SendLicence(tag) ==
    toServer' = Append(toServer, [tag |-> tag,
                                  header |-> ~g_licence_issued
                                             /\ ~g_licence_error_result])

(* licence_generate_keys: from the server random of this exchange. *)
LicenceKeys == licKey' = secSession

(* load_licence: an empty file counts as no licence. *)
HaveLicence == licFile # NoLicence

LicenceInfo == SendLicence("info")
NewLicenceRequest == SendLicence("newrequest")

LicenceRequest ==
    /\ Receive({"request"})
    /\ LicenceKeys
    /\ IF HaveLicence THEN LicenceInfo ELSE NewLicenceRequest
    /\ UNCHANGED <<flagVars, licFile, licTmp, licPc, srv, secSession>>

LicenceChallenge ==
    /\ Receive({"challenge"})
    /\ SendLicence("response")
    /\ UNCHANGED <<flagVars, licenceVars, srv, secSession>>

(* New and upgraded licences.  save_licence opens the temporary file, or     *)
(* gives up (no home directory, no space) and leaves everything as it was.   *)
LicenceNew ==
    /\ Receive({"new"})
    /\ g_licence_issued' = TRUE
    /\ \/ licPc' = "opened" /\ licTmp' = Torn
       \/ UNCHANGED <<licPc, licTmp>>
    /\ UNCHANGED <<g_encryption, g_licence_error_result, licKey, licFile, srv,
                   toServer, secSession>>

LicenceErrorAlert ==
    /\ Receive({"valid", "error"})
    /\ IF taken'.kind = "valid"
       THEN g_licence_issued' = TRUE /\ UNCHANGED g_licence_error_result
       ELSE g_licence_error_result' = TRUE /\ UNCHANGED g_licence_issued
    /\ UNCHANGED <<g_encryption, licenceVars, srv, toServer, secSession>>

-----------------------------------------------------------------------------
(* save_licence *)

(* What the server sealed can be read with the keys of the same exchange. *)
Opened == IF licKey = secSession THEN licKey ELSE Torn

SaveWrite ==
    /\ licPc = "opened"
    /\ \/ licTmp' = Opened /\ licPc' = "written"
       \/ licTmp' = NoLicence /\ licPc' = "idle"        \* short write, unlink
    /\ UNCHANGED <<flagVars, decrypt, licKey, licFile, srv, toClient, toServer,
                   secSession, taken>>

SaveRename ==
    /\ licPc = "written" /\ licPc' = "idle" /\ licTmp' = NoLicence
    /\ licFile' \in {licTmp, licFile}                    \* rename may fail
    /\ UNCHANGED <<flagVars, decrypt, licKey, srv, toClient, toServer,
                   secSession, taken>>

(* The process dies inside save_licence and is started again. *)
SecCrash ==
    /\ licPc \in {"opened", "written"} /\ licPc' = "dead"
    /\ licKey' = 0 /\ g_licence_issued' = FALSE
    /\ g_licence_error_result' = FALSE
    /\ srv' = [srv EXCEPT !.phase = "licensed", !.frames = MaxSecFrames]
    /\ toClient' = << >> /\ toServer' = << >>
    /\ UNCHANGED <<g_encryption, decrypt, licFile, licTmp, secSession, taken>>

SecRecvStep ==
    \/ RecvMisread \/ RecvOther
    \/ LicenceRequest \/ LicenceChallenge \/ LicenceNew \/ LicenceErrorAlert
    \/ SaveWrite \/ SaveRename

SecRecvNext ==
    \/ SecConnect \/ SrvLicence \/ SecCrash \/ SecRecvStep
    \/ \E kind \in Kinds \ Tags : SrvData(kind)

SecRecvSpec == SecRecvInit /\ [][SecRecvNext]_secVars
SecRecvFairSpec ==
    SecRecvSpec /\ WF_secVars(SecRecvStep) /\ WF_secVars(SrvLicence)

-----------------------------------------------------------------------------
(* Properties *)

(* Client and server agree for every PDU of every connection whether it has   *)
(* a security header: the licence flags change at the same place of the       *)
(* stream on both sides and are reset between connections.  Heartbeats over   *)
(* TLS are left out, see README.                                              *)
FramingAgrees ==
    /\ taken.misread => taken.kind = "heartbeat" /\ taken.tls
    /\ \A i \in DOMAIN toServer : toServer[i].header

(* sec_decrypt is applied once to each encrypted PDU, with the key the server *)
(* used for it, across re-keying, fast-path and redirection packets.          *)
DecryptInStep == taken.instep

(* Whenever the process dies, the licence on disk is absent or one that the   *)
(* server issued, decrypted with the keys of its own exchange.                *)
LicenceOnDiskIsWhole == licFile # Torn

(* In a connection that lasts, the licence exchange comes to a result.        *)
LicensingEnds ==
    \A n \in 1 .. MaxSecSessions :
        secSession = n ~> \/ g_licence_issued \/ g_licence_error_result
                          \/ licPc = "dead" \/ secSession > n
=============================================================================
