------------------------------ MODULE SendPath ------------------------------
(***************************************************************************)
(* Several threads of rdesktop send over one connection: the main thread   *)
(* and the smart card threads, which complete I/O requests.  A virtual     *)
(* channel message is cut into chunks (channels.c), every chunk is signed  *)
(* and encrypted with the RC4 stream (secure.c) and written to the socket, *)
(* possibly in several parts (tcp.c).  The locks SCARD_LOCK_CHANNEL,       *)
(* SCARD_LOCK_SEC and SCARD_LOCK_TCP nest in this order.                   *)
(*                                                                         *)
(* The server is modelled as a decoder of what was written: it notes which *)
(* of its expectations a frame broke.                                      *)
(***************************************************************************)
EXTENDS Naturals

CONSTANTS
    Threads,        \* everybody who sends
    Main,           \* the main thread, one of Threads
    NoOne,          \* not a thread: a free lock, no partial frame
    REKEY,          \* uses of a key before sec_update (4096)
    MaxChunks,      \* longest channel message, in chunks
    MaxSends        \* messages and PDUs each thread sends (bound)

ASSUME SendPathConstants ==
    /\ Main \in Threads
    /\ NoOne \notin Threads
    /\ REKEY \in Nat \ {0}
    /\ MaxChunks \in Nat \ {0}
    /\ MaxSends \in Nat

VARIABLES
    pc,
    kind,           \* what a thread sends: a channel "message", a "pdu" on the
                    \* global channel, or the "dpu" that ends MCS
    left,           \* chunks of the message not sent yet
    first,          \* whether the next chunk is the first one
    frame,          \* the frame a thread has built
    sends,          \* messages and PDUs started by a thread
    chanLock, secLock, tcpLock,
    key,            \* the encryption key: generation and use count
    g_network_error,
    dead,           \* environment: the connection no longer takes data
    srvPartial,     \* server: whose frame has arrived in part
    srvMessage,     \* server: whose channel message is being put together
    srvKey,         \* server: its decryption key
    broken          \* server: the expectations that were broken

lockVars == <<chanLock, secLock, tcpLock>>
srvVars == <<srvPartial, srvMessage, srvKey, broken>>
sendVars == <<kind, left, first, frame, sends>>
vars == <<pc, sendVars, lockVars, key, g_network_error, dead, srvVars>>

PCs == {"Idle", "WantChan", "WantSec", "Enter", "WantTcp", "Writing",
        "Failed", "Sent", "Done"}
Kinds == {"message", "pdu", "dpu"}
Keys == [gen : Nat, use : Nat]
Frames == [key : Keys, first : BOOLEAN, last : BOOLEAN]
Owners == Threads \cup {NoOne}

TypeOK ==
    /\ pc \in [Threads -> PCs]
    /\ kind \in [Threads -> Kinds]
    /\ left \in [Threads -> Nat]
    /\ first \in [Threads -> BOOLEAN]
    /\ frame \in [Threads -> Frames]
    /\ sends \in [Threads -> Nat]
    /\ chanLock \in Owners /\ secLock \in Owners /\ tcpLock \in Owners
    /\ key \in Keys /\ key.use <= REKEY
    /\ g_network_error \in BOOLEAN /\ dead \in BOOLEAN
    /\ srvPartial \in Owners /\ srvMessage \in Owners
    /\ srvKey \in Keys
    /\ broken \in SUBSET {"frame", "cipher", "message"}

FreshKey == [gen |-> 0, use |-> 0]

Init ==
    /\ pc = [t \in Threads |-> "Idle"]
    /\ kind = [t \in Threads |-> "pdu"]
    /\ left = [t \in Threads |-> 0]
    /\ first = [t \in Threads |-> FALSE]
    /\ frame = [t \in Threads |-> [key |-> FreshKey, first |-> FALSE,
                                   last |-> FALSE]]
    /\ sends = [t \in Threads |-> 0]
    /\ chanLock = NoOne /\ secLock = NoOne /\ tcpLock = NoOne
    /\ key = FreshKey
    /\ g_network_error = FALSE /\ dead = FALSE
    /\ srvPartial = NoOne /\ srvMessage = NoOne
    /\ srvKey = FreshKey
    /\ broken = {}

-----------------------------------------------------------------------------
(* Starting to send *)

Go(t, label) == pc' = [pc EXCEPT ![t] = label]

Begin(t, k, n) ==
    /\ pc[t] = "Idle" /\ sends[t] < MaxSends
    /\ kind' = [kind EXCEPT ![t] = k]
    /\ left' = [left EXCEPT ![t] = n]
    /\ first' = [first EXCEPT ![t] = TRUE]
    /\ sends' = [sends EXCEPT ![t] = @ + 1]
    /\ UNCHANGED <<frame, lockVars, key, g_network_error, dead, srvVars>>

(* channel_send with a message of n chunks. *)
BeginMessage(t) ==
    \E n \in 1 .. MaxChunks : Begin(t, "message", n) /\ Go(t, "WantChan")

(* sec_send: input, control and confirm PDUs, all from the main thread. *)
BeginPdu == Begin(Main, "pdu", 1) /\ Go(Main, "WantSec")

(* mcs_disconnect: neither encrypted nor under SCARD_LOCK_SEC. *)
BeginDpu == Begin(Main, "dpu", 1) /\ Go(Main, "Enter")

(* Mutant: channel_send without SCARD_LOCK_CHANNEL. *)
LockChannel_None(t) ==
    /\ pc[t] = "WantChan"
    /\ chanLock' = t
    /\ Go(t, "WantSec")
    /\ UNCHANGED <<sendVars, secLock, tcpLock, key, g_network_error, dead,
                   srvVars>>

LockChannel(t) ==
    /\ pc[t] = "WantChan" /\ chanLock = NoOne
    /\ chanLock' = t
    /\ Go(t, "WantSec")
    /\ UNCHANGED <<sendVars, secLock, tcpLock, key, g_network_error, dead,
                   srvVars>>

-----------------------------------------------------------------------------
(* channel_send_chunk and sec_send_to_channel *)

(* Mutants: the count starts at one after sec_update; the key is updated one *)
(* use too late.                                                             *)
Rekey_OffByOne(k) ==
    IF k.use = REKEY THEN [gen |-> k.gen + 1, use |-> 1] ELSE k
Rekey_Late(k) ==
    IF k.use > REKEY THEN [gen |-> k.gen + 1, use |-> 0] ELSE k

(* sec_encrypt: a key that was used REKEY times is updated first. *)
Rekey(k) == IF k.use = REKEY THEN [gen |-> k.gen + 1, use |-> 0] ELSE k

Used(k) == [k EXCEPT !.use = @ + 1]

(* The chunk with its flags, signed and encrypted under SCARD_LOCK_SEC. *)
Encrypt(t) ==
    /\ pc[t] = "WantSec" /\ secLock = NoOne
    /\ secLock' = t
    /\ frame' = [frame EXCEPT ![t] = [key |-> Rekey(key),
                                      first |-> first[t],
                                      last |-> left[t] = 1]]
    /\ key' = Used(Rekey(key))
    /\ Go(t, "Enter")
    /\ UNCHANGED <<kind, left, first, sends, chanLock, tcpLock,
                   g_network_error, dead, srvVars>>

-----------------------------------------------------------------------------
(* tcp_send *)

TcpSend(t) ==
    /\ pc[t] = "Enter"
    /\ Go(t, IF g_network_error THEN "Sent" ELSE "WantTcp")
    /\ UNCHANGED <<sendVars, lockVars, key, g_network_error, dead, srvVars>>

(* Mutant: tcp_send without SCARD_LOCK_TCP. *)
LockTcp_None(t) ==
    /\ pc[t] = "WantTcp"
    /\ tcpLock' = t
    /\ Go(t, "Writing")
    /\ UNCHANGED <<sendVars, chanLock, secLock, key, g_network_error, dead,
                   srvVars>>

LockTcp(t) ==
    /\ pc[t] = "WantTcp" /\ tcpLock = NoOne
    /\ tcpLock' = t
    /\ Go(t, "Writing")
    /\ UNCHANGED <<sendVars, chanLock, secLock, key, g_network_error, dead,
                   srvVars>>

(* What the server expects of a complete frame. *)
ServerRekey(k) == IF k.use = REKEY THEN [gen |-> k.gen + 1, use |-> 0] ELSE k

Encrypted(t) == kind[t] # "dpu"

FrameBroken(t) == srvPartial \notin {NoOne, t}
CipherBroken(t) == Encrypted(t) /\ frame[t].key # ServerRekey(srvKey)
MessageBroken(t) ==
    /\ kind[t] = "message"
    /\ srvMessage # (IF frame[t].first THEN NoOne ELSE t)

Broken(t) ==
    (IF FrameBroken(t) THEN {"frame"} ELSE {})
        \cup (IF CipherBroken(t) THEN {"cipher"} ELSE {})
        \cup (IF MessageBroken(t) THEN {"message"} ELSE {})

(* The kernel takes a part of the frame, and the loop goes on. *)
WriteSome(t) ==
    /\ pc[t] = "Writing" /\ ~dead /\ srvPartial # t
    /\ srvPartial' = t
    /\ broken' = broken \cup (IF FrameBroken(t) THEN {"frame"} ELSE {})
    /\ UNCHANGED <<pc, sendVars, lockVars, key, g_network_error, dead,
                   srvMessage, srvKey>>

(* The rest of the frame goes out; the server decodes it. *)
WriteRest(t) ==
    /\ pc[t] = "Writing" /\ ~dead
    /\ srvPartial' = NoOne
    /\ srvKey' = IF Encrypted(t) THEN Used(ServerRekey(srvKey)) ELSE srvKey
    /\ srvMessage' = IF kind[t] # "message" THEN srvMessage
                     ELSE IF frame[t].last THEN NoOne ELSE t
    /\ broken' = broken \cup Broken(t)
    /\ tcpLock' = NoOne
    /\ Go(t, "Sent")
    /\ UNCHANGED <<sendVars, chanLock, secLock, key, g_network_error, dead>>

(* Mutant: the error path returns with SCARD_LOCK_TCP held. *)
WriteFails_KeepsLock(t) ==
    /\ pc[t] = "Writing"
    /\ dead' = TRUE
    /\ Go(t, "Failed")
    /\ UNCHANGED <<sendVars, lockVars, key, g_network_error, srvVars>>

(* A fatal error: the lock is released before the error flag is raised. *)
WriteFails(t) ==
    /\ pc[t] = "Writing"
    /\ dead' = TRUE
    /\ tcpLock' = NoOne
    /\ Go(t, "Failed")
    /\ UNCHANGED <<sendVars, chanLock, secLock, key, g_network_error, srvVars>>

RaiseError(t) ==
    /\ pc[t] = "Failed"
    /\ g_network_error' = TRUE
    /\ Go(t, "Sent")
    /\ UNCHANGED <<sendVars, lockVars, key, dead, srvVars>>

-----------------------------------------------------------------------------

(* Back in sec_send_to_channel and channel_send. *)
FinishFrame(t) ==
    /\ pc[t] = "Sent" /\ kind[t] # "dpu"
    /\ secLock' = NoOne
    /\ left' = [left EXCEPT ![t] = @ - 1]
    /\ first' = [first EXCEPT ![t] = FALSE]
    /\ Go(t, IF left[t] > 1 THEN "WantSec"
             ELSE IF kind[t] = "message" THEN "Done" ELSE "Idle")
    /\ UNCHANGED <<kind, frame, sends, chanLock, tcpLock, key,
                   g_network_error, dead, srvVars>>

FinishDpu(t) ==
    /\ pc[t] = "Sent" /\ kind[t] = "dpu"
    /\ Go(t, "Idle")
    /\ UNCHANGED <<sendVars, lockVars, key, g_network_error, dead, srvVars>>

UnlockChannel(t) ==
    /\ pc[t] = "Done"
    /\ chanLock' = NoOne
    /\ Go(t, "Idle")
    /\ UNCHANGED <<sendVars, secLock, tcpLock, key, g_network_error, dead,
                   srvVars>>

Step(t) ==
    \/ LockChannel(t) \/ Encrypt(t) \/ TcpSend(t) \/ LockTcp(t)
    \/ WriteSome(t) \/ WriteRest(t) \/ WriteFails(t) \/ RaiseError(t)
    \/ FinishFrame(t) \/ FinishDpu(t) \/ UnlockChannel(t)

Next ==
    \/ BeginPdu
    \/ BeginDpu
    \/ \E t \in Threads : BeginMessage(t) \/ Step(t)

Spec == Init /\ [][Next]_vars

(* Threads that can run are scheduled, and a write ends: the kernel takes    *)
(* the data or reports the connection dead.  A free mutex goes to anyone.    *)
FairSpec == Spec /\ \A t \in Threads : WF_vars(Step(t))

-----------------------------------------------------------------------------
(* Properties *)

(* A frame that tcp_send needs several writes for is never mixed with the     *)
(* bytes of another thread's frame.                                           *)
FramesAreWhole == "frame" \notin broken

(* Frames reach the server in the order in which sec_encrypt advanced the RC4 *)
(* stream, key updates included: the server can decrypt every one of them.    *)
CipherInStep == "cipher" \notin broken

(* The chunks of a virtual channel message are not mixed with the chunks of   *)
(* another thread's message.                                                  *)
MessagesAreWhole == "message" \notin broken

(* No thread is left waiting for a lock: whatever a thread started to send it *)
(* finishes, also when the connection fails meanwhile.                        *)
SendersFinish == \A t \in Threads : pc[t] # "Idle" ~> pc[t] = "Idle"
=============================================================================
