--------------------------- MODULE SendPathProofs ---------------------------
(***************************************************************************)
(* For any number of threads, any key lifetime and any message lengths:    *)
(* the three locks keep frames, the cipher stream and channel messages     *)
(* whole.  The inductive invariant says who owns which lock at every       *)
(* point of the send path, and that between two frames the client's key    *)
(* and the server's are the same.                                          *)
(***************************************************************************)
EXTENDS SendPath, TLAPS

InTcp == {"Enter", "WantTcp", "Writing", "Failed", "Sent"}
Unsent == {"Enter", "WantTcp", "Writing"}

LockInv ==
    \A t \in Threads :
        /\ secLock = t <=> pc[t] \in InTcp /\ kind[t] # "dpu"
        /\ tcpLock = t <=> pc[t] = "Writing"
        /\ chanLock = t <=> /\ kind[t] = "message"
                            /\ pc[t] \in InTcp \cup {"WantSec", "Done"}
        /\ pc[t] \in {"WantChan", "Done"} => kind[t] = "message"
        /\ pc[t] = "WantChan" => first[t]
        /\ pc[t] = "WantSec" => kind[t] # "dpu"
        /\ pc[t] \notin {"Idle", "Done"} => left[t] >= 1

DeadInv ==
    /\ g_network_error => dead
    /\ \A t \in Threads : pc[t] = "Failed" => dead

PartialInv == ~dead => srvPartial = NoOne \/ srvPartial = tcpLock

CipherInv ==
    ~dead =>
        /\ secLock = NoOne => srvKey = key
        /\ \A t \in Threads :
               /\ secLock = t /\ pc[t] \in Unsent =>
                      /\ frame[t].key = ServerRekey(srvKey)
                      /\ key = Used(frame[t].key)
               /\ secLock = t /\ pc[t] = "Sent" => srvKey = key

OpenMessage(t, opened) == IF opened THEN t ELSE NoOne

MessageInv ==
    ~dead =>
        /\ chanLock = NoOne => srvMessage = NoOne
        /\ \A t \in Threads : chanLock = t =>
               /\ pc[t] = "WantSec" => srvMessage = OpenMessage(t, ~first[t])
               /\ pc[t] \in Unsent =>
                      /\ srvMessage = OpenMessage(t, ~frame[t].first)
                      /\ frame[t].last <=> left[t] = 1
               /\ pc[t] = "Sent" => srvMessage = OpenMessage(t, left[t] # 1)
               /\ pc[t] = "Done" => srvMessage = NoOne

Sound == broken = {}

IInv ==
    TypeOK /\ LockInv /\ DeadInv /\ PartialInv /\ CipherInv /\ MessageInv
        /\ Sound
-----------------------------------------------------------------------------
(* Proofs *)

(* channel_send is called: the invariant is kept. *)
LEMMA KeepBeginMessage ==
    ASSUME IInv, NEW t \in Threads, BeginMessage(t)
    PROVE  IInv'
<1> USE SendPathConstants DEF IInv, sendVars, lockVars, srvVars
<1>1. TypeOK'
  BY DEF TypeOK, Owners, PCs, Kinds, Keys, Frames, BeginMessage, Begin, Go
<1>2. LockInv'
  BY DEF TypeOK, LockInv, InTcp, PCs, Owners, BeginMessage, Begin, Go
<1>3. DeadInv'
  BY DEF TypeOK, DeadInv, BeginMessage, Begin, Go
<1>4. PartialInv'
  BY DEF TypeOK, PartialInv, LockInv, DeadInv, InTcp, Owners, BeginMessage,
         Begin, Go
<1>5. CipherInv'
  BY DEF TypeOK, CipherInv, LockInv, DeadInv, InTcp, Unsent, Owners, Rekey,
         ServerRekey, Used, Keys, Frames, Encrypted, BeginMessage, Begin, Go
<1>6. MessageInv'
  BY DEF TypeOK, MessageInv, LockInv, DeadInv, InTcp, Unsent, Owners,
         OpenMessage, Frames, BeginMessage, Begin, Go
<1>7. Sound'
  BY DEF Sound, BeginMessage, Begin, Go
<1> QED BY <1>1, <1>2, <1>3, <1>4, <1>5, <1>6, <1>7

(* sec_send is called by the main thread. *)
LEMMA KeepBeginPdu ==
    ASSUME IInv, BeginPdu
    PROVE  IInv'
<1> USE SendPathConstants DEF IInv, sendVars, lockVars, srvVars
<1>1. TypeOK'
  BY DEF TypeOK, Owners, PCs, Kinds, Keys, Frames, BeginPdu, Begin, Go
<1>2. LockInv'
  BY DEF TypeOK, LockInv, InTcp, PCs, Owners, BeginPdu, Begin, Go
<1>3. DeadInv'
  BY DEF TypeOK, DeadInv, BeginPdu, Begin, Go
<1>4. PartialInv'
  BY DEF TypeOK, PartialInv, LockInv, DeadInv, InTcp, Owners, BeginPdu, Begin,
         Go
<1>5. CipherInv'
  BY DEF TypeOK, CipherInv, LockInv, DeadInv, InTcp, Unsent, Owners, Rekey,
         ServerRekey, Used, Keys, Frames, Encrypted, BeginPdu, Begin, Go
<1>6. MessageInv'
  BY DEF TypeOK, MessageInv, LockInv, DeadInv, InTcp, Unsent, Owners,
         OpenMessage, Frames, BeginPdu, Begin, Go
<1>7. Sound'
  BY DEF Sound, BeginPdu, Begin, Go
<1> QED BY <1>1, <1>2, <1>3, <1>4, <1>5, <1>6, <1>7

(* mcs_disconnect is called. *)
LEMMA KeepBeginDpu ==
    ASSUME IInv, BeginDpu
    PROVE  IInv'
<1> USE SendPathConstants DEF IInv, sendVars, lockVars, srvVars
<1>1. TypeOK'
  BY DEF TypeOK, Owners, PCs, Kinds, Keys, Frames, BeginDpu, Begin, Go
<1>2. LockInv'
  BY DEF TypeOK, LockInv, InTcp, PCs, Owners, BeginDpu, Begin, Go
<1>3. DeadInv'
  BY DEF TypeOK, DeadInv, BeginDpu, Begin, Go
<1>4. PartialInv'
  BY DEF TypeOK, PartialInv, LockInv, DeadInv, InTcp, Owners, BeginDpu, Begin,
         Go
<1>5. CipherInv'
  BY DEF TypeOK, CipherInv, LockInv, DeadInv, InTcp, Unsent, Owners, Rekey,
         ServerRekey, Used, Keys, Frames, Encrypted, BeginDpu, Begin, Go
<1>6. MessageInv'
  BY DEF TypeOK, MessageInv, LockInv, DeadInv, InTcp, Unsent, Owners,
         OpenMessage, Frames, BeginDpu, Begin, Go
<1>7. Sound'
  BY DEF Sound, BeginDpu, Begin, Go
<1> QED BY <1>1, <1>2, <1>3, <1>4, <1>5, <1>6, <1>7

(* Taking SCARD_LOCK_CHANNEL keeps the invariant. *)
LEMMA KeepLockChannel ==
    ASSUME IInv, NEW t \in Threads, LockChannel(t)
    PROVE  IInv'
<1> USE SendPathConstants DEF IInv, sendVars, lockVars, srvVars
<1>1. TypeOK'
  BY DEF TypeOK, Owners, PCs, Kinds, Keys, Frames, LockChannel, Go
<1>2. LockInv'
  BY DEF TypeOK, LockInv, InTcp, PCs, Owners, LockChannel, Go
<1>3. DeadInv'
  BY DEF TypeOK, DeadInv, LockChannel, Go
<1>4. PartialInv'
  BY DEF TypeOK, PartialInv, LockInv, DeadInv, InTcp, Owners, LockChannel, Go
<1>5. CipherInv'
  BY DEF TypeOK, CipherInv, LockInv, DeadInv, InTcp, Unsent, Owners, Rekey,
         ServerRekey, Used, Keys, Frames, Encrypted, LockChannel, Go
<1>6. MessageInv'
  BY DEF TypeOK, MessageInv, LockInv, DeadInv, InTcp, Unsent, Owners,
         OpenMessage, Frames, LockChannel, Go
<1>7. Sound'
  BY DEF Sound, LockChannel, Go
<1> QED BY <1>1, <1>2, <1>3, <1>4, <1>5, <1>6, <1>7

(* Encrypting under SCARD_LOCK_SEC puts the client one frame ahead. *)
LEMMA KeepEncrypt ==
    ASSUME IInv, NEW t \in Threads, Encrypt(t)
    PROVE  IInv'
<1> USE SendPathConstants DEF IInv, sendVars, lockVars, srvVars
<1>1. TypeOK'
  <2>1. Rekey(key) \in Keys /\ Rekey(key).use < REKEY
    BY DEF TypeOK, Rekey, Keys
  <2>2. Used(Rekey(key)) \in Keys /\ Used(Rekey(key)).use <= REKEY
    BY <2>1 DEF Used, Keys
  <2>3. (left[t] = 1) \in BOOLEAN /\ first[t] \in BOOLEAN
    BY Zenon DEF TypeOK
  <2>4. [key |-> Rekey(key), first |-> first[t], last |-> left[t] = 1]
            \in Frames
    BY <2>1, <2>3, Zenon DEF Frames
  <2>5. frame' \in [Threads -> Frames]
    BY <2>4 DEF TypeOK, Encrypt
  <2> QED BY <2>2, <2>5 DEF TypeOK, Owners, PCs, Encrypt, Go
<1>2. LockInv'
  BY DEF TypeOK, LockInv, InTcp, PCs, Owners, Encrypt, Go
<1>3. DeadInv'
  BY DEF TypeOK, DeadInv, Encrypt, Go
<1>4. PartialInv'
  BY DEF TypeOK, PartialInv, LockInv, DeadInv, InTcp, Owners, Encrypt, Go
<1>5. CipherInv'
  BY DEF TypeOK, CipherInv, LockInv, DeadInv, InTcp, Unsent, Owners, Rekey,
         ServerRekey, Used, Keys, Frames, Encrypted, Encrypt, Go
<1>6. MessageInv'
  <2> SUFFICES ASSUME ~dead, NEW u \in Threads, chanLock = u
               PROVE  /\ pc'[u] = "WantSec" => srvMessage = OpenMessage(u, ~first[u])
                      /\ pc'[u] \in Unsent =>
                             /\ srvMessage = OpenMessage(u, ~frame'[u].first)
                             /\ frame'[u].last <=> left[u] = 1
                      /\ pc'[u] = "Sent" => srvMessage = OpenMessage(u, left[u] # 1)
                      /\ pc'[u] = "Done" => srvMessage = NoOne
    BY DEF MessageInv, Encrypt, OpenMessage
  <2>1. /\ pc[u] = "WantSec" => srvMessage = OpenMessage(u, ~first[u])
        /\ pc[u] \in Unsent =>
               /\ srvMessage = OpenMessage(u, ~frame[u].first)
               /\ frame[u].last <=> left[u] = 1
        /\ pc[u] = "Sent" => srvMessage = OpenMessage(u, left[u] # 1)
        /\ pc[u] = "Done" => srvMessage = NoOne
    BY Zenon DEF MessageInv
  <2>2. CASE u = t
    <3>1. pc[u] = "WantSec" /\ pc'[u] = "Enter"
      BY <2>2 DEF Encrypt, Go, TypeOK
    <3>2. frame'[u].first = first[u] /\ (frame'[u].last <=> left[u] = 1)
      BY <2>2 DEF Encrypt, TypeOK
    <3> QED BY <2>1, <3>1, <3>2
  <2>3. CASE u # t
    <3>1. pc'[u] = pc[u] /\ frame'[u] = frame[u]
      BY <2>3 DEF Encrypt, Go, TypeOK
    <3>2. OpenMessage(u, ~frame'[u].first) = OpenMessage(u, ~frame[u].first)
      BY <3>1
    <3>3. frame'[u].last = frame[u].last
      BY <3>1
    <3> QED BY <2>1, <3>1, <3>2, <3>3
  <2> QED BY <2>2, <2>3
<1>7. Sound'
  BY DEF Sound, Encrypt, Go
<1> QED BY <1>1, <1>2, <1>3, <1>4, <1>5, <1>6, <1>7

(* Entering tcp_send keeps the invariant. *)
LEMMA KeepTcpSend ==
    ASSUME IInv, NEW t \in Threads, TcpSend(t)
    PROVE  IInv'
<1> USE SendPathConstants DEF IInv, sendVars, lockVars, srvVars
<1>1. TypeOK'
  BY DEF TypeOK, Owners, PCs, Kinds, Keys, Frames, TcpSend, Go
<1>2. LockInv'
  BY DEF TypeOK, LockInv, InTcp, PCs, Owners, TcpSend, Go
<1>3. DeadInv'
  BY DEF TypeOK, DeadInv, TcpSend, Go
<1>4. PartialInv'
  BY DEF TypeOK, PartialInv, LockInv, DeadInv, InTcp, Owners, TcpSend, Go
<1>5. CipherInv'
  BY DEF TypeOK, CipherInv, LockInv, DeadInv, InTcp, Unsent, Owners, Rekey,
         ServerRekey, Used, Keys, Frames, Encrypted, TcpSend, Go
<1>6. MessageInv'
  BY DEF TypeOK, MessageInv, LockInv, DeadInv, InTcp, Unsent, Owners,
         OpenMessage, Frames, TcpSend, Go
<1>7. Sound'
  BY DEF Sound, TcpSend, Go
<1> QED BY <1>1, <1>2, <1>3, <1>4, <1>5, <1>6, <1>7

(* Taking SCARD_LOCK_TCP keeps the invariant. *)
LEMMA KeepLockTcp ==
    ASSUME IInv, NEW t \in Threads, LockTcp(t)
    PROVE  IInv'
<1> USE SendPathConstants DEF IInv, sendVars, lockVars, srvVars
<1>1. TypeOK'
  BY DEF TypeOK, Owners, PCs, Kinds, Keys, Frames, LockTcp, Go
<1>2. LockInv'
  BY DEF TypeOK, LockInv, InTcp, PCs, Owners, LockTcp, Go
<1>3. DeadInv'
  BY DEF TypeOK, DeadInv, LockTcp, Go
<1>4. PartialInv'
  BY DEF TypeOK, PartialInv, LockInv, DeadInv, InTcp, Owners, LockTcp, Go
<1>5. CipherInv'
  BY DEF TypeOK, CipherInv, LockInv, DeadInv, InTcp, Unsent, Owners, Rekey,
         ServerRekey, Used, Keys, Frames, Encrypted, LockTcp, Go
<1>6. MessageInv'
  BY DEF TypeOK, MessageInv, LockInv, DeadInv, InTcp, Unsent, Owners,
         OpenMessage, Frames, LockTcp, Go
<1>7. Sound'
  BY DEF Sound, LockTcp, Go
<1> QED BY <1>1, <1>2, <1>3, <1>4, <1>5, <1>6, <1>7

(* A partial write starts a frame where none is open. *)
LEMMA KeepWriteSome ==
    ASSUME IInv, NEW t \in Threads, WriteSome(t)
    PROVE  IInv'
<1> USE SendPathConstants DEF IInv, sendVars, lockVars, srvVars
<1>1. TypeOK'
  BY DEF TypeOK, Owners, PCs, Kinds, Keys, Frames, WriteSome, Go
<1>2. LockInv'
  BY DEF TypeOK, LockInv, InTcp, PCs, Owners, WriteSome, Go
<1>3. DeadInv'
  BY DEF TypeOK, DeadInv, WriteSome, Go
<1>4. PartialInv'
  BY DEF TypeOK, PartialInv, LockInv, DeadInv, InTcp, Owners, WriteSome, Go
<1>5. CipherInv'
  BY DEF TypeOK, CipherInv, LockInv, DeadInv, InTcp, Unsent, Owners, Rekey,
         ServerRekey, Used, Keys, Frames, Encrypted, WriteSome, Go
<1>6. MessageInv'
  BY DEF TypeOK, MessageInv, LockInv, DeadInv, InTcp, Unsent, Owners,
         OpenMessage, Frames, WriteSome, Go
<1>7. Sound'
  <2>1. ~FrameBroken(t)
    BY DEF PartialInv, LockInv, FrameBroken, WriteSome
  <2> QED BY <2>1 DEF Sound, WriteSome
<1> QED BY <1>1, <1>2, <1>3, <1>4, <1>5, <1>6, <1>7

(* The end of a frame is what the server expects. *)
LEMMA KeepWriteRest ==
    ASSUME IInv, NEW t \in Threads, WriteRest(t)
    PROVE  IInv'
<1> USE SendPathConstants DEF IInv, sendVars, lockVars, srvVars
<1>1. TypeOK'
  <2>1. srvKey' \in Keys
    BY DEF TypeOK, WriteRest, Used, ServerRekey, Keys
  <2>2. Broken(t) \subseteq {"frame", "cipher", "message"}
    BY DEF Broken
  <2>3. broken' \subseteq {"frame", "cipher", "message"}
    BY <2>2 DEF TypeOK, WriteRest
  <2> QED BY <2>1, <2>3 DEF TypeOK, Owners, PCs, WriteRest, Go
<1>2. LockInv'
  BY DEF TypeOK, LockInv, InTcp, PCs, Owners, WriteRest, Go
<1>3. DeadInv'
  BY DEF TypeOK, DeadInv, WriteRest, Go
<1>4. PartialInv'
  BY DEF TypeOK, PartialInv, LockInv, DeadInv, InTcp, Owners, WriteRest, Go
<1>5. CipherInv'
  BY DEF TypeOK, CipherInv, LockInv, DeadInv, InTcp, Unsent, Owners, Rekey,
         ServerRekey, Used, Keys, Frames, Encrypted, WriteRest, Go
<1>6. MessageInv'
  BY DEF TypeOK, MessageInv, LockInv, DeadInv, InTcp, Unsent, Owners,
         OpenMessage, Frames, WriteRest, Go
<1>7. Sound'
  <2>1. ~FrameBroken(t)
    BY DEF PartialInv, LockInv, FrameBroken, WriteRest
  <2>2. ~CipherBroken(t)
    BY DEF CipherInv, LockInv, CipherBroken, Encrypted, InTcp, Unsent, WriteRest
  <2>3. ~MessageBroken(t)
    BY DEF MessageInv, LockInv, MessageBroken, OpenMessage, InTcp, Unsent,
           WriteRest
  <2> QED BY <2>1, <2>2, <2>3 DEF Sound, Broken, WriteRest
<1> QED BY <1>1, <1>2, <1>3, <1>4, <1>5, <1>6, <1>7

(* A fatal write error keeps the invariant. *)
LEMMA KeepWriteFails ==
    ASSUME IInv, NEW t \in Threads, WriteFails(t)
    PROVE  IInv'
<1> USE SendPathConstants DEF IInv, sendVars, lockVars, srvVars
<1>1. TypeOK'
  BY DEF TypeOK, Owners, PCs, Kinds, Keys, Frames, WriteFails, Go
<1>2. LockInv'
  BY DEF TypeOK, LockInv, InTcp, PCs, Owners, WriteFails, Go
<1>3. DeadInv'
  BY DEF TypeOK, DeadInv, WriteFails, Go
<1>4. PartialInv'
  BY DEF TypeOK, PartialInv, LockInv, DeadInv, InTcp, Owners, WriteFails, Go
<1>5. CipherInv'
  BY DEF TypeOK, CipherInv, LockInv, DeadInv, InTcp, Unsent, Owners, Rekey,
         ServerRekey, Used, Keys, Frames, Encrypted, WriteFails, Go
<1>6. MessageInv'
  BY DEF TypeOK, MessageInv, LockInv, DeadInv, InTcp, Unsent, Owners,
         OpenMessage, Frames, WriteFails, Go
<1>7. Sound'
  BY DEF Sound, WriteFails, Go
<1> QED BY <1>1, <1>2, <1>3, <1>4, <1>5, <1>6, <1>7

(* Raising g_network_error keeps the invariant. *)
LEMMA KeepRaiseError ==
    ASSUME IInv, NEW t \in Threads, RaiseError(t)
    PROVE  IInv'
<1> USE SendPathConstants DEF IInv, sendVars, lockVars, srvVars
<1>1. TypeOK'
  BY DEF TypeOK, Owners, PCs, Kinds, Keys, Frames, RaiseError, Go
<1>2. LockInv'
  BY DEF TypeOK, LockInv, InTcp, PCs, Owners, RaiseError, Go
<1>3. DeadInv'
  BY DEF TypeOK, DeadInv, RaiseError, Go
<1>4. PartialInv'
  BY DEF TypeOK, PartialInv, LockInv, DeadInv, InTcp, Owners, RaiseError, Go
<1>5. CipherInv'
  BY DEF TypeOK, CipherInv, LockInv, DeadInv, InTcp, Unsent, Owners, Rekey,
         ServerRekey, Used, Keys, Frames, Encrypted, RaiseError, Go
<1>6. MessageInv'
  BY DEF TypeOK, MessageInv, LockInv, DeadInv, InTcp, Unsent, Owners,
         OpenMessage, Frames, RaiseError, Go
<1>7. Sound'
  BY DEF Sound, RaiseError, Go
<1> QED BY <1>1, <1>2, <1>3, <1>4, <1>5, <1>6, <1>7

(* Releasing SCARD_LOCK_SEC after a frame keeps the invariant. *)
LEMMA KeepFinishFrame ==
    ASSUME IInv, NEW t \in Threads, FinishFrame(t)
    PROVE  IInv'
<1> USE SendPathConstants DEF IInv, sendVars, lockVars, srvVars
<1>1. TypeOK'
  <2>1. left[t] >= 1 /\ left[t] \in Nat
    BY DEF TypeOK, LockInv, FinishFrame
  <2>2. left' \in [Threads -> Nat]
    BY <2>1 DEF TypeOK, FinishFrame
  <2>3. first' \in [Threads -> BOOLEAN]
    BY Zenon DEF TypeOK, FinishFrame
  <2> QED BY <2>2, <2>3 DEF TypeOK, Owners, PCs, FinishFrame, Go
<1>2. LockInv'
  BY DEF TypeOK, LockInv, InTcp, PCs, Owners, FinishFrame, Go
<1>3. DeadInv'
  BY DEF TypeOK, DeadInv, FinishFrame, Go
<1>4. PartialInv'
  BY DEF TypeOK, PartialInv, LockInv, DeadInv, InTcp, Owners, FinishFrame, Go
<1>5. CipherInv'
  BY DEF TypeOK, CipherInv, LockInv, DeadInv, InTcp, Unsent, Owners, Rekey,
         ServerRekey, Used, Keys, Frames, Encrypted, FinishFrame, Go
<1>6. MessageInv'
  BY DEF TypeOK, MessageInv, LockInv, DeadInv, InTcp, Unsent, Owners,
         OpenMessage, Frames, FinishFrame, Go
<1>7. Sound'
  BY DEF Sound, FinishFrame, Go
<1> QED BY <1>1, <1>2, <1>3, <1>4, <1>5, <1>6, <1>7

(* The end of mcs_disconnect keeps the invariant. *)
LEMMA KeepFinishDpu ==
    ASSUME IInv, NEW t \in Threads, FinishDpu(t)
    PROVE  IInv'
<1> USE SendPathConstants DEF IInv, sendVars, lockVars, srvVars
<1>1. TypeOK'
  BY DEF TypeOK, Owners, PCs, Kinds, Keys, Frames, FinishDpu, Go
<1>2. LockInv'
  BY DEF TypeOK, LockInv, InTcp, PCs, Owners, FinishDpu, Go
<1>3. DeadInv'
  BY DEF TypeOK, DeadInv, FinishDpu, Go
<1>4. PartialInv'
  BY DEF TypeOK, PartialInv, LockInv, DeadInv, InTcp, Owners, FinishDpu, Go
<1>5. CipherInv'
  BY DEF TypeOK, CipherInv, LockInv, DeadInv, InTcp, Unsent, Owners, Rekey,
         ServerRekey, Used, Keys, Frames, Encrypted, FinishDpu, Go
<1>6. MessageInv'
  BY DEF TypeOK, MessageInv, LockInv, DeadInv, InTcp, Unsent, Owners,
         OpenMessage, Frames, FinishDpu, Go
<1>7. Sound'
  BY DEF Sound, FinishDpu, Go
<1> QED BY <1>1, <1>2, <1>3, <1>4, <1>5, <1>6, <1>7

(* Releasing SCARD_LOCK_CHANNEL keeps the invariant. *)
LEMMA KeepUnlockChannel ==
    ASSUME IInv, NEW t \in Threads, UnlockChannel(t)
    PROVE  IInv'
<1> USE SendPathConstants DEF IInv, sendVars, lockVars, srvVars
<1>1. TypeOK'
  BY DEF TypeOK, Owners, PCs, Kinds, Keys, Frames, UnlockChannel, Go
<1>2. LockInv'
  BY DEF TypeOK, LockInv, InTcp, PCs, Owners, UnlockChannel, Go
<1>3. DeadInv'
  BY DEF TypeOK, DeadInv, UnlockChannel, Go
<1>4. PartialInv'
  BY DEF TypeOK, PartialInv, LockInv, DeadInv, InTcp, Owners, UnlockChannel,
         Go
<1>5. CipherInv'
  BY DEF TypeOK, CipherInv, LockInv, DeadInv, InTcp, Unsent, Owners, Rekey,
         ServerRekey, Used, Keys, Frames, Encrypted, UnlockChannel, Go
<1>6. MessageInv'
  BY DEF TypeOK, MessageInv, LockInv, DeadInv, InTcp, Unsent, Owners,
         OpenMessage, Frames, UnlockChannel, Go
<1>7. Sound'
  BY DEF Sound, UnlockChannel, Go
<1> QED BY <1>1, <1>2, <1>3, <1>4, <1>5, <1>6, <1>7

(* The inductive invariant holds in every reachable state of the send path. *)
THEOREM Invariance == Spec => []IInv
<1>1. Init => IInv
  <2> SUFFICES ASSUME Init PROVE IInv
    OBVIOUS
  <2> USE SendPathConstants DEF Init, FreshKey
  <2>1. TypeOK
    <3>1. first \in [Threads -> BOOLEAN]
      BY Zenon
    <3>2. FreshKey \in Keys
      BY DEF Keys
    <3>3. [key |-> FreshKey, first |-> FALSE, last |-> FALSE] \in Frames
      BY <3>2, Zenon DEF Frames
    <3>4. g_network_error \in BOOLEAN /\ dead \in BOOLEAN
      BY Zenon
    <3>5. frame \in [Threads -> Frames]
      BY <3>3, Zenon
    <3>6. key \in Keys /\ key.use <= REKEY /\ srvKey \in Keys
      BY <3>2
    <3> QED BY <3>1, <3>4, <3>5, <3>6 DEF TypeOK, Owners, PCs, Kinds
  <2>2. LockInv
    BY DEF LockInv, InTcp
  <2>3. DeadInv /\ PartialInv /\ CipherInv /\ MessageInv /\ Sound
    BY DEF DeadInv, PartialInv, CipherInv, MessageInv, Sound
  <2> QED BY <2>1, <2>2, <2>3 DEF IInv
<1>2. IInv /\ [Next]_vars => IInv'
  <2> SUFFICES ASSUME IInv, [Next]_vars PROVE IInv'
    OBVIOUS
  <2>1. CASE BeginPdu
    BY <2>1, KeepBeginPdu
  <2>2. CASE BeginDpu
    BY <2>2, KeepBeginDpu
  <2>3. CASE \E t \in Threads : BeginMessage(t) \/ Step(t)
    <3> PICK t \in Threads : BeginMessage(t) \/ Step(t)
      BY <2>3
    <3>1. CASE BeginMessage(t)
      BY <3>1, KeepBeginMessage
    <3>2. CASE LockChannel(t)
      BY <3>2, KeepLockChannel
    <3>3. CASE Encrypt(t)
      BY <3>3, KeepEncrypt
    <3>4. CASE TcpSend(t)
      BY <3>4, KeepTcpSend
    <3>5. CASE LockTcp(t)
      BY <3>5, KeepLockTcp
    <3>6. CASE WriteSome(t)
      BY <3>6, KeepWriteSome
    <3>7. CASE WriteRest(t)
      BY <3>7, KeepWriteRest
    <3>8. CASE WriteFails(t)
      BY <3>8, KeepWriteFails
    <3>9. CASE RaiseError(t)
      BY <3>9, KeepRaiseError
    <3>10. CASE FinishFrame(t)
      BY <3>10, KeepFinishFrame
    <3>11. CASE FinishDpu(t)
      BY <3>11, KeepFinishDpu
    <3>12. CASE UnlockChannel(t)
      BY <3>12, KeepUnlockChannel
    <3> QED BY <3>1, <3>2, <3>3, <3>4, <3>5, <3>6, <3>7, <3>8, <3>9, <3>10,
           <3>11, <3>12 DEF Step
  <2>4. CASE UNCHANGED vars
    BY <2>4
    DEF IInv, TypeOK, LockInv, DeadInv, PartialInv, CipherInv, MessageInv,
        Sound, vars, sendVars, lockVars, srvVars
  <2> QED BY <2>1, <2>2, <2>3, <2>4 DEF Next
<1> QED BY <1>1, <1>2, PTL DEF Spec

(* The variables of the send path keep their types, and no key is used more *)
(* than REKEY times before sec_update replaces it.                          *)
THEOREM TypeCorrect == Spec => []TypeOK
<1>1. IInv => TypeOK
  BY DEF IInv
<1> QED BY <1>1, Invariance, PTL

(* Partial writes of different threads are never mixed on the wire. *)
THEOREM WireKeepsFrames == Spec => []FramesAreWhole
<1>1. IInv => FramesAreWhole
  BY DEF IInv, Sound, FramesAreWhole
<1> QED BY <1>1, Invariance, PTL

(* However many threads send, the server's RC4 stream stays in step with    *)
(* sec_encrypt across key updates.                                          *)
THEOREM WireKeepsCipher == Spec => []CipherInStep
<1>1. IInv => CipherInStep
  BY DEF IInv, Sound, CipherInStep
<1> QED BY <1>1, Invariance, PTL

(* Chunks of different channel messages are never mixed on the wire. *)
THEOREM WireKeepsMessages == Spec => []MessagesAreWhole
<1>1. IInv => MessagesAreWhole
  BY DEF IInv, Sound, MessagesAreWhole
<1> QED BY <1>1, Invariance, PTL

=============================================================================
