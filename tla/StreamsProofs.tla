---------------------------- MODULE StreamsProofs ---------------------------
(***************************************************************************)
(* What the client reads is what the server sent: virtual channels, the    *)
(* table of dynamic channels, the security layer and updates; what others  *)
(* get from it: add-ins and the control socket.  Each component has an     *)
(* invariant of its own; since a behaviour is one of a single component    *)
(* and they share no variable, their conjunction is inductive.             *)
(***************************************************************************)
EXTENDS MCStreams, FiniteSetTheorems, SequenceTheorems, WellFoundedInduction, TLAPS

-----------------------------------------------------------------------------
(* Numbers *)

(* A set of numbers that is not empty has a least one. *)
LEMMA LeastNumber ==
    ASSUME NEW T \in SUBSET Nat, T # {}
    PROVE  \E x \in T : \A y \in T : x <= y
<1> DEFINE R == OpToRel(<, Nat)
<1>1. IsWellFoundedOn(R, Nat)
  BY NatLessThanWellFounded, Zenon
<1>2. \A x, y \in Nat : x < y => <<x, y>> \in R
  BY DEF OpToRel
<1> HIDE DEF R
<1>3. PICK x \in T : \A y \in T : ~(<<y, x>> \in R)
  BY <1>1, WFMin, Zenon
<1>4. ASSUME NEW y \in T PROVE x <= y
  <2>1. x \in Nat /\ y \in Nat
    OBVIOUS
  <2>2. ~(y < x)
    BY <1>2, <1>3, <2>1, Zenon
  <2> QED BY <2>1, <2>2
<1> QED BY <1>4

(* Induction, as a statement about a set of numbers. *)
LEMMA Induct ==
    ASSUME NEW S, 0 \in S, \A n \in Nat : n \in S => n + 1 \in S
    PROVE  Nat \subseteq S
<1> SUFFICES ASSUME Nat \ S # {} PROVE FALSE
  OBVIOUS
<1>1. PICK x \in Nat \ S : \A y \in Nat \ S : x <= y
  BY LeastNumber, Zenon
<1>2. x # 0 /\ x - 1 \in Nat
  BY <1>1
<1>3. x - 1 \in S
  BY <1>1, <1>2
<1> QED BY <1>1, <1>2, <1>3

-----------------------------------------------------------------------------
(* Dynamic channels (dvc.c) *)

(* The name of every channel that is open stands in a slot that carries its  *)
(* id, and an empty slot carries 0.  Slots of an earlier connection, and with *)
(* id 0 empty ones, may carry the same id.                                   *)
DvcInv ==
    /\ DvcTypeOK
    /\ \A i \in 1 .. MAX_DVC_CHANNELS :
           channels[i].name = NoName => channels[i].id = 0
    /\ \A i, j \in 1 .. MAX_DVC_CHANNELS :
           channels[i].name = channels[j].name /\ channels[i].name # NoName => i = j
    /\ \A a, b \in DOMAIN srvOpen : srvOpen[a] = srvOpen[b] => a = b
    /\ \A id \in DOMAIN srvOpen :
           \E i \in 1 .. MAX_DVC_CHANNELS :
               channels[i].name = srvOpen[id] /\ channels[i].id = id
    /\ DataReachesHandler

(* The loops of dvc.c over the table return a slot that fits, and 0 only     *)
(* when there is none.                                                       *)
LEMMA SlotFits ==
    ASSUME DvcTypeOK
    PROVE  /\ DOMAIN channels = 1 .. MAX_DVC_CHANNELS
           /\ \A name : \/ /\ SlotOf(name) \in 1 .. MAX_DVC_CHANNELS
                           /\ channels[SlotOf(name)].name = name
                        \/ /\ SlotOf(name) = 0
                           /\ \A i \in 1 .. MAX_DVC_CHANNELS : channels[i].name # name
           /\ \A id : \/ /\ SlotById(id) \in 1 .. MAX_DVC_CHANNELS
                         /\ channels[SlotById(id)].id = id
                         /\ \A i \in 1 .. MAX_DVC_CHANNELS :
                                channels[i].id = id => SlotById(id) <= i
                      \/ /\ SlotById(id) = 0
                         /\ \A i \in 1 .. MAX_DVC_CHANNELS : channels[i].id # id
<1> DEFINE Slot == [name : Handled, id : SlotIds]
<1>1. MAX_DVC_CHANNELS \in Nat /\ channels \in [1 .. MAX_DVC_CHANNELS -> Slot]
  BY DvcConstants DEF DvcTypeOK
<1> HIDE DEF Slot
<1>2. channels \in Seq(Slot) /\ Len(channels) = MAX_DVC_CHANNELS
  BY <1>1
<1>3. ASSUME NEW I \in SUBSET (1 .. MAX_DVC_CHANNELS), I # {}
      PROVE  Min(I) \in I /\ \A y \in I : Min(I) <= y
  <2>1. I \in SUBSET Nat
    BY <1>1
  <2>2. PICK x \in I : \A y \in I : x <= y
    BY <1>3, <2>1, LeastNumber
  <2> QED BY <2>2, Zenon DEF Min
<1>4. ASSUME NEW name
      PROVE  \/ /\ SlotOf(name) \in 1 .. MAX_DVC_CHANNELS
                /\ channels[SlotOf(name)].name = name
             \/ /\ SlotOf(name) = 0
                /\ \A i \in 1 .. MAX_DVC_CHANNELS : channels[i].name # name
  <2> DEFINE I == {i \in 1 .. MAX_DVC_CHANNELS : channels[i].name = name}
  <2>1. SlotOf(name) = IF I # {} THEN Min(I) ELSE 0
    BY <1>2 DEF SlotOf, SelectInSeq
  <2>2. I # {} => Min(I) \in I
    BY <1>3
  <2> QED BY <2>1, <2>2
<1>5. ASSUME NEW id
      PROVE  \/ /\ SlotById(id) \in 1 .. MAX_DVC_CHANNELS
                /\ channels[SlotById(id)].id = id
                /\ \A i \in 1 .. MAX_DVC_CHANNELS :
                       channels[i].id = id => SlotById(id) <= i
             \/ /\ SlotById(id) = 0
                /\ \A i \in 1 .. MAX_DVC_CHANNELS : channels[i].id # id
  <2> DEFINE I == {i \in 1 .. MAX_DVC_CHANNELS : channels[i].id = id}
  <2>1. SlotById(id) = IF I # {} THEN Min(I) ELSE 0
    BY <1>2 DEF SlotById, SelectInSeq
  <2>2. I # {} => Min(I) \in I /\ \A i \in I : Min(I) <= i
    BY <1>3
  <2> QED BY <2>1, <2>2
<1> QED BY <1>1, <1>4, <1>5

(* The table begins empty and nothing is open. *)
LEMMA DvcInitInv == DvcInit => DvcInv
<1> SUFFICES ASSUME DvcInit PROVE DvcInv
  OBVIOUS
<1>1. DOMAIN srvOpen = {}
  BY DEF DvcInit
<1>2. DvcTypeOK
  BY <1>1, DvcConstants
  DEF DvcInit, DvcTypeOK, FreeSlot, Nothing, Handled, SlotIds, Range
<1> QED
  BY <1>1, <1>2 DEF DvcInit, DvcInv, FreeSlot, DataReachesHandler, NullHandler, NoName

(* Every step of dvc.c keeps names unique and open channels findable: a      *)
(* create moves the id of a name that is not open, and a close wipes a slot  *)
(* that carries the closed id.                                               *)
LEMMA DvcStep == DvcInv /\ [DvcNext]_dvcVars => DvcInv'
<1> SUFFICES ASSUME DvcInv, [DvcNext]_dvcVars PROVE DvcInv'
  OBVIOUS
<1> DEFINE Index == 1 .. MAX_DVC_CHANNELS
           Slot == [name : Handled, id : SlotIds]
<1>1. DvcTypeOK /\ channels \in [Index -> Slot]
  BY DEF DvcInv, DvcTypeOK
<1>2. \A i \in Index : channels[i].name \in Handled /\ channels[i].id \in SlotIds
  BY <1>1
<1>3. /\ NoName \notin DvcNames /\ NoName \notin DvcOtherNames
      /\ NullHandler \notin DvcNames
      /\ INVALID_CHANNEL \in SlotIds /\ 0 \in SlotIds
      /\ \A id \in DvcIds : id \in SlotIds
  BY DvcConstants, Zenon DEF SlotIds
<1>4. CASE UNCHANGED dvcVars
  BY <1>4 DEF dvcVars, DvcInv, DvcTypeOK, DataReachesHandler
<1>5. CASE DvcConnect
  <2>1. DOMAIN srvOpen' = {}
    BY <1>5 DEF DvcConnect
  <2>2. DvcTypeOK'
    BY <1>1, <1>3, <1>5, <2>1, DvcConstants
    DEF DvcConnect, DvcTypeOK, Range, Nothing
  <2> QED
    BY <1>5, <2>1, <2>2 DEF DvcConnect, DvcInv, DataReachesHandler
<1>6. CASE DvcProcessCaps
  BY <1>3, <1>6 DEF DvcProcessCaps, DvcInv, DvcTypeOK, DataReachesHandler
<1>7. ASSUME NEW name \in DvcNames, DvcSend(name) PROVE DvcInv'
  <2>1. DvcGetId(name) \in SlotIds
    BY <1>1, <1>2, <1>3, SlotFits DEF DvcGetId, DvcExists
  <2> QED BY <1>7, <2>1 DEF DvcSend, DvcInv, DvcTypeOK, DataReachesHandler
<1>8. ASSUME NEW name \in DvcNames, DvcAdd(name) PROVE DvcInv'
  <2> UNCHANGED <<dvcLoop, srvOpen, dispatch, dvcSent>>
    BY <1>8 DEF DvcAdd
  <2>1. CASE channels' = channels
    BY <2>1 DEF DvcInv, DvcTypeOK, DataReachesHandler
  <2>2. CASE channels' # channels
    <3> DEFINE s == SlotOf(NoName)
    <3>1. s \in Index /\ channels[s].name = NoName
      BY <1>1, <1>8, <2>2, SlotFits DEF DvcAdd
    <3>2. \A i \in Index : channels[i].name # name
      BY <1>1, <1>3, <1>8, <2>2, SlotFits DEF DvcAdd, DvcExists
    <3>3. channels' = [channels EXCEPT ![s] = [name |-> name, id |-> INVALID_CHANNEL]]
      BY <1>8, <2>2 DEF DvcAdd
    <3> HIDE DEF s
    <3>4. \A i \in Index : channels'[i] = IF i = s THEN [name |-> name, id |-> INVALID_CHANNEL]
                                          ELSE channels[i]
      BY <1>1, <3>3
    <3>5. channels' \in [Index -> Slot]
      BY <1>1, <1>3, <3>1, <3>3 DEF Handled
    <3>7. DvcTypeOK'
      BY <1>1, <3>5 DEF DvcTypeOK
    <3>6. \A id \in DOMAIN srvOpen : srvOpen[id] \in DvcNames
      BY <1>1 DEF DvcTypeOK, Range
    <3> QED
      BY <1>3, <3>1, <3>2, <3>4, <3>6, <3>7
      DEF DvcInv, DataReachesHandler
  <2> QED BY <2>1, <2>2
<1>9. ASSUME NEW id \in DvcIds, DvcProcessData(id) PROVE DvcInv'
  <2>1. HandlerOf(id) \in Handled \cup {NullHandler}
    BY <1>1, <1>2, SlotFits DEF HandlerOf, Handled
  <2>2. srvOpen[id] \in Handled /\ srvOpen[id] # NoName
    BY <1>1, <1>3, <1>9 DEF DvcProcessData, DvcTypeOK, Range, Handled
  <2>3. DvcTypeOK'
    BY <1>1, <1>3, <1>9, <2>1, <2>2 DEF DvcProcessData, DvcTypeOK
  <2>4. PICK i \in Index : channels[i].name = srvOpen[id] /\ channels[i].id = id
    BY <1>9 DEF DvcInv, DvcProcessData
  <2>5. HandlerOf(id) = srvOpen[id] \/ Shadowed(id)
    <3>1. SlotOf(srvOpen[id]) = i
      BY <1>1, <2>2, <2>4, SlotFits DEF DvcInv
    <3>2. /\ SlotById(id) \in Index /\ channels[SlotById(id)].id = id
          /\ SlotById(id) <= i
      BY <1>1, <2>4, SlotFits
    <3>3. CASE SlotById(id) = i
      BY <2>2, <2>4, <3>2, <3>3, DvcConstants DEF HandlerOf
    <3>4. CASE SlotById(id) < i
      BY <1>1, <3>1, <3>2, <3>4, SlotFits DEF Shadowed
    <3> QED BY <3>2, <3>3, <3>4, DvcConstants
  <2>6. HandlerOf(id) = NullHandler => id = 0
    <3> SUFFICES ASSUME HandlerOf(id) = NullHandler PROVE id = 0
      OBVIOUS
    <3>1. SlotById(id) # 0
      BY DEF HandlerOf, NoName, NullHandler
    <3>2. SlotById(id) \in Index /\ channels[SlotById(id)].id = id
      BY <1>1, <3>1, SlotFits
    <3>3. channels[SlotById(id)].name = NoName
      BY <1>2, <1>3, <3>1, <3>2 DEF HandlerOf, Handled, NoName, NullHandler
    <3> QED BY <3>2, <3>3 DEF DvcInv
  <2>7. DataReachesHandler'
    BY <1>9, <2>5, <2>6 DEF DvcProcessData, DataReachesHandler
  <2> QED BY <1>9, <2>3, <2>7 DEF DvcProcessData, DvcInv
<1>10. ASSUME NEW id \in DvcIds, DvcProcessClose(id) PROVE DvcInv'
  <2> DEFINE s == SlotById(id)
  <2>1. \A i \in Index : channels'[i] = IF i = s THEN FreeSlot ELSE channels[i]
    BY <1>1, <1>10, SlotFits DEF DvcProcessClose, RemoveById
  <2>2. channels' \in [Index -> Slot]
    BY <1>1, <1>3, <1>10, SlotFits
    DEF DvcProcessClose, RemoveById, FreeSlot, Handled
  <2>3. /\ DOMAIN srvOpen' = DOMAIN srvOpen \ {id}
        /\ \A j \in DOMAIN srvOpen' : srvOpen'[j] = srvOpen[j]
    BY <1>10 DEF DvcProcessClose
  <2>4. s \in Index => channels[s].id = id
    BY <1>1, SlotFits
  <2> HIDE DEF s
  <2>5. DvcTypeOK'
    BY <1>1, <1>10, <2>2, <2>3 DEF DvcProcessClose, DvcTypeOK, Range
  <2>6. /\ \A i, j \in Index :
               channels'[i].name = channels'[j].name /\ channels'[i].name # NoName
                   => i = j
        /\ \A i \in Index : channels'[i].name = NoName => channels'[i].id = 0
    BY <2>1 DEF DvcInv, FreeSlot
  <2>7. \A j \in DOMAIN srvOpen' :
            \E i \in Index : channels'[i].name = srvOpen'[j] /\ channels'[i].id = j
    <3> SUFFICES ASSUME NEW j \in DOMAIN srvOpen'
                 PROVE \E i \in Index : channels'[i].name = srvOpen'[j]
                                        /\ channels'[i].id = j
      OBVIOUS
    <3>1. PICK i \in Index : channels[i].name = srvOpen[j] /\ channels[i].id = j
      BY <2>3 DEF DvcInv
    <3>2. i # s
      BY <2>3, <2>4, <3>1
    <3> QED BY <2>1, <2>3, <3>1, <3>2
  <2> QED
    BY <1>10, <2>3, <2>5, <2>6, <2>7
    DEF DvcProcessClose, DvcInv, DataReachesHandler
<1>11. ASSUME NEW id \in DvcIds, NEW name \in DvcNames \cup DvcOtherNames,
              DvcProcessCreate(id, name)
       PROVE  DvcInv'
  <2>1. CASE ~DvcExists(name)
    BY <1>3, <1>11, <2>1
    DEF DvcProcessCreate, DvcInv, DvcTypeOK, DataReachesHandler
  <2>2. CASE DvcExists(name)
    <3> DEFINE s == SlotOf(name)
    <3>1. s \in Index /\ channels[s].name = name
      BY <1>1, <2>2, SlotFits DEF DvcExists
    <3>2. channels' = [channels EXCEPT ![s].id = id]
      BY <1>11, <2>2 DEF DvcProcessCreate, SetId
    <3>3. /\ DOMAIN srvOpen' = DOMAIN srvOpen \cup {id}
          /\ \A j \in DOMAIN srvOpen' :
                 srvOpen'[j] = IF j = id THEN name ELSE srvOpen[j]
      BY <1>11, <2>2 DEF DvcProcessCreate
    <3> HIDE DEF s
    <3>4. \A i \in Index : /\ channels'[i].name = channels[i].name
                           /\ channels'[i].id = IF i = s THEN id ELSE channels[i].id
      BY <1>1, <3>1, <3>2
    <3>5. channels' \in [Index -> Slot]
      BY <1>1, <1>3, <3>1, <3>2
    <3>6. name \in DvcNames
      BY <1>2, <1>3, <3>1 DEF Handled
    <3>7. DvcTypeOK'
      BY <1>1, <1>3, <1>11, <2>2, <3>3, <3>5, <3>6
      DEF DvcProcessCreate, DvcTypeOK, Range
    <3>8. \A j \in DOMAIN srvOpen : srvOpen[j] # name /\ j # id
      BY <1>11 DEF DvcProcessCreate, Range
    <3>9. \A a, b \in DOMAIN srvOpen' : srvOpen'[a] = srvOpen'[b] => a = b
      BY <3>3, <3>8 DEF DvcInv
    <3>10. \A j \in DOMAIN srvOpen' :
               \E i \in Index : channels'[i].name = srvOpen'[j] /\ channels'[i].id = j
      BY <3>1, <3>3, <3>4, <3>8 DEF DvcInv
    <3> QED
      BY <1>3, <1>11, <2>2, <3>1, <3>4, <3>6, <3>7, <3>9, <3>10
      DEF DvcProcessCreate, DvcInv, DataReachesHandler
  <2> QED BY <2>1, <2>2
<1> QED BY <1>4, <1>5, <1>6, <1>7, <1>8, <1>9, <1>10, <1>11 DEF DvcNext

-----------------------------------------------------------------------------
(* Security layer and licensing (secure.c, licence.c) *)

KeyType == [gen : Nat, use : 0 .. SecRekey]
FrameType ==
    [kind : Kinds, encrypted : BOOLEAN, key : KeyType, header : BOOLEAN]

SecTypes ==
    /\ g_encryption \in BOOLEAN
    /\ g_licence_issued \in BOOLEAN /\ g_licence_error_result \in BOOLEAN
    /\ decrypt \in KeyType
    /\ licKey \in 0 .. MaxSecSessions
    /\ licFile \in NoLicence .. Torn /\ licTmp \in NoLicence .. Torn
    /\ licPc \in {"idle", "opened", "written", "dead"}
    /\ srv \in [phase : Phases, frames : 0 .. MaxSecFrames, key : KeyType]
    /\ toClient \in Seq(FrameType)
    /\ toServer \in Seq([tag : {"info", "newrequest", "response"}, header : BOOLEAN])
    /\ secSession \in 0 .. MaxSecSessions

(* What stands on the connection has a header where the server writes one,   *)
(* and is encrypted only under RDP security.                                 *)
HeaderInv ==
    /\ \A i \in 1 .. Len(toClient) :
           /\ toClient[i].encrypted => g_encryption
           /\ toClient[i].header <=>
                  g_encryption \/ toClient[i].kind \in Tags \cup {"heartbeat"}
    /\ \A i \in 1 .. Len(toServer) : toServer[i].header

KeyAfter(f) == IF f.encrypted THEN Used(f.key) ELSE f.key

(* The keys of the frames on the connection lead from the client's key to    *)
(* the server's, one use for each encrypted frame.                           *)
KeyInv ==
    licPc # "dead" =>
        /\ toClient = << >> => srv.key = decrypt
        /\ toClient # << >> => /\ toClient[1].key = decrypt
                               /\ srv.key = KeyAfter(toClient[Len(toClient)])
        /\ \A i \in 1 .. Len(toClient) - 1 :
               toClient[i + 1].key = KeyAfter(toClient[i])

NoResult == ~g_licence_issued /\ ~g_licence_error_result

(* The result of licensing is set on both sides at the same place of the     *)
(* stream: the server is through when the PDU that ends it is the first one  *)
(* the client has not read, or has been read.                                *)
PhaseInv ==
    /\ licPc = "dead" =>
           toClient = << >> /\ srv.phase = "licensed" /\ srv.frames = MaxSecFrames
    /\ srv.phase = "start" => NoResult /\ toClient = << >>
    /\ srv.phase = "waiting" =>
           /\ NoResult
           /\ toClient # << >> => /\ Len(toClient) = 1
                                  /\ toClient[1].kind \in {"request", "challenge"}
    /\ srv.phase = "licensed" =>
           \/ /\ NoResult /\ toClient # << >>
              /\ toClient[1].kind \in {"new", "valid", "error"}
              /\ \A i \in 2 .. Len(toClient) : toClient[i].kind \notin Tags
           \/ /\ ~NoResult
              /\ \A i \in 1 .. Len(toClient) : toClient[i].kind \notin Tags
           \/ toClient = << >> /\ srv.frames = MaxSecFrames

(* A licence that is sealed for this exchange finds the keys of the exchange. *)
LicKeyInv ==
    /\ toServer # << >> => licKey = secSession
    /\ licPc = "opened" => licKey = secSession
    /\ \A i \in 1 .. Len(toClient) :
           toClient[i].kind \in {"new", "challenge"} => licKey = secSession
    /\ licPc = "written" => licTmp # Torn

(* The last PDU was read as it was meant. *)
TakenInv ==
    /\ taken.misread => taken.kind = "heartbeat" /\ taken.tls
    /\ taken.instep

SecInv ==
    /\ SecTypes /\ HeaderInv /\ KeyInv /\ PhaseInv /\ LicKeyInv /\ TakenInv
    /\ licFile # Torn

(* The invariant gives the properties of the component. *)
LEMMA SecInvGives ==
    SecInv => SecRecvTypeOK /\ FramingAgrees /\ DecryptInStep /\ LicenceOnDiskIsWhole
<1> SUFFICES ASSUME SecInv
             PROVE SecRecvTypeOK /\ FramingAgrees /\ DecryptInStep /\ LicenceOnDiskIsWhole
  OBVIOUS
<1>1. SecTypes
  BY DEF SecInv
<1>2. \A i \in DOMAIN toClient : toClient[i].kind \in Kinds
  <2>1. \A i \in DOMAIN toClient : toClient[i] \in FrameType
    BY <1>1 DEF SecTypes
  <2> QED BY <2>1 DEF FrameType
<1>3. SecRecvTypeOK
  BY <1>1, <1>2 DEF SecTypes, SecRecvTypeOK, KeyType
<1>4. DOMAIN toServer = 1 .. Len(toServer)
  BY <1>1 DEF SecTypes
<1> QED
  BY <1>3, <1>4
  DEF SecInv, HeaderInv, TakenInv, FramingAgrees, DecryptInStep, LicenceOnDiskIsWhole

(* A key that is used is a key. *)
LEMMA UsedIsKey == \A k \in KeyType : Used(k) \in KeyType /\ FreshKey \in KeyType
BY SecRecvConstants DEF KeyType, Used, FreshKey

(* Before the first connection nothing is sent. *)
LEMMA SecInitInv == SecRecvInit => SecInv
<1> SUFFICES ASSUME SecRecvInit PROVE SecInv
  OBVIOUS
<1>1. FreshKey \in KeyType /\ MaxSecFrames \in 0 .. MaxSecFrames
  BY SecRecvConstants DEF KeyType, FreshKey
<1>2. NoLicence \in NoLicence .. Torn /\ NoLicence # Torn /\ 0 \in 0 .. MaxSecSessions
  BY SecRecvConstants DEF NoLicence, Torn
<1>3. SecTypes
  <2>1. srv \in [phase : Phases, frames : 0 .. MaxSecFrames, key : KeyType]
    BY <1>1 DEF SecRecvInit, Phases
  <2>2. toClient \in Seq(FrameType)
        /\ toServer \in Seq([tag : {"info", "newrequest", "response"}, header : BOOLEAN])
    BY DEF SecRecvInit
  <2> QED BY <1>1, <1>2, <2>1, <2>2, Zenon DEF SecRecvInit, SecTypes
<1>4. Len(toClient) = 0 /\ Len(toServer) = 0
  BY DEF SecRecvInit
<1> QED
  BY <1>2, <1>3, <1>4
  DEF SecRecvInit, SecInv, HeaderInv, KeyInv, PhaseInv, LicKeyInv, TakenInv, NoResult

-----------------------------------------------------------------------------
(* The connection and the server *)

(* A new connection begins with fresh keys and no licence result. *)
LEMMA SecConnectKeeps == SecInv /\ SecConnect => SecInv'
<1> SUFFICES ASSUME SecInv, SecConnect PROVE SecInv'
  OBVIOUS
<1>1. FreshKey \in KeyType /\ 0 \in 0 .. MaxSecFrames
  BY SecRecvConstants DEF KeyType, FreshKey
<1>2. SecTypes'
  <2>1. g_encryption' \in BOOLEAN
    BY DEF SecConnect
  <2>2. secSession' \in 0 .. MaxSecSessions
    BY SecRecvConstants DEF SecConnect, SecInv, SecTypes
  <2>3. srv' \in [phase : Phases, frames : 0 .. MaxSecFrames, key : KeyType]
    BY <1>1 DEF SecConnect, Phases
  <2>4. /\ toClient' \in Seq(FrameType)
        /\ toServer' \in Seq([tag : {"info", "newrequest", "response"},
                              header : BOOLEAN])
    BY DEF SecConnect
  <2> QED
    BY <1>1, <2>1, <2>2, <2>3, <2>4, Zenon DEF SecConnect, SecResetState, SecInv, SecTypes
<1>3. Len(toClient') = 0 /\ Len(toServer') = 0
  BY DEF SecConnect
<1>4. toClient' = << >> /\ toServer' = << >> /\ licPc' = "idle"
  BY DEF SecConnect
<1> QED
  BY <1>2, <1>3, <1>4
  DEF SecConnect, SecResetState, SecInv, HeaderInv, KeyInv, PhaseInv, LicKeyInv,
      TakenInv, NoResult

(* What a PDU of the server adds to the connection. *)
LEMMA SendKeeps ==
    ASSUME SecInv, NEW kind \in Kinds, NEW encrypted \in {FALSE, g_encryption},
           NEW phase \in Phases, NEW frames \in 0 .. MaxSecFrames,
           SrvSends(kind, encrypted, phase, frames), licPc # "dead",
           UNCHANGED <<g_encryption, decrypt, licPc>>
    PROVE  /\ toClient' \in Seq(FrameType)
           /\ srv' \in [phase : Phases, frames : 0 .. MaxSecFrames, key : KeyType]
           /\ srv'.phase = phase /\ srv'.frames = frames
           /\ Len(toClient') = Len(toClient) + 1 /\ toClient' # << >>
           /\ \A i \in 1 .. Len(toClient) : toClient'[i] = toClient[i]
           /\ toClient'[Len(toClient) + 1].kind = kind
           /\ KeyInv'
           /\ \A i \in 1 .. Len(toClient') :
                 /\ toClient'[i].encrypted => g_encryption
                 /\ toClient'[i].header <=>
                       g_encryption \/ toClient'[i].kind \in Tags \cup {"heartbeat"}
<1> DEFINE f == Frame(kind, encrypted)
<1>1. SecTypes
  BY DEF SecInv
<1>2. g_encryption \in BOOLEAN /\ encrypted \in BOOLEAN /\ srv.key \in KeyType
  BY <1>1, Zenon DEF SecTypes
<1>3. /\ f \in FrameType /\ f.kind = kind /\ f.encrypted = encrypted
      /\ f.key = srv.key /\ (f.encrypted => g_encryption)
      /\ f.header <=> g_encryption \/ kind \in Tags \cup {"heartbeat"}
  BY <1>2, Zenon DEF Frame, FrameType
<1>4. toClient' = Append(toClient, f)
  BY DEF SrvSends
<1>5. srv' = [phase |-> phase, frames |-> frames, key |-> KeyAfter(f)]
  BY <1>3 DEF SrvSends, KeyAfter
<1>6. KeyAfter(f) \in KeyType
  BY <1>2, <1>3, UsedIsKey DEF KeyAfter
<1> HIDE DEF f
<1>7. /\ toClient' \in Seq(FrameType) /\ Len(toClient') = Len(toClient) + 1
      /\ \A i \in 1 .. Len(toClient) : toClient'[i] = toClient[i]
      /\ toClient'[Len(toClient) + 1] = f /\ toClient' # << >>
      /\ Len(toClient) \in Nat
  <2>1. toClient \in Seq(FrameType) /\ f \in FrameType
    BY <1>1, <1>3 DEF SecTypes
  <2> QED BY <1>4, <2>1
<1>8. \A i \in 1 .. Len(toClient') : i \in 1 .. Len(toClient) \/ i = Len(toClient) + 1
  BY <1>7
<1>9. KeyInv'
  <2> DEFINE n == Len(toClient)
  <2>1. toClient'[n + 1].key = srv.key /\ srv'.key = KeyAfter(toClient'[n + 1])
    BY <1>3, <1>5, <1>7
  <2>2. CASE toClient = << >>
    <3>1. n = 0
      BY <2>2
    <3>2. srv.key = decrypt
      BY <2>2 DEF SecInv, KeyInv
    <3> QED BY <1>7, <2>1, <3>1, <3>2 DEF KeyInv
  <2>3. CASE toClient # << >>
    <3>1. n >= 1
      BY <1>1, <2>3 DEF SecTypes
    <3>2. /\ toClient[1].key = decrypt /\ srv.key = KeyAfter(toClient[n])
          /\ \A i \in 1 .. n - 1 : toClient[i + 1].key = KeyAfter(toClient[i])
      BY <2>3 DEF SecInv, KeyInv
    <3>3. toClient'[1] = toClient[1] /\ toClient'[n] = toClient[n]
      BY <1>7, <3>1
    <3> HIDE DEF n
    <3>4. ASSUME NEW i \in 1 .. Len(toClient') - 1
          PROVE  toClient'[i + 1].key = KeyAfter(toClient'[i])
      <4>1. CASE i = n
        BY <2>1, <3>2, <3>3, <4>1
      <4>2. CASE i # n
        <5>1. i \in 1 .. n - 1 /\ i \in 1 .. n /\ i + 1 \in 1 .. n
          BY <1>7, <3>1, <4>2 DEF n
        <5> QED BY <1>7, <3>2, <5>1 DEF n
      <4> QED BY <4>1, <4>2
    <3> QED BY <1>7, <2>1, <3>2, <3>3, <3>4 DEF KeyInv, n
  <2> QED BY <2>2, <2>3
<1> QED
  BY <1>3, <1>5, <1>6, <1>7, <1>8, <1>9 DEF SecInv, HeaderInv

(* Data follow the PDU that ended licensing. *)
LEMMA SrvDataKeeps ==
    SecInv => \A kind \in Kinds \ Tags : SrvData(kind) => SecInv'
<1> SUFFICES ASSUME SecInv, NEW kind \in Kinds \ Tags, SrvData(kind)
             PROVE  SecInv'
  OBVIOUS
<1>1. /\ srv.phase = "licensed" /\ srv.frames < MaxSecFrames
      /\ SrvSends(kind, g_encryption, "licensed", srv.frames + 1)
      /\ UNCHANGED <<flagVars, decrypt, licenceVars, toServer, secSession, taken>>
  BY DEF SrvData
<1>2. SecTypes /\ PhaseInv /\ licPc # "dead"
  BY <1>1, SecRecvConstants DEF SecInv, PhaseInv
<1>3. /\ srv.frames + 1 \in 0 .. MaxSecFrames /\ g_encryption \in {FALSE, g_encryption}
      /\ "licensed" \in Phases /\ kind \in Kinds
  BY <1>1, <1>2, SecRecvConstants DEF SecTypes, Phases
<1>4. UNCHANGED <<g_encryption, decrypt, licPc>>
  BY <1>1 DEF flagVars, licenceVars
<1>5. /\ toClient' \in Seq(FrameType)
      /\ srv' \in [phase : Phases, frames : 0 .. MaxSecFrames, key : KeyType]
      /\ srv'.phase = "licensed"
      /\ Len(toClient') = Len(toClient) + 1 /\ toClient' # << >>
      /\ \A i \in 1 .. Len(toClient) : toClient'[i] = toClient[i]
      /\ toClient'[Len(toClient) + 1].kind = kind
      /\ KeyInv'
      /\ \A i \in 1 .. Len(toClient') :
            /\ toClient'[i].encrypted => g_encryption
            /\ toClient'[i].header <=>
                  g_encryption \/ toClient'[i].kind \in Tags \cup {"heartbeat"}
  BY <1>1, <1>2, <1>3, <1>4, SendKeeps, Zenon
<1>6. Len(toClient) \in Nat
  BY <1>2 DEF SecTypes
<1>7. \A i \in 1 .. Len(toClient') :
          i \in 1 .. Len(toClient) \/ toClient'[i].kind = kind
  BY <1>5, <1>6
<1>8. HeaderInv'
  BY <1>1, <1>5, Zenon DEF flagVars, SecInv, HeaderInv
<1>9. PhaseInv'
  <2>1. toClient = << >> => Len(toClient) = 0
    OBVIOUS
  <2>2. toClient # << >> => 1 \in 1 .. Len(toClient)
    BY <1>2 DEF SecTypes
  <2>3. (toClient = << >> /\ srv.frames = MaxSecFrames) => FALSE
    BY <1>1, <1>2 DEF SecTypes
  <2>4. NoResult' <=> NoResult
    BY <1>1 DEF NoResult, flagVars
  <2>5. \/ /\ NoResult /\ toClient # << >>
           /\ toClient[1].kind \in {"new", "valid", "error"}
           /\ \A i \in 2 .. Len(toClient) : toClient[i].kind \notin Tags
        \/ ~NoResult /\ \A i \in 1 .. Len(toClient) : toClient[i].kind \notin Tags
    BY <1>1, <1>2, <2>3 DEF PhaseInv
  <2>6. \/ /\ NoResult' /\ toClient' # << >>
           /\ toClient'[1].kind \in {"new", "valid", "error"}
           /\ \A i \in 2 .. Len(toClient') : toClient'[i].kind \notin Tags
        \/ ~NoResult' /\ \A i \in 1 .. Len(toClient') : toClient'[i].kind \notin Tags
    BY <1>5, <1>6, <1>7, <2>2, <2>4, <2>5
  <2> QED BY <1>2, <1>4, <1>5, <2>6 DEF PhaseInv
<1>10. LicKeyInv'
  BY <1>1, <1>5, <1>6, <1>7 DEF licenceVars, SecInv, LicKeyInv, Tags
<1>11. SecTypes'
  BY <1>1, <1>2, <1>5 DEF SecTypes, flagVars, licenceVars
<1> QED
  BY <1>1, <1>5, <1>8, <1>9, <1>10, <1>11 DEF SecInv, TakenInv, licenceVars

(* The server goes on with licensing when the client has read all. *)
LEMMA SrvLicenceKeeps == SecInv /\ SrvLicence => SecInv'
<1> SUFFICES ASSUME SecInv, SrvLicence PROVE SecInv'
  OBVIOUS
<1> DEFINE msg == IF srv.phase = "start" THEN "start" ELSE Head(toServer).tag
           Next_(tag) == IF tag \in {"request", "challenge"} THEN "waiting"
                         ELSE "licensed"
           MsgType == [tag : {"info", "newrequest", "response"}, header : BOOLEAN]
<1>1. /\ toClient = << >>
      /\ UNCHANGED <<flagVars, decrypt, licenceVars, secSession, taken>>
      /\ \/ srv.phase = "start" /\ UNCHANGED toServer
         \/ srv.phase = "waiting" /\ toServer # << >> /\ toServer' = Tail(toServer)
  BY DEF SrvLicence
<1>2. PICK tag \in Replies(msg), encrypted \in {FALSE, g_encryption} :
          SrvSends(tag, encrypted, Next_(tag), 0)
  BY Zenon DEF SrvLicence
<1>3. SecTypes /\ PhaseInv /\ LicKeyInv /\ licPc # "dead" /\ NoResult
  BY <1>1 DEF SecInv, PhaseInv
<1>4. toServer \in Seq(MsgType)
  BY <1>3 DEF SecTypes
<1>5. /\ toServer' \in Seq(MsgType)
      /\ \A i \in 1 .. Len(toServer') : toServer'[i].header
  <2>1. \A i \in 1 .. Len(toServer) : toServer[i].header
    BY DEF SecInv, HeaderInv
  <2> HIDE DEF MsgType
  <2>2. CASE toServer' = toServer
    BY <1>4, <2>1, <2>2
  <2>3. CASE toServer # << >> /\ toServer' = Tail(toServer)
    <3>1. /\ toServer' \in Seq(MsgType) /\ Len(toServer') = Len(toServer) - 1
          /\ Len(toServer) \in Nat
          /\ \A i \in 1 .. Len(toServer') : toServer'[i] = toServer[i + 1]
      BY <1>4, <2>3
    <3> QED BY <2>1, <3>1
  <2> QED BY <1>1, <2>2, <2>3
<1>6. /\ tag \in Tags
      /\ srv.phase = "start" => tag \in {"request", "valid", "error"}
  <2>1. CASE srv.phase = "start"
    BY <1>2, <2>1 DEF Replies, Tags
  <2>2. CASE srv.phase # "start"
    <3>1. Head(toServer) \in MsgType
      <4> HIDE DEF MsgType
      <4> QED BY <1>1, <1>4, <2>2
    <3>2. msg \in {"info", "newrequest", "response"}
      BY <2>2, <3>1
    <3> HIDE DEF msg
    <3> QED BY <1>2, <2>2, <3>2 DEF Replies, Tags
  <2> QED BY <2>1, <2>2
<1>7. tag \in Kinds /\ Next_(tag) \in Phases /\ 0 \in 0 .. MaxSecFrames
  BY <1>6, SecRecvConstants DEF Kinds, Phases
<1>8. UNCHANGED <<g_encryption, decrypt, licPc>>
  BY <1>1 DEF flagVars, licenceVars
<1> HIDE DEF msg, Next_
<1>9. /\ toClient' \in Seq(FrameType)
      /\ srv' \in [phase : Phases, frames : 0 .. MaxSecFrames, key : KeyType]
      /\ srv'.phase = Next_(tag)
      /\ Len(toClient') = Len(toClient) + 1 /\ toClient' # << >>
      /\ toClient'[Len(toClient) + 1].kind = tag
      /\ KeyInv'
      /\ \A i \in 1 .. Len(toClient') :
            /\ toClient'[i].encrypted => g_encryption
            /\ toClient'[i].header <=>
                  g_encryption \/ toClient'[i].kind \in Tags \cup {"heartbeat"}
  <2> DEFINE ph == Next_(tag)
             z == 0
  <2>1. /\ SecInv /\ tag \in Kinds /\ encrypted \in {FALSE, g_encryption}
        /\ ph \in Phases /\ z \in 0 .. MaxSecFrames /\ licPc # "dead"
        /\ SrvSends(tag, encrypted, ph, z) /\ UNCHANGED <<g_encryption, decrypt, licPc>>
    BY <1>2, <1>3, <1>7, <1>8
  <2> HIDE DEF ph, z
  <2>2. /\ toClient' \in Seq(FrameType)
        /\ srv' \in [phase : Phases, frames : 0 .. MaxSecFrames, key : KeyType]
        /\ srv'.phase = ph
        /\ Len(toClient') = Len(toClient) + 1 /\ toClient' # << >>
        /\ toClient'[Len(toClient) + 1].kind = tag
        /\ KeyInv'
        /\ \A i \in 1 .. Len(toClient') :
              /\ toClient'[i].encrypted => g_encryption
              /\ toClient'[i].header <=>
                    g_encryption \/ toClient'[i].kind \in Tags \cup {"heartbeat"}
    BY <2>1, SendKeeps
  <2> QED BY <2>2 DEF ph
<1>10. Len(toClient') = 1 /\ toClient'[1].kind = tag
  <2>1. Len(toClient) = 0
    BY <1>1
  <2> QED BY <1>9, <2>1
<1>11. HeaderInv'
  BY <1>5, <1>8, <1>9 DEF HeaderInv
<1>12. PhaseInv'
  <2>1. NoResult'
    BY <1>1, <1>3 DEF NoResult, flagVars
  <2>2. srv'.phase = IF tag \in {"request", "challenge"} THEN "waiting" ELSE "licensed"
    BY <1>9 DEF Next_
  <2>3. licPc' # "dead"
    BY <1>3, <1>8
  <2>4. \A i \in 2 .. Len(toClient') : FALSE
    BY <1>10
  <2>5. CASE tag \in {"request", "challenge"}
    BY <1>9, <1>10, <2>1, <2>2, <2>3, <2>5, Zenon DEF PhaseInv
  <2>6. CASE tag \in {"new", "valid", "error"}
    BY <1>9, <1>10, <2>1, <2>2, <2>3, <2>4, <2>6 DEF PhaseInv
  <2> QED BY <1>6, <2>5, <2>6 DEF Tags
<1>13. LicKeyInv'
  <2>1. tag \in {"new", "challenge"} => toServer # << >>
    BY <1>1, <1>6
  <2>2. toServer' # << >> => toServer # << >>
    BY <1>1, <1>4
  <2> QED BY <1>1, <1>3, <1>10, <2>1, <2>2 DEF LicKeyInv, licenceVars
<1>14. SecTypes'
  BY <1>1, <1>3, <1>5, <1>9 DEF SecTypes, flagVars, licenceVars
<1> QED
  BY <1>1, <1>9, <1>11, <1>12, <1>13, <1>14 DEF SecInv, TakenInv, licenceVars

-----------------------------------------------------------------------------
(* sec_recv *)

(* What taking one PDU off the connection does: the next key on the          *)
(* connection is again the client's.                                         *)
LEMMA TakeKeeps ==
    ASSUME SecInv, toClient # << >>, licPc = "idle",
           decrypt' = KeyAfter([Head(toClient) EXCEPT !.key = decrypt]),
           toClient' = Tail(toClient), UNCHANGED <<g_encryption, srv>>
    PROVE  /\ Head(toClient) = toClient[1] /\ toClient[1] \in FrameType
           /\ toClient[1].key = decrypt
           /\ toClient' \in Seq(FrameType) /\ decrypt' \in KeyType
           /\ Len(toClient) \in Nat \ {0} /\ Len(toClient') = Len(toClient) - 1
           /\ \A i \in 1 .. Len(toClient') :
                  toClient'[i] = toClient[i + 1] /\ i + 1 \in 2 .. Len(toClient)
           /\ toClient' # << >> => Len(toClient) >= 2
           /\ KeyInv'
           /\ \A i \in 1 .. Len(toClient') :
                 /\ toClient'[i].encrypted => g_encryption'
                 /\ toClient'[i].header <=>
                       g_encryption' \/ toClient'[i].kind \in Tags \cup {"heartbeat"}
<1> DEFINE n == Len(toClient)
<1>1. SecTypes /\ toClient \in Seq(FrameType)
  BY DEF SecInv, SecTypes
<1>2. /\ Head(toClient) = toClient[1] /\ toClient[1] \in FrameType
      /\ toClient' \in Seq(FrameType) /\ n \in Nat \ {0} /\ Len(toClient') = n - 1
      /\ \A i \in 1 .. Len(toClient') : toClient'[i] = toClient[i + 1]
      /\ toClient' # << >> => n >= 2
  BY <1>1
<1>3. /\ toClient[1].key = decrypt /\ srv.key = KeyAfter(toClient[n])
      /\ \A i \in 1 .. n - 1 : toClient[i + 1].key = KeyAfter(toClient[i])
  BY DEF SecInv, KeyInv
<1>4. [Head(toClient) EXCEPT !.key = decrypt] = toClient[1]
  BY <1>2, <1>3 DEF FrameType
<1>5. decrypt' = KeyAfter(toClient[1])
  BY <1>4
<1>6. decrypt' \in KeyType
  BY <1>2, <1>5, UsedIsKey DEF KeyAfter, FrameType
<1>7. \A i \in 1 .. Len(toClient') : i + 1 \in 2 .. n /\ i + 1 \in 1 .. n
  BY <1>2
<1>8. KeyInv'
  <2>1. CASE toClient' = << >>
    <3>0. Len(toClient') = 0
      BY <1>2, <2>1, Zenon
    <3>1. n = 1 /\ Len(toClient') = 0
      BY <1>2, <3>0
    <3> QED BY <1>3, <1>5, <2>1, <3>1 DEF KeyInv
  <2>2. CASE toClient' # << >>
    <3>1. n >= 2 /\ Len(toClient') = n - 1
      BY <1>2, <2>2
    <3>2. toClient'[1] = toClient[2] /\ toClient[2].key = KeyAfter(toClient[1])
      <4>1. 1 \in 1 .. Len(toClient') /\ 1 \in 1 .. n - 1 /\ 1 + 1 = 2
        BY <3>1
      <4>2. toClient'[1] = toClient[1 + 1] /\ toClient[1 + 1].key = KeyAfter(toClient[1])
        BY <1>2, <1>3, <4>1, Zenon
      <4> QED BY <4>1, <4>2
    <3>3. toClient'[n - 1] = toClient[n]
      BY <1>2, <3>1
    <3> HIDE DEF n
    <3>4. ASSUME NEW i \in 1 .. Len(toClient') - 1
          PROVE  toClient'[i + 1].key = KeyAfter(toClient'[i])
      <4>1. /\ i + 1 \in 1 .. n - 1 /\ i \in 1 .. Len(toClient')
            /\ i + 1 \in 1 .. Len(toClient')
        BY <1>2, <3>1
      <4> QED BY <1>2, <1>3, <4>1
    <3> QED BY <1>3, <1>5, <2>2, <3>1, <3>2, <3>3, <3>4, Zenon DEF KeyInv
  <2> QED BY <2>1, <2>2
<1> QED BY <1>2, <1>3, <1>6, <1>7, <1>8 DEF SecInv, HeaderInv

(* A PDU that a handler took was read with its header and its key.           *)
LEMMA ReceiveGives ==
    ASSUME SecInv, NEW kinds \in SUBSET Kinds, Receive(kinds),
           UNCHANGED <<g_encryption, srv>>
    PROVE  /\ toClient # << >> /\ licPc = "idle" /\ toClient[1].kind \in kinds
           /\ decrypt' = KeyAfter([Head(toClient) EXCEPT !.key = decrypt])
           /\ toClient' = Tail(toClient)
           /\ TakenInv' /\ taken'.kind = toClient[1].kind
<1>1. toClient # << >> /\ licPc = "idle" /\ toClient' = Tail(toClient)
  BY DEF Receive
<1>2. toClient \in Seq(FrameType)
  BY DEF SecInv, SecTypes
<1>3. Head(toClient) = toClient[1] /\ toClient[1] \in FrameType
  BY <1>1, <1>2
<1>4. toClient[1].key = decrypt
  BY <1>1 DEF SecInv, KeyInv
<1> DEFINE f == Head(toClient)
<1>5. /\ f.kind \in kinds
      /\ decrypt' = IF f.encrypted THEN Used(decrypt) ELSE decrypt
      /\ taken' = [kind |-> f.kind, misread |-> FALSE, tls |-> ~g_encryption,
                   instep |-> f.encrypted =>
                                f.encrypted /\ Used(f.key) = Used(decrypt)]
  BY DEF Receive, Decrypted, Decrypts
<1>6. decrypt' = KeyAfter([f EXCEPT !.key = decrypt])
  BY <1>3, <1>5 DEF KeyAfter, FrameType
<1>7. taken'.instep /\ ~taken'.misread /\ taken'.kind = f.kind
  BY <1>3, <1>4, <1>5, Zenon
<1> QED BY <1>1, <1>3, <1>5, <1>6, <1>7 DEF TakenInv

(* RecvMisread only reads a heartbeat over TLS, which is not encrypted. *)
LEMMA MisreadKeeps == SecInv /\ RecvMisread => SecInv'
<1> SUFFICES ASSUME SecInv, RecvMisread PROVE SecInv'
  OBVIOUS
<1> DEFINE f == Head(toClient)
<1>1. /\ toClient # << >> /\ licPc = "idle" /\ toClient' = Tail(toClient)
      /\ f.kind # "fast" /\ f.header # ExpectsHeader
      /\ taken' = [kind |-> f.kind, misread |-> TRUE, tls |-> ~g_encryption,
                   instep |-> TRUE]
      /\ UNCHANGED <<flagVars, decrypt, licenceVars, srv, toServer, secSession>>
  BY DEF RecvMisread
<1>2. SecTypes /\ PhaseInv /\ HeaderInv /\ LicKeyInv
  BY DEF SecInv
<1>3. f = toClient[1] /\ f \in FrameType /\ 1 \in 1 .. Len(toClient)
  BY <1>1, <1>2 DEF SecTypes
<1>4. f.header <=> g_encryption \/ f.kind \in Tags \cup {"heartbeat"}
  BY <1>2, <1>3 DEF HeaderInv
<1>5. ~NoResult /\ f.kind \notin Tags
  <2>1. f.header \in BOOLEAN /\ ExpectsHeader \in BOOLEAN
        /\ (ExpectsHeader <=> g_encryption \/ NoResult)
    BY <1>3 DEF FrameType, ExpectsHeader, NoResult
  <2>2. CASE NoResult
    <3>1. f.kind \in Tags
      BY <1>1, <1>2, <1>3, <2>2 DEF PhaseInv, Phases, SecTypes, Tags
    <3> QED BY <1>1, <1>4, <2>1, <2>2, <3>1, Zenon
  <2>3. CASE ~NoResult
    <3>1. f.kind \notin Tags
      BY <1>1, <1>2, <1>3, <2>3 DEF PhaseInv, Phases, SecTypes
    <3> QED BY <2>3, <3>1
  <2> QED BY <2>2, <2>3
<1>6. f.kind = "heartbeat" /\ ~g_encryption
  BY <1>1, <1>3, <1>4, <1>5 DEF ExpectsHeader, NoResult, FrameType
<1>7. ~f.encrypted
  BY <1>2, <1>3, <1>6 DEF HeaderInv
<1>8. decrypt' = KeyAfter([Head(toClient) EXCEPT !.key = decrypt])
  BY <1>1, <1>3, <1>7 DEF KeyAfter, FrameType
<1>9. /\ toClient' \in Seq(FrameType) /\ Len(toClient') = Len(toClient) - 1
      /\ Len(toClient) \in Nat \ {0}
      /\ \A i \in 1 .. Len(toClient') :
             toClient'[i] = toClient[i + 1] /\ i + 1 \in 2 .. Len(toClient)
      /\ KeyInv'
      /\ \A i \in 1 .. Len(toClient') :
            /\ toClient'[i].encrypted => g_encryption'
            /\ toClient'[i].header <=>
                  g_encryption' \/ toClient'[i].kind \in Tags \cup {"heartbeat"}
  BY <1>1, <1>8, TakeKeeps DEF flagVars
<1>10. HeaderInv'
  BY <1>1, <1>2, <1>9 DEF HeaderInv
<1>11. PhaseInv'
  <2>1. srv.phase = "licensed" /\ \A i \in 1 .. Len(toClient) : toClient[i].kind \notin Tags
    BY <1>1, <1>2, <1>5 DEF PhaseInv, Phases, SecTypes
  <2>2. NoResult' <=> NoResult
    BY <1>1 DEF NoResult, flagVars
  <2>3. \A i \in 1 .. Len(toClient') : toClient'[i].kind \notin Tags
    BY <1>9, <2>1
  <2> QED BY <1>1, <1>5, <2>1, <2>2, <2>3 DEF PhaseInv, licenceVars
<1>12. LicKeyInv'
  BY <1>1, <1>2, <1>9 DEF LicKeyInv, licenceVars
<1>13. SecTypes'
  BY <1>1, <1>2, <1>9 DEF SecTypes, flagVars, licenceVars
<1>14. TakenInv'
  BY <1>1, <1>6, Zenon DEF TakenInv
<1> QED
  BY <1>1, <1>9, <1>10, <1>11, <1>12, <1>13, <1>14 DEF SecInv, licenceVars

(* What is common to the branches that take a PDU as it was meant. *)
LEMMA HandledKeeps ==
    ASSUME SecInv, NEW kinds \in SUBSET Kinds, Receive(kinds),
           UNCHANGED <<g_encryption, srv>>
    PROVE  /\ toClient # << >> /\ licPc = "idle" /\ toClient[1].kind \in kinds
           /\ TakenInv' /\ taken'.kind = toClient[1].kind
           /\ toClient' \in Seq(FrameType) /\ decrypt' \in KeyType
           /\ Len(toClient) \in Nat \ {0} /\ Len(toClient') = Len(toClient) - 1
           /\ \A i \in 1 .. Len(toClient') :
                  toClient'[i] = toClient[i + 1] /\ i + 1 \in 2 .. Len(toClient)
           /\ toClient' # << >> => Len(toClient) >= 2
           /\ KeyInv'
           /\ \A i \in 1 .. Len(toClient') :
                 /\ toClient'[i].encrypted => g_encryption'
                 /\ toClient'[i].header <=>
                       g_encryption' \/ toClient'[i].kind \in Tags \cup {"heartbeat"}
<1>1. /\ toClient # << >> /\ licPc = "idle" /\ toClient[1].kind \in kinds
      /\ decrypt' = KeyAfter([Head(toClient) EXCEPT !.key = decrypt])
      /\ toClient' = Tail(toClient)
      /\ TakenInv' /\ taken'.kind = toClient[1].kind
  BY ReceiveGives
<1> QED BY <1>1, TakeKeeps

(* Channel data, heartbeats and fast-path updates leave licensing alone. *)
LEMMA OtherKeeps == SecInv /\ RecvOther => SecInv'
<1> SUFFICES ASSUME SecInv, RecvOther PROVE SecInv'
  OBVIOUS
<1>1. /\ Receive(Kinds \ Tags)
      /\ UNCHANGED <<flagVars, licenceVars, srv, toServer, secSession>>
  BY DEF RecvOther
<1>2. SecTypes /\ PhaseInv /\ HeaderInv /\ LicKeyInv
  BY DEF SecInv
<1>3. /\ toClient # << >> /\ licPc = "idle" /\ toClient[1].kind \notin Tags
      /\ TakenInv'
      /\ toClient' \in Seq(FrameType) /\ decrypt' \in KeyType
      /\ Len(toClient) \in Nat \ {0} /\ Len(toClient') = Len(toClient) - 1
      /\ \A i \in 1 .. Len(toClient') :
             toClient'[i] = toClient[i + 1] /\ i + 1 \in 2 .. Len(toClient)
      /\ KeyInv'
      /\ \A i \in 1 .. Len(toClient') :
            /\ toClient'[i].encrypted => g_encryption'
            /\ toClient'[i].header <=>
                  g_encryption' \/ toClient'[i].kind \in Tags \cup {"heartbeat"}
  <2>1. Kinds \ Tags \in SUBSET Kinds
    OBVIOUS
  <2>2. UNCHANGED <<g_encryption, srv>>
    BY <1>1 DEF flagVars
  <2> QED BY <1>1, <2>1, <2>2, HandledKeeps
<1>4. HeaderInv'
  BY <1>1, <1>2, <1>3 DEF HeaderInv
<1>5. PhaseInv'
  <2>1. /\ srv.phase = "licensed" /\ ~NoResult
        /\ \A i \in 1 .. Len(toClient) : toClient[i].kind \notin Tags
    BY <1>2, <1>3 DEF PhaseInv, Phases, SecTypes, Tags
  <2>2. NoResult' <=> NoResult
    BY <1>1 DEF NoResult, flagVars
  <2>3. \A i \in 1 .. Len(toClient') : toClient'[i].kind \notin Tags
    BY <1>3, <2>1
  <2> QED BY <1>1, <1>3, <2>1, <2>2, <2>3 DEF PhaseInv, licenceVars
<1>6. LicKeyInv'
  <2>1. UNCHANGED <<licKey, licTmp, licPc, toServer, secSession>>
    BY <1>1 DEF licenceVars
  <2>2. \A i \in 1 .. Len(toClient') : toClient'[i].kind \in {"new", "challenge"} => licKey = secSession
    <3> SUFFICES ASSUME NEW i \in 1 .. Len(toClient'), toClient'[i].kind \in {"new", "challenge"}
                 PROVE  licKey = secSession
      OBVIOUS
    <3>1. toClient'[i] = toClient[i + 1] /\ i + 1 \in 1 .. Len(toClient)
      BY <1>3
    <3> QED BY <1>2, <3>1, Zenon DEF LicKeyInv
  <2> QED BY <1>2, <2>1, <2>2, Zenon DEF LicKeyInv
<1>7. SecTypes'
  BY <1>1, <1>2, <1>3 DEF SecTypes, flagVars, licenceVars
<1> QED
  BY <1>1, <1>3, <1>4, <1>5, <1>6, <1>7 DEF SecInv, licenceVars

-----------------------------------------------------------------------------
(* The licence PDUs and save_licence *)

(* A licence reply leaves with a header as long as licensing has no result. *)
LEMMA ReplyKeeps ==
    ASSUME SecInv, NoResult, NEW tag \in {"info", "newrequest", "response"},
           SendLicence(tag)
    PROVE  /\ toServer' \in Seq([tag : {"info", "newrequest", "response"},
                                 header : BOOLEAN])
           /\ \A i \in 1 .. Len(toServer') : toServer'[i].header
<1> DEFINE MsgType == [tag : {"info", "newrequest", "response"}, header : BOOLEAN]
           m == [tag |-> tag,
                 header |-> ~g_licence_issued /\ ~g_licence_error_result]
<1>1. toServer \in Seq(MsgType) /\ \A i \in 1 .. Len(toServer) : toServer[i].header
  BY DEF SecInv, SecTypes, HeaderInv
<1>2. m \in MsgType /\ m.header
  BY Zenon DEF NoResult
<1>3. toServer' = Append(toServer, m)
  BY DEF SendLicence
<1> HIDE DEF MsgType, m
<1>4. /\ toServer' \in Seq(MsgType) /\ Len(toServer') = Len(toServer) + 1
      /\ Len(toServer) \in Nat /\ toServer'[Len(toServer) + 1] = m
      /\ \A i \in 1 .. Len(toServer) : toServer'[i] = toServer[i]
  BY <1>1, <1>2, <1>3
<1>5. \A i \in 1 .. Len(toServer') : i \in 1 .. Len(toServer) \/ i = Len(toServer) + 1
  BY <1>4
<1>6. \A i \in 1 .. Len(toServer') : toServer'[i].header
  BY <1>1, <1>2, <1>4, <1>5
<1> QED BY <1>4, <1>6 DEF MsgType

(* Requests and challenges, which are answered. *)
LEMMA AskedKeeps == SecInv /\ (LicenceRequest \/ LicenceChallenge) => SecInv'
<1> SUFFICES ASSUME SecInv, LicenceRequest \/ LicenceChallenge PROVE SecInv'
  OBVIOUS
<1>1. PICK kinds \in {{"request"}, {"challenge"}},
           tag \in {"info", "newrequest", "response"} :
          /\ Receive(kinds) /\ SendLicence(tag)
          /\ licKey' = IF kinds = {"request"} THEN secSession ELSE licKey
          /\ UNCHANGED <<flagVars, licFile, licTmp, licPc, srv, secSession>>
  <2>1. CASE LicenceRequest
    BY <2>1 DEF LicenceRequest, LicenceKeys, LicenceInfo, NewLicenceRequest
  <2>2. CASE LicenceChallenge
    BY <2>2 DEF LicenceChallenge, licenceVars
  <2> QED BY <2>1, <2>2
<1>2. SecTypes /\ PhaseInv /\ HeaderInv /\ LicKeyInv
  BY DEF SecInv
<1>3. /\ toClient # << >> /\ licPc = "idle" /\ toClient[1].kind \in kinds
      /\ TakenInv'
      /\ toClient' \in Seq(FrameType) /\ decrypt' \in KeyType
      /\ Len(toClient) \in Nat \ {0} /\ Len(toClient') = Len(toClient) - 1
      /\ KeyInv'
      /\ \A i \in 1 .. Len(toClient') :
            /\ toClient'[i].encrypted => g_encryption'
            /\ toClient'[i].header <=>
                  g_encryption' \/ toClient'[i].kind \in Tags \cup {"heartbeat"}
  <2>1. kinds \in SUBSET Kinds
    BY DEF Kinds, Tags
  <2>2. UNCHANGED <<g_encryption, srv>>
    BY <1>1 DEF flagVars
  <2> QED BY <1>1, <2>1, <2>2, HandledKeeps
<1>4. srv.phase = "waiting" /\ NoResult /\ Len(toClient) = 1
  <2>1. toClient[1].kind \in {"request", "challenge"}
    BY <1>1, <1>3
  <2>2. 1 \in 1 .. Len(toClient)
    BY <1>3
  <2>3. srv.phase \in Phases
    BY <1>2 DEF SecTypes
  <2> QED BY <1>2, <1>3, <2>1, <2>2, <2>3 DEF PhaseInv, Phases, Tags
<1>5. Len(toClient') = 0 /\ toClient' = << >>
  BY <1>3, <1>4
<1>6. /\ toServer' \in Seq([tag : {"info", "newrequest", "response"}, header : BOOLEAN])
      /\ \A i \in 1 .. Len(toServer') : toServer'[i].header
  BY <1>1, <1>4, ReplyKeeps
<1>7. licKey' = secSession
  <2>1. CASE kinds = {"request"}
    BY <1>1, <2>1
  <2>2. CASE kinds = {"challenge"}
    <3>1. toClient[1].kind = "challenge" /\ 1 \in 1 .. Len(toClient)
      BY <1>3, <2>2
    <3> QED BY <1>1, <1>2, <2>2, <3>1 DEF LicKeyInv
  <2> QED BY <1>1, <2>1, <2>2
<1>8. HeaderInv'
  BY <1>3, <1>6, Zenon DEF HeaderInv
<1>9. PhaseInv'
  <2>1. NoResult' /\ srv'.phase = "waiting" /\ licPc' # "dead"
    BY <1>1, <1>3, <1>4 DEF NoResult, flagVars
  <2> QED BY <1>5, <2>1 DEF PhaseInv
<1>10. LicKeyInv'
  BY <1>1, <1>2, <1>3, <1>7 DEF LicKeyInv
<1>11. SecTypes'
  BY <1>1, <1>2, <1>3, <1>6, <1>7 DEF SecTypes, flagVars
<1> QED
  BY <1>1, <1>3, <1>8, <1>9, <1>10, <1>11 DEF SecInv

(* A new licence or an alert ends licensing on this side as it did on the    *)
(* server's.                                                                 *)
LEMMA ResultKeeps == SecInv /\ (LicenceNew \/ LicenceErrorAlert) => SecInv'
<1> SUFFICES ASSUME SecInv, LicenceNew \/ LicenceErrorAlert PROVE SecInv'
  OBVIOUS
<1>1. PICK kinds \in {{"new"}, {"valid", "error"}} :
          /\ Receive(kinds)
          /\ g_licence_issued' \in BOOLEAN /\ g_licence_error_result' \in BOOLEAN
          /\ ~NoResult'
          /\ \/ licPc' = licPc /\ licTmp' = licTmp
             \/ licPc' = "opened" /\ licTmp' = Torn /\ kinds = {"new"}
          /\ UNCHANGED <<g_encryption, licKey, licFile, srv, toServer, secSession>>
  <2>0. g_licence_issued \in BOOLEAN /\ g_licence_error_result \in BOOLEAN
    BY DEF SecInv, SecTypes
  <2>1. CASE LicenceNew
    BY <2>0, <2>1 DEF LicenceNew, NoResult
  <2>2. CASE LicenceErrorAlert
    <3>1. /\ Receive({"valid", "error"})
          /\ UNCHANGED <<g_encryption, licKey, licFile, licTmp, licPc, srv,
                         toServer, secSession>>
      BY <2>2 DEF LicenceErrorAlert, licenceVars
    <3>2. /\ g_licence_issued' \in BOOLEAN /\ g_licence_error_result' \in BOOLEAN
          /\ ~NoResult'
      BY <2>0, <2>2, Zenon DEF LicenceErrorAlert, NoResult
    <3> QED BY <3>1, <3>2
  <2> QED BY <2>1, <2>2
<1>2. SecTypes /\ PhaseInv /\ HeaderInv /\ LicKeyInv
  BY DEF SecInv
<1>3. /\ toClient # << >> /\ licPc = "idle" /\ toClient[1].kind \in kinds
      /\ TakenInv'
      /\ toClient' \in Seq(FrameType) /\ decrypt' \in KeyType
      /\ Len(toClient) \in Nat \ {0} /\ Len(toClient') = Len(toClient) - 1
      /\ \A i \in 1 .. Len(toClient') :
             toClient'[i] = toClient[i + 1] /\ i + 1 \in 2 .. Len(toClient)
      /\ KeyInv'
      /\ \A i \in 1 .. Len(toClient') :
            /\ toClient'[i].encrypted => g_encryption'
            /\ toClient'[i].header <=>
                  g_encryption' \/ toClient'[i].kind \in Tags \cup {"heartbeat"}
  <2>1. kinds \in SUBSET Kinds
    BY DEF Kinds, Tags
  <2> QED BY <1>1, <2>1, HandledKeeps, Zenon
<1>4. /\ srv.phase = "licensed" /\ NoResult
      /\ \A i \in 2 .. Len(toClient) : toClient[i].kind \notin Tags
  <2>1. toClient[1].kind \in {"new", "valid", "error"}
    BY <1>1, <1>3
  <2>2. 1 \in 1 .. Len(toClient)
    BY <1>3
  <2>3. srv.phase \in Phases
    BY <1>2 DEF SecTypes
  <2> QED BY <1>2, <1>3, <2>1, <2>2, <2>3 DEF PhaseInv, Phases, Tags
<1>5. \A i \in 1 .. Len(toClient') : toClient'[i].kind \notin Tags
  BY <1>3, <1>4
<1>6. kinds = {"new"} => licKey = secSession
  <2>1. 1 \in 1 .. Len(toClient)
    BY <1>3
  <2> QED BY <1>2, <1>3, <2>1 DEF LicKeyInv
<1>7. licPc' # "dead" /\ licPc' # "written"
  BY <1>1, <1>3
<1>8. HeaderInv'
  BY <1>1, <1>2, <1>3, Zenon DEF HeaderInv
<1>9. PhaseInv'
  BY <1>1, <1>4, <1>5, <1>7 DEF PhaseInv
<1>10. LicKeyInv'
  <2>1. licPc' = "opened" => licKey = secSession
    BY <1>1, <1>3, <1>6
  <2>2. \A i \in 1 .. Len(toClient') : toClient'[i].kind \notin {"new", "challenge"}
    BY <1>5 DEF Tags
  <2> QED BY <1>1, <1>2, <1>7, <2>1, <2>2 DEF LicKeyInv
<1>11. SecTypes'
  <2>1. licTmp' \in NoLicence .. Torn
    BY <1>1, <1>2, SecRecvConstants DEF SecTypes, NoLicence, Torn
  <2> QED BY <1>1, <1>2, <1>3, <2>1 DEF SecTypes
<1> QED
  BY <1>1, <1>3, <1>8, <1>9, <1>10, <1>11 DEF SecInv

(* save_licence writes what it opened with the keys of this exchange, and a  *)
(* crash inside it leaves the file as it was.                                *)
LEMMA SaveKeeps == SecInv /\ (SaveWrite \/ SaveRename \/ SecCrash) => SecInv'
<1> SUFFICES ASSUME SecInv, SaveWrite \/ SaveRename \/ SecCrash PROVE SecInv'
  OBVIOUS
<1>1. SecTypes /\ HeaderInv /\ KeyInv /\ PhaseInv /\ LicKeyInv /\ TakenInv /\ licFile # Torn
  BY DEF SecInv
<1>2. NoLicence \in NoLicence .. Torn /\ licKey # Torn /\ licKey \in NoLicence .. Torn
  BY <1>1, SecRecvConstants DEF SecTypes, NoLicence, Torn
<1>3. CASE SaveWrite
  <2>1. /\ licPc = "opened" /\ licPc' \in {"written", "idle"}
        /\ licTmp' \in {licKey, NoLicence} /\ (licPc' = "written" => licTmp' = licKey)
        /\ UNCHANGED <<g_encryption, g_licence_issued, g_licence_error_result, decrypt,
                       licKey, licFile, srv, toClient, toServer, secSession, taken>>
    BY <1>1, <1>3 DEF SaveWrite, Opened, LicKeyInv, flagVars
  <2>2. SecTypes'
    BY <1>1, <1>2, <2>1 DEF SecTypes
  <2>3. HeaderInv' /\ TakenInv' /\ licFile' # Torn
    BY <1>1, <2>1 DEF HeaderInv, TakenInv
  <2>4. KeyInv' /\ PhaseInv' /\ LicKeyInv'
    BY <1>1, <1>2, <2>1 DEF KeyInv, PhaseInv, LicKeyInv, NoResult, KeyAfter, Used
  <2> QED BY <2>2, <2>3, <2>4 DEF SecInv
<1>4. CASE SaveRename
  <2>1. /\ licPc = "written" /\ licPc' = "idle" /\ licTmp' = NoLicence
        /\ licFile' \in {licTmp, licFile}
        /\ UNCHANGED <<g_encryption, g_licence_issued, g_licence_error_result, decrypt,
                       licKey, srv, toClient, toServer, secSession, taken>>
    BY <1>4 DEF SaveRename, flagVars
  <2>2. SecTypes'
    BY <1>1, <1>2, <2>1 DEF SecTypes
  <2>3. HeaderInv' /\ TakenInv' /\ licFile' # Torn
    BY <1>1, <2>1 DEF HeaderInv, TakenInv, LicKeyInv
  <2>4. KeyInv' /\ PhaseInv' /\ LicKeyInv'
    BY <1>1, <1>2, <2>1 DEF KeyInv, PhaseInv, LicKeyInv, NoResult, KeyAfter, Used
  <2> QED BY <2>2, <2>3, <2>4 DEF SecInv
<1>5. CASE SecCrash
  <2>1. /\ licPc' = "dead" /\ licKey' = 0
        /\ g_licence_issued' = FALSE /\ g_licence_error_result' = FALSE
        /\ srv' = [srv EXCEPT !.phase = "licensed", !.frames = MaxSecFrames]
        /\ toClient' = << >> /\ toServer' = << >>
        /\ UNCHANGED <<g_encryption, decrypt, licFile, licTmp, secSession, taken>>
    BY <1>5 DEF SecCrash
  <2>2. /\ srv' \in [phase : Phases, frames : 0 .. MaxSecFrames, key : KeyType]
        /\ srv'.phase = "licensed" /\ srv'.frames = MaxSecFrames
    <3>1. srv \in [phase : Phases, frames : 0 .. MaxSecFrames, key : KeyType]
      BY <1>1 DEF SecTypes
    <3>2. "licensed" \in Phases /\ MaxSecFrames \in 0 .. MaxSecFrames
      BY SecRecvConstants DEF Phases
    <3> QED BY <2>1, <3>1, <3>2, Zenon
  <2>3. Len(toClient') = 0 /\ Len(toServer') = 0
    BY <2>1
  <2>4. SecTypes'
    <3>1. /\ toClient' \in Seq(FrameType)
          /\ toServer' \in Seq([tag : {"info", "newrequest", "response"},
                                header : BOOLEAN])
      BY <2>1
    <3>2. 0 \in 0 .. MaxSecSessions
      BY SecRecvConstants
    <3> QED BY <1>1, <2>1, <2>2, <3>1, <3>2, Zenon DEF SecTypes
  <2>5. HeaderInv' /\ TakenInv' /\ licFile' # Torn /\ KeyInv'
    BY <1>1, <2>1, <2>3 DEF HeaderInv, TakenInv, KeyInv
  <2>6. PhaseInv' /\ LicKeyInv'
    BY <2>1, <2>2, <2>3 DEF PhaseInv, LicKeyInv
  <2> QED BY <2>4, <2>5, <2>6 DEF SecInv
<1> QED BY <1>3, <1>4, <1>5

(* Every step of the security layer keeps the invariant. *)
LEMMA SecStep == SecInv /\ [SecRecvNext]_secVars => SecInv'
<1> SUFFICES ASSUME SecInv, [SecRecvNext]_secVars PROVE SecInv'
  OBVIOUS
<1>1. CASE UNCHANGED secVars
  BY <1>1 DEF secVars, SecInv, SecTypes, HeaderInv, KeyInv, KeyAfter, Used, PhaseInv,
              NoResult, LicKeyInv, TakenInv
<1>2. CASE SecRecvNext
  BY <1>2, SecConnectKeeps, SrvLicenceKeeps, SrvDataKeeps, MisreadKeeps, OtherKeeps,
     AskedKeeps, ResultKeeps, SaveKeeps
  DEF SecRecvNext, SecRecvStep
<1> QED BY <1>1, <1>2

-----------------------------------------------------------------------------
(* The messages that end on the wire (channels.c) *)

(* What a chunk adds to the messages that end on the wire. *)
Adds(s, k, c) ==
    IF k.channel = c /\ k.last
    THEN Append(s, Content(k.piece[1], k.piece[2])) ELSE s

(* f is the function that Completed computes, up to the n-th chunk. *)
IsWhole(f, w, c, n) ==
    f = [i \in 0 .. n |-> IF i = 0 THEN << >> ELSE Adds(f[i - 1], w[i], c)]

(* The recursion of Completed defines a function for a wire of any length. *)
LEMMA WholeExists ==
    ASSUME NEW w, NEW c PROVE \A n \in Nat : \E f : IsWhole(f, w, c, n)
<1> DEFINE S == {n \in Nat : \E f : IsWhole(f, w, c, n)}
<1>1. 0 \in S
  <2> DEFINE f == [i \in 0 .. 0 |-> << >>]
  <2>1. f = [i \in 0 .. 0 |-> IF i = 0 THEN << >> ELSE Adds(f[i - 1], w[i], c)]
    OBVIOUS
  <2> QED BY <2>1, Zenon DEF IsWhole
<1>2. ASSUME NEW n \in Nat, n \in S PROVE n + 1 \in S
  <2>1. PICK f : IsWhole(f, w, c, n)
    BY <1>2
  <2> DEFINE g == [i \in 0 .. n + 1 |-> IF i = n + 1 THEN Adds(f[n], w[n + 1], c) ELSE f[i]]
  <2>2. \A i \in 0 .. n : f[i] = IF i = 0 THEN << >> ELSE Adds(f[i - 1], w[i], c)
    BY <2>1 DEF IsWhole
  <2>3. ASSUME NEW i \in 0 .. n + 1
        PROVE  g[i] = IF i = 0 THEN << >> ELSE Adds(g[i - 1], w[i], c)
    <3>1. CASE i = n + 1
      <4>1. g[i] = Adds(f[n], w[i], c) /\ g[i - 1] = f[n] /\ i # 0
        BY <3>1
      <4> QED BY <4>1
    <3>2. CASE i # n + 1
      <4>1. g[i] = f[i] /\ i \in 0 .. n /\ (i # 0 => g[i - 1] = f[i - 1])
        BY <3>2
      <4> QED BY <2>2, <4>1
    <3> QED BY <3>1, <3>2
  <2>4. g = [i \in 0 .. n + 1 |-> g[i]]
    OBVIOUS
  <2> HIDE DEF g
  <2>5. IsWhole(g, w, c, n + 1)
    BY <2>3, <2>4 DEF IsWhole
  <2>6. n + 1 \in Nat
    OBVIOUS
  <2> QED BY <2>5, <2>6
<1> HIDE DEF S
<1>3. Nat \subseteq S
  BY <1>1, <1>2, Induct
<1> QED BY <1>3 DEF S

(* Completed is that function at the end of the wire. *)
LEMMA CompletedIs ==
    ASSUME NEW w, NEW c, Len(w) \in Nat
    PROVE \E f : IsWhole(f, w, c, Len(w)) /\ Completed(w, c) = f[Len(w)]
<1> DEFINE n == Len(w)
    P(f) == f = [i \in 0 .. n |->
            IF i = 0 THEN << >>
            ELSE IF w[i].channel = c /\ w[i].last
            THEN Append(f[i - 1], Content(w[i].piece[1], w[i].piece[2]))
            ELSE f[i - 1]]
    g == CHOOSE f : P(f)
<1>1. Completed(w, c) = g[n]
  BY DEF Completed
<1>2. \A f : P(f) <=> IsWhole(f, w, c, n)
  BY DEF IsWhole, Adds
<1>3. \E f : P(f)
  BY <1>2, WholeExists, Zenon
<1>4. P(g)
  BY <1>3, Zenon
<1> HIDE DEF P, g
<1> QED BY <1>1, <1>2, <1>4

(* It depends only on the chunks up to its argument. *)
LEMMA WholeAgree ==
    ASSUME NEW w, NEW v, NEW c, NEW n, NEW m, NEW f, NEW g,
           n \in Nat, m \in Nat, n < m,
           IsWhole(f, w, c, n), IsWhole(g, v, c, m),
           \A i \in 1 .. n : v[i] = w[i]
    PROVE  \A i \in 0 .. n : g[i] = f[i]
<1> DEFINE S == {i \in Nat : i <= n => g[i] = f[i]}
<1>1. \A i \in 0 .. n : f[i] = IF i = 0 THEN << >> ELSE Adds(f[i - 1], w[i], c)
  BY DEF IsWhole
<1>2. \A i \in 0 .. m : g[i] = IF i = 0 THEN << >> ELSE Adds(g[i - 1], v[i], c)
  BY DEF IsWhole
<1>3. 0 \in S
  BY <1>1, <1>2
<1>4. ASSUME NEW i \in Nat, i \in S PROVE i + 1 \in S
  <2> SUFFICES ASSUME i + 1 <= n PROVE g[i + 1] = f[i + 1]
    OBVIOUS
  <2>1. g[i] = f[i] /\ i + 1 \in 1 .. n /\ i + 1 \in 0 .. m /\ i + 1 \in 0 .. n
        /\ (i + 1) - 1 = i
    BY <1>4
  <2>2. f[i + 1] = Adds(f[i], w[i + 1], c) /\ g[i + 1] = Adds(g[i], v[i + 1], c)
    BY <1>1, <1>2, <2>1
  <2> QED BY <2>1, <2>2
<1> HIDE DEF S
<1>5. Nat \subseteq S
  BY <1>3, <1>4, Induct
<1> QED BY <1>5 DEF S

(* Its values are sequences of messages. *)
LEMMA WholeSeq ==
    ASSUME NEW w, NEW c, NEW n \in Nat, NEW f, IsWhole(f, w, c, n), NEW T,
           \A i \in 1 .. n : Content(w[i].piece[1], w[i].piece[2]) \in T
    PROVE  \A i \in 0 .. n : f[i] \in Seq(T)
<1> DEFINE S == {i \in Nat : i <= n => f[i] \in Seq(T)}
<1>1. \A i \in 0 .. n : f[i] = IF i = 0 THEN << >> ELSE Adds(f[i - 1], w[i], c)
  BY DEF IsWhole
<1>2. 0 \in S
  <2>1. f[0] = << >> /\ << >> \in Seq(T)
    BY <1>1
  <2> QED BY <2>1, Zenon
<1>3. ASSUME NEW i \in Nat, i \in S PROVE i + 1 \in S
  <2> SUFFICES ASSUME i + 1 <= n PROVE f[i + 1] \in Seq(T)
    OBVIOUS
  <2>1. f[i] \in Seq(T) /\ i + 1 \in 1 .. n /\ i + 1 \in 0 .. n /\ (i + 1) - 1 = i
    BY <1>3
  <2>2. f[i + 1] = Adds(f[i], w[i + 1], c)
    BY <1>1, <2>1
  <2>3. Content(w[i + 1].piece[1], w[i + 1].piece[2]) \in T
    BY <2>1
  <2> QED BY <2>1, <2>2, <2>3 DEF Adds
<1> HIDE DEF S
<1>4. Nat \subseteq S
  BY <1>2, <1>3, Induct
<1> QED BY <1>4 DEF S

(* No message ends on an empty wire. *)
LEMMA CompletedEmpty == \A c : Completed(<< >>, c) = << >>
<1> SUFFICES ASSUME NEW c PROVE Completed(<< >>, c) = << >>
  OBVIOUS
<1>1. PICK f : IsWhole(f, << >>, c, 0) /\ Completed(<< >>, c) = f[0]
  BY CompletedIs
<1> QED BY <1>1 DEF IsWhole

(* A chunk that is sent adds its message when it is the last one. *)
LEMMA CompletedAppend ==
    ASSUME NEW U, NEW w \in Seq(U), NEW k \in U, NEW c
    PROVE  Completed(Append(w, k), c) = Adds(Completed(w, c), k, c)
<1> DEFINE n == Len(w)
           v == Append(w, k)
<1>1. /\ n \in Nat /\ Len(v) = n + 1 /\ v[n + 1] = k
      /\ \A i \in 1 .. n : v[i] = w[i]
  OBVIOUS
<1> HIDE DEF n, v
<1>2. PICK f : IsWhole(f, w, c, n) /\ Completed(w, c) = f[n]
  BY <1>1, CompletedIs DEF n
<1>3. PICK g : IsWhole(g, v, c, n + 1) /\ Completed(v, c) = g[n + 1]
  BY <1>1, CompletedIs
<1>5. g[n] = f[n]
  <2> DEFINE m == n + 1
  <2>1. n \in Nat /\ m \in Nat /\ n < m /\ IsWhole(g, v, c, m)
    BY <1>1, <1>3
  <2> HIDE DEF m
  <2>2. \A i \in 0 .. n : g[i] = f[i]
    BY <1>1, <1>2, <2>1, WholeAgree
  <2> QED BY <1>1, <2>2
<1>6. g[n + 1] = Adds(g[n], v[n + 1], c)
  <2>1. \A i \in 0 .. n + 1 : g[i] = IF i = 0 THEN << >> ELSE Adds(g[i - 1], v[i], c)
    BY <1>3, Zenon DEF IsWhole
  <2>2. n + 1 \in 0 .. n + 1 /\ n + 1 # 0 /\ (n + 1) - 1 = n
    BY <1>1
  <2> QED BY <2>1, <2>2
<1> QED BY <1>1, <1>2, <1>3, <1>5, <1>6 DEF v

(* A chunk that is taken off the wire takes its message when it is the last. *)
LEMMA CompletedTail ==
    ASSUME NEW U, NEW w \in Seq(U), w # << >>, NEW c
    PROVE  IF Head(w).channel = c /\ Head(w).last
           THEN /\ Completed(w, c) # << >>
                /\ Head(Completed(w, c))
                       = Content(Head(w).piece[1], Head(w).piece[2])
                /\ Completed(Tail(w), c) = Tail(Completed(w, c))
           ELSE Completed(Tail(w), c) = Completed(w, c)
<1> DEFINE n == Len(w) - 1
           v == Tail(w)
           body(k) == Content(k.piece[1], k.piece[2])
           T == {body(w[i]) : i \in 1 .. n + 1}
           ends == w[1].channel = c /\ w[1].last
<1>1. /\ n \in Nat /\ Len(w) = n + 1 /\ Len(v) = n /\ Head(w) = w[1]
      /\ \A i \in 1 .. n : v[i] = w[i + 1]
  OBVIOUS
<1>2. \A i \in 1 .. n + 1 : body(w[i]) \in T
  OBVIOUS
<1> HIDE DEF n, v, T, body
<1>3. PICK f : IsWhole(f, w, c, n + 1) /\ Completed(w, c) = f[n + 1]
  BY <1>1, CompletedIs
<1>4. PICK g : IsWhole(g, v, c, n) /\ Completed(v, c) = g[n]
  BY <1>1, CompletedIs
<1>5. \A i \in 0 .. n + 1 : f[i] \in Seq(T)
  <2>1. n + 1 \in Nat
    BY <1>1
  <2> QED BY <1>2, <1>3, <2>1, WholeSeq, Zenon DEF body
<1>6. \A i \in 0 .. n + 1 : f[i] = IF i = 0 THEN << >> ELSE Adds(f[i - 1], w[i], c)
  BY <1>3, Zenon DEF IsWhole
<1>7. \A i \in 0 .. n : g[i] = IF i = 0 THEN << >> ELSE Adds(g[i - 1], v[i], c)
  BY <1>4, Zenon DEF IsWhole
<1> DEFINE Moved(i) == IF ends THEN /\ f[i + 1] # << >> /\ Head(f[i + 1]) = body(w[1])
                                    /\ Tail(f[i + 1]) = g[i]
                       ELSE f[i + 1] = g[i]
           S == {i \in Nat : i <= n => Moved(i)}
<1>8. 0 \in S
  <2>1. f[0] = << >> /\ g[0] = << >> /\ f[1] = Adds(f[0], w[1], c)
    BY <1>1, <1>6, <1>7
  <2>2. CASE ends
    <3>1. f[1] = Append(<< >>, body(w[1]))
      BY <2>1, <2>2 DEF Adds, body
    <3>2. f[1] = <<body(w[1])>>
      BY <3>1
    <3>3. f[1] # << >> /\ Head(f[1]) = body(w[1]) /\ Tail(f[1]) = << >>
      BY <3>2
    <3>4. f[0 + 1] = f[1]
      OBVIOUS
    <3> QED BY <2>1, <2>2, <3>3, <3>4, Zenon
  <2>3. CASE ~ends
    BY <2>1, <2>3 DEF Adds
  <2> QED BY <2>2, <2>3
<1>9. ASSUME NEW i \in Nat, i \in S PROVE i + 1 \in S
  <2> SUFFICES ASSUME i + 1 <= n PROVE Moved(i + 1)
    OBVIOUS
  <2>1. /\ Moved(i) /\ i + 1 \in 1 .. n /\ i + 1 \in 0 .. n /\ (i + 1) - 1 = i
        /\ (i + 1) + 1 \in 1 .. n + 1 /\ (i + 1) + 1 \in 0 .. n + 1 /\ i + 1 \in 0 .. n + 1
        /\ (i + 1) + 1 # 0 /\ i + 1 # 0 /\ ((i + 1) + 1) - 1 = i + 1
    BY <1>1, <1>9
  <2> DEFINE k == w[(i + 1) + 1]
  <2>2. f[(i + 1) + 1] = Adds(f[i + 1], k, c) /\ g[i + 1] = Adds(g[i], k, c)
    BY <1>1, <1>6, <1>7, <2>1
  <2>3. f[i + 1] \in Seq(T) /\ body(k) \in T
    BY <1>2, <1>5, <2>1
  <2>4. CASE ~ends
    BY <2>1, <2>2, <2>4
  <2>5. CASE ends
    <3>1. f[i + 1] # << >> /\ Head(f[i + 1]) = body(w[1]) /\ Tail(f[i + 1]) = g[i]
      BY <2>1, <2>5
    <3>2. CASE k.channel = c /\ k.last
      <4>1. f[(i + 1) + 1] = Append(f[i + 1], body(k)) /\ g[i + 1] = Append(g[i], body(k))
        BY <2>2, <3>2, Zenon DEF Adds, body
      <4> DEFINE s == f[i + 1]
                 b == body(k)
      <4>2. Append(s, b) # << >> /\ Head(Append(s, b)) = Head(s)
            /\ Tail(Append(s, b)) = Append(Tail(s), b)
        <5> HIDE DEF s, b
        <5>1. s \in Seq(T) /\ b \in T /\ s # << >>
          BY <2>3, <3>1 DEF s, b
        <5> QED BY <5>1
      <4> QED BY <2>5, <3>1, <4>1, <4>2, Zenon
    <3>3. CASE ~(k.channel = c /\ k.last)
      <4>1. f[(i + 1) + 1] = f[i + 1] /\ g[i + 1] = g[i]
        BY <2>2, <3>3 DEF Adds
      <4> QED BY <2>5, <3>1, <4>1
    <3> QED BY <3>2, <3>3
  <2> QED BY <2>4, <2>5
<1> HIDE DEF S
<1>10. Nat \subseteq S
  BY <1>8, <1>9, Induct
<1>11. Moved(n)
  BY <1>1, <1>10 DEF S
<1> QED BY <1>1, <1>3, <1>4, <1>11, Zenon DEF v, body

-----------------------------------------------------------------------------
(* Virtual channels (channels.c) *)

Piece == (1 .. MaxMessages) \X (1 .. MaxPieces)
Chunk == [channel : Channels, piece : Piece, first : BOOLEAN, last : BOOLEAN]

ChTypes ==
    /\ started \in BOOLEAN
    /\ g_channels \in Seq(Channels)
    /\ Len(g_channels) <= MAX_CHANNELS /\ IsInjective(g_channels)
    /\ chIn \in [Channels -> Seq(Piece)]
    /\ wire \in Seq(Chunk)
    /\ sending \in [Channels -> Seq(Piece)]
    /\ nsent \in 0 .. MaxMessages /\ nlost \in 0 .. MaxLost

(* What comes from the server: nothing before the loop, chunks that say      *)
(* whether they begin a message, and the rest of a message piece by piece.   *)
SenderInv ==
    /\ ~started => wire = << >> /\ \A c \in Channels : sending[c] = << >>
    /\ \A i \in 1 .. Len(wire) : wire[i].first <=> wire[i].piece[2] = 1
    /\ \A c \in Channels : \A q \in 1 .. Len(sending[c]) - 1 :
           sending[c][q + 1] = <<sending[c][q][1], sending[c][q][2] + 1>>

(* The buffer after a chunk that is not a message of its own. *)
Joined(k, s) == IF k.first THEN <<k.piece>> ELSE Append(s, k.piece)

(* b is what the buffer of channel c will hold after each chunk on the wire: *)
(* a chunk that continues a message finds the beginning of just this message *)
(* in the buffer, and so will the next one the server sends.                 *)
Buffers(c, b) ==
    /\ b[0] = chIn[c]
    /\ \A i \in 1 .. Len(wire) :
           b[i] = IF wire[i].channel = c /\ ~(wire[i].first /\ wire[i].last)
                  THEN Joined(wire[i], b[i - 1]) ELSE b[i - 1]
    /\ \A i \in 1 .. Len(wire) :
           wire[i].channel = c /\ ~wire[i].first =>
               b[i - 1] = Content(wire[i].piece[1], wire[i].piece[2] - 1)
    /\ sending[c] # << >> /\ sending[c][1][2] # 1 =>
           b[Len(wire)] = Content(sending[c][1][1], sending[c][1][2] - 1)

BufferInv == \A c \in Registered : \E b : Buffers(c, b)

ChInv == ChTypes /\ SenderInv /\ BufferInv

(* The invariant gives the types of the component. *)
LEMMA ChInvGives == ChInv => VChannelsTypeOK
<1> SUFFICES ASSUME ChInv PROVE VChannelsTypeOK
  OBVIOUS
<1>1. ChTypes
  BY DEF ChInv
<1>2. \A c \in Channels : chIn[c] \in Seq((1 .. MaxMessages) \X (1 .. MaxPieces))
  BY <1>1 DEF ChTypes, Piece
<1> QED BY <1>1, <1>2 DEF ChTypes, VChannelsTypeOK

(* A piece is a message and a place in it. *)
LEMMA PieceIs ==
    \A x \in Piece : \E m \in 1 .. MaxMessages, j \in 1 .. MaxPieces : x = <<m, j>>
BY DEF Piece

(* A message grows by its next piece. *)
LEMMA ContentGrows ==
    /\ \A m \in 1 .. MaxMessages, k \in 1 .. MaxPieces :
           Append(Content(m, k - 1), <<m, k>>) = Content(m, k)
    /\ \A m \in 1 .. MaxMessages : <<<<m, 1>>>> = Content(m, 1)
    /\ \A m \in 1 .. MaxMessages, k \in 0 .. MaxPieces :
           Content(m, k) \in Seq(Piece) /\ Len(Content(m, k)) = k
<1>1. MaxMessages \in Nat /\ MaxPieces \in Nat
  BY VChannelsConstants
<1>2. ASSUME NEW m \in 1 .. MaxMessages, NEW k \in 0 .. MaxPieces
      PROVE  Content(m, k) \in Seq(Piece) /\ Len(Content(m, k)) = k
  <2>1. k \in Nat /\ \A i \in 1 .. k : <<m, i>> \in Piece
    BY <1>1 DEF Piece
  <2>2. Content(m, k) \in [1 .. k -> Piece]
    BY <2>1 DEF Content
  <2> QED BY <2>1, <2>2
<1>3. ASSUME NEW m \in 1 .. MaxMessages, NEW k \in 1 .. MaxPieces
      PROVE  Append(Content(m, k - 1), <<m, k>>) = Content(m, k)
  <2> DEFINE s == Content(m, k - 1)
             u == Append(s, <<m, k>>)
             v == Content(m, k)
  <2>1. k - 1 \in 0 .. MaxPieces /\ k \in 0 .. MaxPieces /\ k \in Nat \ {0}
        /\ <<m, k>> \in Piece
    BY <1>1 DEF Piece
  <2>2. /\ s \in Seq(Piece) /\ Len(s) = k - 1
        /\ v \in Seq(Piece) /\ Len(v) = k
    BY <1>2, <2>1
  <2>3. /\ \A i \in 1 .. k - 1 : s[i] = <<m, i>>
        /\ \A i \in 1 .. k : v[i] = <<m, i>>
    BY DEF Content
  <2> HIDE DEF s, v
  <2>4. u \in Seq(Piece) /\ Len(u) = k
    BY <2>1, <2>2
  <2>5. ASSUME NEW i \in 1 .. k PROVE u[i] = v[i]
    <3>1. CASE i = k
      BY <2>1, <2>2, <2>3, <3>1
    <3>2. CASE i # k
      <4>1. i \in 1 .. k - 1
        BY <2>1, <3>2
      <4>2. u[i] = s[i]
        BY <2>1, <2>2, <4>1
      <4> QED BY <2>3, <4>1, <4>2, Zenon
    <3> QED BY <3>1, <3>2, Zenon
  <2> HIDE DEF u
  <2>6. u = v
    BY <2>2, <2>4, <2>5, SeqEqual
  <2> QED BY <2>6 DEF u, v, s
<1>4. \A m \in 1 .. MaxMessages : <<<<m, 1>>>> = Content(m, 1)
  BY DEF Content
<1> QED BY <1>2, <1>3, <1>4, Zenon

(* Only channels of the client are registered. *)
LEMMA RegisteredAreChannels == ChTypes => Registered \subseteq Channels
BY DEF ChTypes, Registered, Range

(* With nothing on the way the next chunk of every channel begins a message. *)
LEMMA NothingOnTheWay ==
    wire = << >> /\ (\A c \in Registered : sending[c] = << >>) => BufferInv
<1> SUFFICES ASSUME wire = << >>, NEW c \in Registered, sending[c] = << >>
             PROVE  \E b : Buffers(c, b)
  BY DEF BufferInv
<1> DEFINE b == [i \in 0 .. 0 |-> chIn[c]]
<1>1. b[0] = chIn[c] /\ Len(wire) = 0
  OBVIOUS
<1> HIDE DEF b
<1>2. Buffers(c, b)
  BY <1>1 DEF Buffers
<1> QED BY <1>2

(* No channel is registered and nothing is on the way. *)
LEMMA ChInitInv == VChannelsInit => ChInv
<1> SUFFICES ASSUME VChannelsInit PROVE ChInv
  OBVIOUS
<1>1. /\ wire = << >> /\ g_channels = << >> /\ started = FALSE
      /\ chIn = [c \in Channels |-> << >>] /\ sending = [c \in Channels |-> << >>]
      /\ nsent = 0 /\ nlost = 0
  BY DEF VChannelsInit
<1>2. ChTypes
  <2>1. 0 <= MAX_CHANNELS /\ 0 \in 0 .. MaxMessages /\ 0 \in 0 .. MaxLost
    BY VChannelsConstants
  <2>2. /\ g_channels \in Seq(Channels) /\ Len(g_channels) = 0
        /\ IsInjective(g_channels)
    BY <1>1 DEF IsInjective
  <2>3. chIn \in [Channels -> Seq(Piece)] /\ wire \in Seq(Chunk)
        /\ sending \in [Channels -> Seq(Piece)]
    BY <1>1
  <2> QED BY <1>1, <2>1, <2>2, <2>3, Zenon DEF ChTypes
<1>3. SenderInv
  BY <1>1 DEF SenderInv
<1>4. \A c \in Registered : sending[c] = << >>
  BY <1>1, <1>2, RegisteredAreChannels
<1> QED BY <1>1, <1>2, <1>3, <1>4, NothingOnTheWay DEF ChInv

(* A channel is registered before anything is sent. *)
LEMMA ChRegisterKeeps ==
    ChInv => \A c \in Channels : ChannelRegister(c) => ChInv'
<1> SUFFICES ASSUME ChInv, NEW c \in Channels, ChannelRegister(c) PROVE ChInv'
  OBVIOUS
<1>1. ChTypes /\ SenderInv
  BY DEF ChInv
<1>2. /\ ~started /\ c \notin Range(g_channels)
      /\ UNCHANGED <<started, chIn, chGot, wire, sending, nsent, nlost>>
      /\ \/ g_channels' = g_channels
         \/ Len(g_channels) < MAX_CHANNELS /\ g_channels' = Append(g_channels, c)
  BY <1>1, VChannelsConstants DEF ChannelRegister, ChTypes
<1>3. /\ g_channels' \in Seq(Channels) /\ Len(g_channels') <= MAX_CHANNELS
      /\ IsInjective(g_channels')
  <2>1. CASE g_channels' = g_channels
    BY <1>1, <2>1 DEF ChTypes
  <2>2. CASE Len(g_channels) < MAX_CHANNELS /\ g_channels' = Append(g_channels, c)
    <3> DEFINE n == Len(g_channels)
    <3>1. /\ g_channels \in Seq(Channels) /\ DOMAIN g_channels = 1 .. n /\ n \in Nat
          /\ IsInjective(g_channels) /\ n < MAX_CHANNELS
          /\ g_channels' \in Seq(Channels) /\ DOMAIN g_channels' = 1 .. n + 1
          /\ Len(g_channels') = n + 1 /\ g_channels'[n + 1] = c
          /\ \A i \in 1 .. n : g_channels'[i] = g_channels[i]
      BY <1>1, <2>2 DEF ChTypes
    <3>2. \A i \in 1 .. n : g_channels[i] # c
      BY <1>2, <3>1 DEF Range
    <3>3. n + 1 <= MAX_CHANNELS
      BY <3>1, VChannelsConstants
    <3> HIDE DEF n
    <3>4. ASSUME NEW i \in 1 .. n + 1, NEW j \in 1 .. n + 1,
                 g_channels'[i] = g_channels'[j]
          PROVE  i = j
      <4>1. (i \in 1 .. n \/ i = n + 1) /\ (j \in 1 .. n \/ j = n + 1)
        BY <3>1
      <4>2. \A a, b \in 1 .. n : g_channels[a] = g_channels[b] => a = b
        BY <3>1 DEF IsInjective
      <4> QED BY <3>1, <3>2, <3>4, <4>1, <4>2
    <3> QED BY <3>1, <3>3, <3>4 DEF IsInjective
  <2> QED BY <1>2, <2>1, <2>2
<1>4. ChTypes'
  BY <1>1, <1>2, <1>3 DEF ChTypes
<1>5. SenderInv'
  BY <1>1, <1>2 DEF SenderInv
<1>6. BufferInv'
  <2>1. wire' = << >> /\ \A d \in Channels : sending'[d] = << >>
    BY <1>1, <1>2 DEF SenderInv
  <2>2. Registered' \subseteq Channels
    BY <1>4 DEF ChTypes, Registered, Range
  <2>3. ASSUME NEW d \in Registered' PROVE (\E b : Buffers(d, b))'
    <3>1. PICK b : b[0] = chIn[d]
      <4>1. [i \in 0 .. 0 |-> chIn[d]][0] = chIn[d]
        OBVIOUS
      <4> QED BY <4>1, Zenon
    <3>2. b[0] = chIn'[d] /\ Len(wire') = 0 /\ sending'[d] = << >>
      BY <3>1, <1>2, <2>1, <2>2
    <3>3. Buffers(d, b)'
      BY <3>2 DEF Buffers
    <3> QED BY <3>3
  <2> QED BY <2>3 DEF BufferInv
<1> QED BY <1>4, <1>5, <1>6 DEF ChInv

(* A lost connection leaves half a message in the buffer, and nothing on the  *)
(* way that would continue it.                                                *)
LEMMA ReconnectKeeps == ChInv /\ Reconnect => ChInv'
<1> SUFFICES ASSUME ChInv, Reconnect PROVE ChInv'
  OBVIOUS
<1>1. /\ ChTypes /\ SenderInv /\ nlost < MaxLost /\ nlost' = nlost + 1
      /\ wire' = << >> /\ sending' = [c \in Channels |-> << >>]
      /\ UNCHANGED <<started, g_channels, chIn, chGot, nsent>>
  BY DEF ChInv, Reconnect
<1>2. ChTypes'
  <2>1. sending' \in [Channels -> Seq(Piece)] /\ wire' \in Seq(Chunk)
    BY <1>1
  <2>2. nlost' \in 0 .. MaxLost
    BY <1>1, VChannelsConstants DEF ChTypes
  <2> QED BY <1>1, <2>1, <2>2 DEF ChTypes
<1>3. SenderInv'
  <2>1. \A c \in Channels : sending'[c] = << >> /\ Len(sending'[c]) = 0
    BY <1>1
  <2>2. Len(wire') = 0
    BY <1>1
  <2> QED BY <1>1, <2>1, <2>2 DEF SenderInv
<1>4. BufferInv'
  <2>1. Registered' \subseteq Channels
    BY <1>2 DEF ChTypes, Registered, Range
  <2>2. ASSUME NEW d \in Registered' PROVE (\E b : Buffers(d, b))'
    <3>1. PICK b : b[0] = chIn[d]
      <4>1. [i \in 0 .. 0 |-> chIn[d]][0] = chIn[d]
        OBVIOUS
      <4> QED BY <4>1, Zenon
    <3>2. b[0] = chIn'[d] /\ Len(wire') = 0 /\ sending'[d] = << >>
      BY <3>1, <1>1, <2>1
    <3>3. Buffers(d, b)'
      BY <3>2 DEF Buffers
    <3> QED BY <3>3
  <2> QED BY <2>2 DEF BufferInv
<1> QED BY <1>2, <1>3, <1>4 DEF ChInv

(* The server begins a message, whose first chunk empties the buffer. *)
LEMMA BeginSendKeeps == ChInv => \A c \in Channels : BeginSend(c) => ChInv'
<1> SUFFICES ASSUME ChInv, NEW c \in Channels, BeginSend(c) PROVE ChInv'
  OBVIOUS
<1>1. PICK size \in 1 .. MaxPieces :
          sending' = [sending EXCEPT ![c] = Content(nsent', size)]
  BY Zenon DEF BeginSend
<1>2. /\ ChTypes /\ SenderInv /\ started /\ nsent < MaxMessages /\ nsent' = nsent + 1
      /\ UNCHANGED <<started, g_channels, chIn, chGot, wire, nlost>>
  BY DEF ChInv, BeginSend
<1> DEFINE m == nsent'
<1>3. m \in 1 .. MaxMessages /\ m \in 0 .. MaxMessages
  BY <1>2, VChannelsConstants DEF ChTypes
<1>4. size \in 0 .. MaxPieces /\ size \in Nat \ {0}
  BY VChannelsConstants
<1>5. /\ Content(m, size) \in Seq(Piece) /\ Len(Content(m, size)) = size
      /\ \A i \in 1 .. size : Content(m, size)[i] = <<m, i>>
  <2>1. Content(m, size) \in Seq(Piece) /\ Len(Content(m, size)) = size
    BY <1>3, <1>4, ContentGrows
  <2> QED BY <2>1 DEF Content
<1> HIDE DEF m
<1>6. \A d \in Channels : sending'[d] = IF d = c THEN Content(m, size) ELSE sending[d]
  BY <1>1, <1>2 DEF ChTypes, m
<1>7. sending' \in [Channels -> Seq(Piece)]
  BY <1>1, <1>2, <1>5 DEF ChTypes, m
<1>8. ChTypes'
  BY <1>2, <1>3, <1>7 DEF ChTypes, m
<1>9. SenderInv'
  <2>1. ASSUME NEW d \in Channels, NEW q \in 1 .. Len(sending'[d]) - 1
        PROVE  sending'[d][q + 1] = <<sending'[d][q][1], sending'[d][q][2] + 1>>
    <3>1. CASE d = c
      <4>1. sending'[d] = Content(m, size) /\ q \in 1 .. size /\ q + 1 \in 1 .. size
        BY <1>4, <1>5, <1>6, <2>1, <3>1
      <4> QED BY <1>5, <4>1
    <3>2. CASE d # c
      <4>1. sending'[d] = sending[d]
        BY <1>6, <3>2
      <4>2. sending[d][q + 1] = <<sending[d][q][1], sending[d][q][2] + 1>>
        <5>1. \A e \in Channels : \A r \in 1 .. Len(sending[e]) - 1 :
                  sending[e][r + 1] = <<sending[e][r][1], sending[e][r][2] + 1>>
          BY <1>2, Zenon DEF SenderInv
        <5>2. q \in 1 .. Len(sending[d]) - 1
          BY <2>1, <4>1, Zenon
        <5> QED BY <5>1, <5>2, Zenon
      <4> QED BY <4>1, <4>2, Zenon
    <3> QED BY <3>1, <3>2
  <2> QED BY <1>2, <2>1, Zenon DEF SenderInv
<1>10. BufferInv'
  <2>1. ASSUME NEW d \in Registered PROVE \E b : Buffers(d, b)'
    <3>1. PICK b : Buffers(d, b)
      BY DEF ChInv, BufferInv
    <3>2. d \in Channels
      BY <1>2, RegisteredAreChannels
    <3>3. sending'[d] # << >> /\ sending'[d][1][2] # 1 => sending'[d] = sending[d]
      <4>1. 1 \in 1 .. size
        BY <1>4
      <4> QED BY <1>5, <1>6, <3>2, <4>1
    <3>4. Buffers(d, b)'
      BY <1>2, <3>1, <3>3 DEF Buffers, Joined
    <3> QED BY <3>4
  <2>2. Registered' = Registered
    BY <1>2 DEF Registered
  <2> QED BY <2>1, <2>2 DEF BufferInv
<1> QED BY <1>8, <1>9, <1>10 DEF ChInv

(* The chunk that SendChunk(c) appends. *)
NextChunk(c) ==
    [channel |-> c, piece |-> Head(sending[c]),
     first |-> Head(sending[c])[2] = 1, last |-> Len(sending[c]) = 1]

(* What a chunk of the server adds to the wire. *)
LEMMA SendChunkAdds ==
    ASSUME ChInv, NEW c \in Channels, SendChunk(c)
    PROVE  /\ NextChunk(c) \in Chunk /\ NextChunk(c).channel = c
           /\ NextChunk(c).piece = sending[c][1] /\ sending[c][1] \in Piece
           /\ NextChunk(c).first <=> sending[c][1][2] = 1
           /\ NextChunk(c).last <=> Len(sending[c]) = 1
           /\ sending[c] # << >> /\ sending[c] \in Seq(Piece)
           /\ Len(sending[c]) \in Nat \ {0}
           /\ wire \in Seq(Chunk) /\ wire' = Append(wire, NextChunk(c))
           /\ wire' \in Seq(Chunk)
           /\ Len(wire) \in Nat /\ Len(wire') = Len(wire) + 1
           /\ wire'[Len(wire) + 1] = NextChunk(c)
           /\ \A i \in 1 .. Len(wire) : wire'[i] = wire[i]
           /\ sending' \in [Channels -> Seq(Piece)]
           /\ sending'[c] = Tail(sending[c])
           /\ \A d \in Channels \ {c} : sending'[d] = sending[d]
           /\ UNCHANGED <<started, g_channels, chIn, chGot, nsent, nlost>>
<1>1. ChTypes
  BY DEF ChInv
<1>2. sending[c] # << >> /\ sending[c] \in Seq(Piece) /\ wire \in Seq(Chunk)
  BY <1>1 DEF ChTypes, SendChunk
<1>3. /\ Head(sending[c]) = sending[c][1] /\ sending[c][1] \in Piece
      /\ Len(sending[c]) \in Nat \ {0} /\ Tail(sending[c]) \in Seq(Piece)
  BY <1>2
<1>4. NextChunk(c) \in Chunk
  BY <1>3 DEF NextChunk, Chunk
<1>5. /\ wire' = Append(wire, NextChunk(c))
      /\ sending' = [sending EXCEPT ![c] = Tail(@)]
      /\ UNCHANGED <<started, g_channels, chIn, chGot, nsent, nlost>>
  BY DEF SendChunk, NextChunk
<1>6. /\ sending' \in [Channels -> Seq(Piece)] /\ sending'[c] = Tail(sending[c])
      /\ \A d \in Channels \ {c} : sending'[d] = sending[d]
  BY <1>1, <1>3, <1>5 DEF ChTypes
<1>7. /\ NextChunk(c).channel = c /\ NextChunk(c).piece = sending[c][1]
      /\ NextChunk(c).first <=> sending[c][1][2] = 1
      /\ NextChunk(c).last <=> Len(sending[c]) = 1
  BY <1>3, Zenon DEF NextChunk
<1>8. /\ wire' \in Seq(Chunk) /\ Len(wire) \in Nat /\ Len(wire') = Len(wire) + 1
      /\ wire'[Len(wire) + 1] = NextChunk(c)
      /\ \A i \in 1 .. Len(wire) : wire'[i] = wire[i]
  BY <1>2, <1>4, <1>5
<1> QED BY <1>2, <1>3, <1>4, <1>5, <1>6, <1>7, <1>8

(* A chunk continues the message of the chunk before it on its channel. *)
LEMMA SendChunkKeeps == ChInv => \A c \in Channels : SendChunk(c) => ChInv'
<1> SUFFICES ASSUME ChInv, NEW c \in Channels, SendChunk(c) PROVE ChInv'
  OBVIOUS
<1> DEFINE n == Len(wire)
           k == NextChunk(c)
           s == sending[c]
<1>1. ChTypes /\ SenderInv
  BY DEF ChInv
<1>2. /\ k \in Chunk /\ k.channel = c /\ k.piece = s[1] /\ s[1] \in Piece
      /\ k.first <=> s[1][2] = 1
      /\ k.last <=> Len(s) = 1
      /\ s # << >> /\ s \in Seq(Piece) /\ Len(s) \in Nat \ {0}
      /\ wire' \in Seq(Chunk) /\ n \in Nat /\ Len(wire') = n + 1 /\ wire'[n + 1] = k
      /\ \A i \in 1 .. n : wire'[i] = wire[i]
      /\ sending' \in [Channels -> Seq(Piece)]
      /\ sending'[c] = Tail(s)
      /\ \A d \in Channels \ {c} : sending'[d] = sending[d]
      /\ UNCHANGED <<started, g_channels, chIn, chGot, nsent, nlost>>
  BY SendChunkAdds
<1>3. started /\ started'
  BY <1>1, <1>2 DEF ChTypes, SenderInv
<1>4. \A q \in 1 .. Len(s) - 1 : s[q + 1] = <<s[q][1], s[q][2] + 1>>
  BY <1>1 DEF SenderInv
<1> HIDE DEF n, k, s
<1>5. /\ Tail(s) \in Seq(Piece) /\ Len(Tail(s)) = Len(s) - 1
      /\ \A q \in 1 .. Len(s) - 1 : Tail(s)[q] = s[q + 1]
  BY <1>2
<1>6. \A i \in 1 .. n + 1 : i \in 1 .. n \/ i = n + 1
  BY <1>2
<1>7. ChTypes'
  BY <1>1, <1>2, Zenon DEF ChTypes
<1>8. SenderInv'
  <2>1. \A i \in 1 .. Len(wire') : wire'[i].first <=> wire'[i].piece[2] = 1
    BY <1>1, <1>2, <1>6 DEF SenderInv, n
  <2>2. ASSUME NEW d \in Channels, NEW q \in 1 .. Len(sending'[d]) - 1
        PROVE  sending'[d][q + 1] = <<sending'[d][q][1], sending'[d][q][2] + 1>>
    <3>1. CASE d = c
      <4>1. sending'[d] = Tail(s) /\ q \in 1 .. Len(s) - 1 /\ q + 1 \in 1 .. Len(s) - 1
        BY <1>2, <1>5, <2>2, <3>1
      <4> QED BY <1>4, <1>5, <4>1
    <3>2. CASE d # c
      <4>1. sending'[d] = sending[d]
        BY <1>2, <3>2
      <4> QED BY <1>1, <2>2, <4>1 DEF SenderInv
    <3> QED BY <3>1, <3>2
  <2> QED BY <1>3, <2>1, <2>2, Zenon DEF SenderInv
<1>9. ASSUME NEW d \in Registered PROVE \E b : Buffers(d, b)'
  <2>1. PICK b : Buffers(d, b)
    BY DEF ChInv, BufferInv
  <2>2. /\ b[0] = chIn[d]
        /\ \A i \in 1 .. n :
               b[i] = IF wire[i].channel = d /\ ~(wire[i].first /\ wire[i].last)
                      THEN Joined(wire[i], b[i - 1]) ELSE b[i - 1]
        /\ \A i \in 1 .. n :
               wire[i].channel = d /\ ~wire[i].first =>
                   b[i - 1] = Content(wire[i].piece[1], wire[i].piece[2] - 1)
        /\ sending[d] # << >> /\ sending[d][1][2] # 1 =>
               b[n] = Content(sending[d][1][1], sending[d][1][2] - 1)
    BY <2>1 DEF Buffers, n
  <2>3. d \in Channels
    BY <1>1, RegisteredAreChannels
  <2> DEFINE next == IF k.channel = d /\ ~(k.first /\ k.last)
                     THEN Joined(k, b[n]) ELSE b[n]
  <2>4. PICK e : e = [i \in 0 .. n + 1 |-> IF i = n + 1 THEN next ELSE b[i]]
    BY Zenon
  <2>5. /\ e[0] = b[0] /\ e[n + 1] = next /\ e[n] = b[n]
        /\ \A i \in 1 .. n : e[i] = b[i] /\ e[i - 1] = b[i - 1]
    <3>1. \A i \in 0 .. n : e[i] = b[i]
      BY <1>2, <2>4
    <3>2. 0 \in 0 .. n /\ n \in 0 .. n /\ n + 1 \in 0 .. n + 1
          /\ \A i \in 1 .. n : i \in 0 .. n /\ i - 1 \in 0 .. n
      BY <1>2
    <3> HIDE DEF next
    <3> QED BY <2>4, <3>1, <3>2
  <2>6. \A i \in 1 .. Len(wire') :
            e[i] = IF wire'[i].channel = d /\ ~(wire'[i].first /\ wire'[i].last)
                   THEN Joined(wire'[i], e[i - 1]) ELSE e[i - 1]
    <3>1. ASSUME NEW i \in 1 .. n
          PROVE  e[i] = IF wire'[i].channel = d /\ ~(wire'[i].first /\ wire'[i].last)
                        THEN Joined(wire'[i], e[i - 1]) ELSE e[i - 1]
      <4>1. wire'[i] = wire[i]
        BY <1>2, <3>1
      <4>2. e[i] = b[i] /\ e[i - 1] = b[i - 1]
        BY <2>5, <3>1
      <4> QED BY <2>2, <3>1, <4>1, <4>2, Zenon
    <3>2. e[n + 1] = IF k.channel = d /\ ~(k.first /\ k.last)
                     THEN Joined(k, e[(n + 1) - 1]) ELSE e[(n + 1) - 1]
      <4>1. (n + 1) - 1 = n
        BY <1>2
      <4> QED BY <2>5, <4>1
    <3> HIDE DEF next
    <3> QED BY <1>2, <1>6, <3>1, <3>2
  <2>7. \A i \in 1 .. Len(wire') :
            wire'[i].channel = d /\ ~wire'[i].first =>
                e[i - 1] = Content(wire'[i].piece[1], wire'[i].piece[2] - 1)
    <3>1. ASSUME NEW i \in 1 .. n, wire'[i].channel = d, ~wire'[i].first
          PROVE  e[i - 1] = Content(wire'[i].piece[1], wire'[i].piece[2] - 1)
      <4>1. wire'[i] = wire[i]
        BY <1>2, <3>1
      <4>2. e[i - 1] = b[i - 1]
        BY <2>5, <3>1
      <4>3. b[i - 1] = Content(wire[i].piece[1], wire[i].piece[2] - 1)
        BY <2>2, <3>1, <4>1, Zenon
      <4> QED BY <4>1, <4>2, <4>3, Zenon
    <3>2. ASSUME k.channel = d, ~k.first
          PROVE  e[(n + 1) - 1] = Content(k.piece[1], k.piece[2] - 1)
      <4>1. d = c /\ sending[d] = s /\ s[1][2] # 1
        BY <1>2, <3>2 DEF s
      <4>2. (n + 1) - 1 = n
        BY <1>2
      <4> QED BY <1>2, <2>2, <2>5, <4>1, <4>2
    <3> QED BY <1>2, <1>6, <3>1, <3>2
  <2>8. sending'[d] # << >> /\ sending'[d][1][2] # 1 =>
            e[n + 1] = Content(sending'[d][1][1], sending'[d][1][2] - 1)
    <3>1. CASE d # c
      <4>1. sending'[d] = sending[d] /\ e[n + 1] = e[n]
        BY <1>2, <2>3, <2>5, <3>1
      <4> QED BY <2>2, <2>5, <4>1
    <3>2. CASE d = c /\ Tail(s) = << >>
      BY <1>2, <3>2
    <3>3. CASE d = c /\ Tail(s) # << >>
      <4>1. Len(s) # 1 /\ 1 \in 1 .. Len(s) - 1
        BY <1>2, <1>5, <3>3
      <4>2. Tail(s)[1] = <<s[1][1], s[1][2] + 1>>
        <5>1. Tail(s)[1] = s[1 + 1] /\ s[1 + 1] = <<s[1][1], s[1][2] + 1>>
          BY <1>4, <1>5, <4>1
        <5> QED BY <5>1, Zenon
      <4>3. PICK m \in 1 .. MaxMessages, j \in 1 .. MaxPieces : s[1] = <<m, j>>
        BY <1>2, PieceIs, Zenon
      <4>4. s[1][1] = m /\ s[1][2] = j /\ (j + 1) - 1 = j
        BY <4>3, VChannelsConstants
      <4>5. e[n + 1] = Joined(k, b[n])
        BY <1>2, <2>5, <3>3, <4>1
      <4>6. Joined(k, b[n]) = Content(m, j)
        <5>1. CASE j = 1
          <6>1. k.first /\ k.piece = <<m, 1>>
            BY <1>2, <4>3, <4>4, <5>1
          <6> QED BY <5>1, <6>1, ContentGrows DEF Joined
        <5>2. CASE j # 1
          <6>1. b[n] = Content(m, j - 1)
            BY <1>2, <2>2, <3>3, <4>4, <5>2 DEF s
          <6>2. ~k.first /\ k.piece = <<m, j>>
            BY <1>2, <4>3, <4>4, <5>2
          <6>3. Append(Content(m, j - 1), <<m, j>>) = Content(m, j)
            BY ContentGrows, Zenon
          <6> QED BY <6>1, <6>2, <6>3 DEF Joined
        <5> QED BY <5>1, <5>2
      <4>7. sending'[d][1] = <<m, j + 1>>
        BY <1>2, <3>3, <4>2, <4>4, Zenon
      <4> HIDE DEF next
      <4> QED BY <4>4, <4>5, <4>6, <4>7
    <3> QED BY <3>1, <3>2, <3>3
  <2>9. Buffers(d, e)'
    <3> HIDE DEF next
    <3> QED BY <1>2, <2>2, <2>5, <2>6, <2>7, <2>8 DEF Buffers, Joined
  <2> QED BY <2>9
<1>10. BufferInv'
  BY <1>2, <1>9 DEF BufferInv, Registered
<1> QED BY <1>7, <1>8, <1>10 DEF ChInv

(* What channel_process finds in the chunk it takes: of a registered channel *)
(* the buffer holds what came before it, so that a last chunk makes the      *)
(* message that the server sent.                                             *)
LEMMA ProcessFinds ==
    ASSUME ChInv, ChannelProcess
    PROVE  /\ wire \in Seq(Chunk) /\ wire # << >> /\ wire' = Tail(wire)
           /\ Head(wire) = wire[1] /\ wire[1] \in Chunk /\ started
           /\ wire' \in Seq(Chunk)
           /\ Len(wire) \in Nat \ {0} /\ Len(wire') = Len(wire) - 1
           /\ \A i \in 1 .. Len(wire') : wire'[i] = wire[i + 1]
           /\ chIn' \in [Channels -> Seq(Piece)]
           /\ \A d \in Registered :
                 chIn'[d] = IF wire[1].channel = d /\ ~(wire[1].first /\ wire[1].last)
                            THEN Joined(wire[1], chIn[d]) ELSE chIn[d]
           /\ wire[1].channel \in Registered /\ wire[1].last =>
                 chGot' = [chGot EXCEPT ![wire[1].channel] =
                              Append(@, Content(wire[1].piece[1], wire[1].piece[2]))]
           /\ ~(wire[1].channel \in Registered /\ wire[1].last) => chGot' = chGot
           /\ UNCHANGED <<started, g_channels, sending, nsent, nlost>>
<1> DEFINE k == wire[1]
           c == wire[1].channel
<1>1. ChTypes /\ SenderInv
  BY DEF ChInv
<1>2. wire # << >> /\ wire' = Tail(wire) /\ wire \in Seq(Chunk)
      /\ UNCHANGED <<started, g_channels, sending, nsent, nlost>>
  BY <1>1 DEF ChannelProcess, ChTypes
<1>3. /\ Head(wire) = k /\ k \in Chunk /\ wire' \in Seq(Chunk)
      /\ Len(wire) \in Nat \ {0} /\ Len(wire') = Len(wire) - 1
      /\ \A i \in 1 .. Len(wire') : wire'[i] = wire[i + 1]
      /\ 1 \in 1 .. Len(wire)
  BY <1>2
<1>4. /\ c \in Channels /\ k.piece \in Piece
      /\ k.first \in BOOLEAN /\ k.last \in BOOLEAN
  BY <1>3 DEF Chunk
<1>5. started
  BY <1>1, <1>2 DEF SenderInv, ChTypes
<1>6. k.first <=> k.piece[2] = 1
  BY <1>1, <1>3 DEF SenderInv
<1>7. IF c \notin Registered THEN UNCHANGED <<chIn, chGot>>
      ELSE IF k.first /\ k.last
      THEN /\ chGot' = [chGot EXCEPT ![c] = Append(@, <<k.piece>>)]
           /\ UNCHANGED chIn
      ELSE /\ chIn' = [chIn EXCEPT ![c] = Joined(k, chIn[c])]
           /\ chGot' = IF k.last
                       THEN [chGot EXCEPT ![c] = Append(@, Joined(k, chIn[c]))]
                       ELSE chGot
  BY <1>3 DEF ChannelProcess, Buffered, Joined, Registered
<1> HIDE DEF k, c
<1>8. chIn[c] \in Seq(Piece) /\ Joined(k, chIn[c]) \in Seq(Piece)
  BY <1>1, <1>4 DEF ChTypes, Joined
<1>9. chIn' \in [Channels -> Seq(Piece)]
      /\ \A d \in Channels : chIn'[d] = IF d = c /\ c \in Registered /\ ~(k.first /\ k.last)
                                        THEN Joined(k, chIn[d]) ELSE chIn[d]
  BY <1>1, <1>7, <1>8, Zenon DEF ChTypes
<1>10. ASSUME c \in Registered, k.last
       PROVE  (IF k.first THEN <<k.piece>> ELSE Joined(k, chIn[c]))
                  = Content(k.piece[1], k.piece[2])
  <2>1. PICK m \in 1 .. MaxMessages, j \in 1 .. MaxPieces : k.piece = <<m, j>>
    BY <1>4, PieceIs
  <2>2. CASE k.first
    BY <1>6, <2>1, <2>2, ContentGrows
  <2>3. CASE ~k.first
    <3>1. PICK b : Buffers(c, b)
      BY <1>10 DEF ChInv, BufferInv
    <3>2. b[0] = chIn[c] /\ b[1 - 1] = Content(k.piece[1], k.piece[2] - 1)
      BY <1>3, <2>3, <3>1 DEF Buffers, k, c
    <3>3. chIn[c] = Content(m, j - 1)
      BY <2>1, <3>2
    <3>4. Append(Content(m, j - 1), <<m, j>>) = Content(m, j)
      BY ContentGrows, Zenon
    <3> QED BY <2>1, <2>3, <3>3, <3>4 DEF Joined
  <2> QED BY <2>2, <2>3
<1>11. c \in Registered /\ k.last =>
           chGot' = [chGot EXCEPT ![c] = Append(@, Content(k.piece[1], k.piece[2]))]
  <2> SUFFICES ASSUME c \in Registered, k.last
               PROVE  chGot' = [chGot EXCEPT ![c] =
                                    Append(@, Content(k.piece[1], k.piece[2]))]
    OBVIOUS
  <2>1. CASE k.first
    BY <1>7, <1>10, <2>1, Zenon
  <2>2. CASE ~k.first
    BY <1>7, <1>10, <2>2
  <2> QED BY <2>1, <2>2
<1>12. ~(c \in Registered /\ k.last) => chGot' = chGot
  BY <1>7
<1>13. \A d \in Registered :
           chIn'[d] = IF c = d /\ ~(k.first /\ k.last)
                      THEN Joined(k, chIn[d]) ELSE chIn[d]
  BY <1>1, <1>9, RegisteredAreChannels
<1> QED BY <1>2, <1>3, <1>5, <1>9, <1>11, <1>12, <1>13 DEF k, c

(* channel_process takes the first chunk into its buffer. *)
LEMMA ChannelProcessKeeps == ChInv /\ ChannelProcess => ChInv'
<1> SUFFICES ASSUME ChInv, ChannelProcess PROVE ChInv'
  OBVIOUS
<1> DEFINE n == Len(wire) - 1
<1>1. ChTypes /\ SenderInv
  BY DEF ChInv
<1>2. /\ wire' \in Seq(Chunk) /\ n \in Nat /\ Len(wire) = n + 1 /\ Len(wire') = n
      /\ \A i \in 1 .. n : wire'[i] = wire[i + 1]
      /\ chIn' \in [Channels -> Seq(Piece)]
      /\ \A d \in Registered :
             chIn'[d] = IF wire[1].channel = d /\ ~(wire[1].first /\ wire[1].last)
                        THEN Joined(wire[1], chIn[d]) ELSE chIn[d]
      /\ started
      /\ UNCHANGED <<started, g_channels, sending, nsent, nlost>>
  BY ProcessFinds
<1> HIDE DEF n
<1>3. \A i \in 1 .. n : i + 1 \in 1 .. n + 1 /\ (i + 1) - 1 = i /\ (i - 1) + 1 = i
  BY <1>2
<1>4. ChTypes'
  BY <1>1, <1>2 DEF ChTypes
<1>5. SenderInv'
  <2>1. \A i \in 1 .. Len(wire') : wire'[i].first <=> wire'[i].piece[2] = 1
    BY <1>1, <1>2, <1>3 DEF SenderInv
  <2> QED BY <1>1, <1>2, <2>1, Zenon DEF SenderInv
<1>6. ASSUME NEW d \in Registered PROVE \E b : Buffers(d, b)'
  <2>1. PICK b : Buffers(d, b)
    BY DEF ChInv, BufferInv
  <2>2. /\ b[0] = chIn[d]
        /\ \A i \in 1 .. n + 1 :
               b[i] = IF wire[i].channel = d /\ ~(wire[i].first /\ wire[i].last)
                      THEN Joined(wire[i], b[i - 1]) ELSE b[i - 1]
        /\ \A i \in 1 .. n + 1 :
               wire[i].channel = d /\ ~wire[i].first =>
                   b[i - 1] = Content(wire[i].piece[1], wire[i].piece[2] - 1)
        /\ sending[d] # << >> /\ sending[d][1][2] # 1 =>
               b[n + 1] = Content(sending[d][1][1], sending[d][1][2] - 1)
    BY <1>2, <2>1 DEF Buffers
  <2>3. PICK e : e = [i \in 0 .. n |-> b[i + 1]]
    BY Zenon
  <2>4. /\ e[0] = b[1] /\ e[n] = b[n + 1]
        /\ \A i \in 1 .. n : e[i] = b[i + 1] /\ e[i - 1] = b[i]
    <3>1. \A i \in 0 .. n : e[i] = b[i + 1]
      BY <2>3
    <3>2. 0 \in 0 .. n /\ n \in 0 .. n /\ 0 + 1 = 1
          /\ \A i \in 1 .. n : i \in 0 .. n /\ i - 1 \in 0 .. n
      BY <1>2
    <3> QED BY <1>3, <3>1, <3>2
  <2>5. e[0] = chIn'[d]
    <3>1. 1 \in 1 .. n + 1 /\ 1 - 1 = 0
      BY <1>2
    <3> QED BY <1>2, <2>2, <2>4, <3>1
  <2>6. ASSUME NEW i \in 1 .. n
        PROVE  /\ e[i] = IF wire'[i].channel = d /\ ~(wire'[i].first /\ wire'[i].last)
                         THEN Joined(wire'[i], e[i - 1]) ELSE e[i - 1]
               /\ wire'[i].channel = d /\ ~wire'[i].first =>
                      e[i - 1] = Content(wire'[i].piece[1], wire'[i].piece[2] - 1)
    <3>1. wire'[i] = wire[i + 1] /\ e[i] = b[i + 1] /\ e[i - 1] = b[(i + 1) - 1]
          /\ i + 1 \in 1 .. n + 1
      BY <1>2, <1>3, <2>4
    <3> QED BY <2>2, <3>1
  <2>7. Buffers(d, e)'
    BY <1>2, <2>2, <2>4, <2>5, <2>6 DEF Buffers, Joined
  <2> QED BY <2>7
<1>7. BufferInv'
  BY <1>2, <1>6 DEF BufferInv, Registered
<1> QED BY <1>4, <1>5, <1>7 DEF ChInv

(* Every step of channels.c and of the server keeps the invariant. *)
LEMMA ChStep == ChInv /\ [VChannelsNext]_vchanVars => ChInv'
<1> SUFFICES ASSUME ChInv, [VChannelsNext]_vchanVars PROVE ChInv'
  OBVIOUS
<1>1. CASE UNCHANGED vchanVars \/ EnterLoop
  <2>1. /\ UNCHANGED <<g_channels, chIn, wire, sending, nsent, nlost>>
        /\ started' = started \/ started' = TRUE
    BY <1>1 DEF vchanVars, staticVars, EnterLoop
  <2>2. ChTypes'
    BY <2>1, Zenon DEF ChInv, ChTypes
  <2>3. SenderInv'
    BY <2>1, Zenon DEF ChInv, SenderInv
  <2>4. \A c, b : Buffers(c, b)' <=> Buffers(c, b)
    BY <2>1 DEF Buffers, Joined
  <2>5. BufferInv'
    BY <2>1, <2>4 DEF ChInv, BufferInv, Registered
  <2> QED BY <2>2, <2>3, <2>5 DEF ChInv
<1> QED
  BY <1>1, ReconnectKeeps, ChannelProcessKeeps, ChRegisterKeeps, BeginSendKeeps,
     SendChunkKeeps
  DEF VChannelsNext

-----------------------------------------------------------------------------
(* Add-ins (addin.c) *)

AdFields == {"proc", "pid", "stdin", "stdout", "pending", "offset", "reads", "writes",
             "inpipe", "outpipe", "read", "wrote", "sent", "got"}

(* The bytes with the numbers from m + 1 to n, as a sequence.                *)
IsRun(s, m, n) ==
    s \in Seq(Nat) /\ Len(s) = n - m /\ \A k \in 1 .. n - m : s[k] = m + k

(* What the child has read, what is in its pipe and what is queued follow on *)
(* each other.                                                               *)
InputRuns(a) ==
    \E m \in 0 .. a.sent, n \in 0 .. a.sent :
        m <= n /\ IsRun(a.read, 0, m) /\ IsRun(a.inpipe, m, n) /\ IsRun(Remaining(a), n, a.sent)

AdTypes(a) ==
    /\ DOMAIN a = AdFields
    /\ a.proc \in {"none", "runs", "zombie", "reaped"}
    /\ {a.pid, a.stdin, a.stdout, a.reads, a.writes} \subseteq BOOLEAN
    /\ a.pending \in Seq(Nat) /\ a.offset \in 0 .. Len(a.pending)
    /\ a.inpipe \in Seq(Nat) /\ Len(a.inpipe) <= AddinPipe
    /\ a.outpipe \in Seq(Nat) /\ Len(a.outpipe) <= AddinPipe
    /\ a.read \in Seq(Nat) /\ a.wrote \in Nat /\ a.sent \in Nat

AdGood(a) ==
    /\ AdTypes(a)
    /\ a.pid => a.proc \in {"runs", "zombie"}
    /\ ~a.pid => /\ a.proc \in {"none", "reaped"}
                 /\ ~a.stdin /\ ~a.stdout /\ a.pending = << >>
    /\ a.stdin => InputRuns(a)

AddinInv ==
    /\ adMain.phase \in {"start", "loop", "select", "exited"}
    /\ adMain.rset \subseteq AddinIds /\ adMain.wset \subseteq AddinIds
    /\ DOMAIN adMain = {"phase", "rset", "wset"}
    /\ DOMAIN ad = AddinIds /\ \A i \in AddinIds : AdGood(ad[i])
    /\ adMain.phase = "start" =>
           \A i \in AddinIds : /\ ad[i].proc = "none" /\ ad[i].sent = 0
                               /\ ad[i].read = << >> /\ ad[i].inpipe = << >>
                               /\ ad[i].pending = << >> /\ ad[i].offset = 0

(* What is left of a sequence behind its first k elements. *)
LEMMA RestIs ==
    ASSUME NEW s \in Seq(Nat), NEW k \in 0 .. Len(s)
    PROVE  /\ SubSeq(s, k + 1, Len(s)) \in Seq(Nat)
           /\ Len(SubSeq(s, k + 1, Len(s))) = Len(s) - k
           /\ \A j \in 1 .. Len(s) - k : SubSeq(s, k + 1, Len(s))[j] = s[k + j]
<1>1. Len(s) \in Nat
  OBVIOUS
<1> QED BY <1>1, SubSeqProperties

(* Runs that follow on each other are one run. *)
LEMMA RunsJoin ==
    ASSUME NEW m \in Nat, NEW n \in Nat, NEW o \in Nat, m <= n, n <= o,
           NEW s, NEW t, IsRun(s, m, n), IsRun(t, n, o)
    PROVE  IsRun(s \o t, m, o)
<1>1. s \in Seq(Nat) /\ t \in Seq(Nat) /\ Len(s) = n - m /\ Len(t) = o - n
  BY DEF IsRun
<1>2. s \o t \in Seq(Nat) /\ Len(s \o t) = o - m
  BY <1>1
<1>3. ASSUME NEW k \in 1 .. o - m PROVE (s \o t)[k] = m + k
  <2>1. CASE k <= n - m
    <3>1. (s \o t)[k] = s[k]
      BY <1>1, <2>1
    <3>2. s[k] = m + k
      BY <2>1 DEF IsRun
    <3> QED BY <3>1, <3>2
  <2>2. CASE ~(k <= n - m)
    <3>1. (s \o t)[k] = t[k - (n - m)]
      BY <1>1, <2>2
    <3>2. k - (n - m) \in 1 .. o - n /\ n + (k - (n - m)) = m + k
      BY <2>2
    <3>3. t[k - (n - m)] = n + (k - (n - m))
      BY <3>2 DEF IsRun
    <3> QED BY <3>1, <3>2, <3>3
  <2> QED BY <2>1, <2>2, Zenon
<1> QED BY <1>2, <1>3 DEF IsRun

(* A run is cut into two. *)
LEMMA RunsCut ==
    ASSUME NEW m \in Nat, NEW n \in Nat, m <= n, NEW s, IsRun(s, m, n), NEW k \in 0 .. n - m
    PROVE  IsRun(SubSeq(s, 1, k), m, m + k) /\ IsRun(SubSeq(s, k + 1, Len(s)), m + k, n)
<1>1. s \in Seq(Nat) /\ Len(s) = n - m /\ k \in 0 .. Len(s) /\ Len(s) \in Nat
  BY DEF IsRun
<1>2. \A j \in 1 .. Len(s) : s[j] = m + j
  BY <1>1 DEF IsRun
<1> DEFINE u == SubSeq(s, 1, k)
           v == SubSeq(s, k + 1, Len(s))
<1>3. u \in Seq(Nat) /\ Len(u) = k /\ \A j \in 1 .. k : u[j] = s[j]
  BY <1>1, SubSeqProperties
<1>4. v \in Seq(Nat) /\ Len(v) = Len(s) - k /\ \A j \in 1 .. Len(s) - k : v[j] = s[k + j]
  BY <1>1, RestIs
<1> HIDE DEF u, v
<1>5. IsRun(u, m, m + k)
  <2>1. \A j \in 1 .. (m + k) - m : u[j] = m + j
    <3> SUFFICES ASSUME NEW j \in 1 .. (m + k) - m PROVE u[j] = m + j
      OBVIOUS
    <3>1. j \in 1 .. k /\ j \in 1 .. Len(s)
      BY <1>1
    <3> QED BY <1>2, <1>3, <3>1
  <2> QED BY <1>3, <2>1 DEF IsRun
<1>6. \A j \in 1 .. n - (m + k) : v[j] = (m + k) + j
  BY <1>1, <1>2, <1>4
<1>7. IsRun(v, m + k, n)
  BY <1>1, <1>4, <1>6 DEF IsRun
<1> QED BY <1>5, <1>7 DEF u, v

(* The properties of add-ins follow from the invariant. *)
LEMMA AddinInvGives == AddinInv => AddinTypeOK /\ InputInOrder /\ StoppedIsReaped
<1> SUFFICES ASSUME AddinInv PROVE AddinTypeOK /\ InputInOrder /\ StoppedIsReaped
  OBVIOUS
<1>1. AddinTypeOK
  BY DEF AddinInv, AddinTypeOK, AdGood, AdTypes
<1>2. StoppedIsReaped
  BY DEF AddinInv, StoppedIsReaped, AdGood
<1>3. InputInOrder
  <2> SUFFICES ASSUME NEW i \in AddinIds, ad[i].stdin
               PROVE  ad[i].read \o ad[i].inpipe \o Remaining(ad[i]) = UpTo(ad[i].sent)
    BY Zenon DEF InputInOrder
  <2> DEFINE a == ad[i]
  <2>1. InputRuns(a) /\ a.sent \in Nat
    BY DEF AddinInv, AdGood, AdTypes
  <2> HIDE DEF a
  <2>2. PICK m \in 0 .. a.sent, n \in 0 .. a.sent :
            m <= n /\ IsRun(a.read, 0, m) /\ IsRun(a.inpipe, m, n) /\ IsRun(Remaining(a), n, a.sent)
    BY <2>1 DEF InputRuns
  <2>3. m \in Nat /\ n \in Nat /\ 0 <= m /\ n <= a.sent /\ 0 \in Nat
    BY <2>1
  <2>4. IsRun(a.read \o a.inpipe, 0, n)
    BY <2>2, <2>3, RunsJoin
  <2>5. 0 <= n
    BY <2>3
  <2>6. IsRun((a.read \o a.inpipe) \o Remaining(a), 0, a.sent)
    BY <2>1, <2>2, <2>3, <2>4, <2>5, RunsJoin
  <2> DEFINE s == (a.read \o a.inpipe) \o Remaining(a)
  <2>a. IsRun(s, 0, a.sent)
    BY <2>6
  <2> HIDE DEF s
  <2>7. s \in Seq(Nat) /\ Len(s) = a.sent /\ \A k \in 1 .. a.sent : s[k] = k
    BY <2>1, <2>a DEF IsRun
  <2>8. s = UpTo(a.sent)
    BY <2>1, <2>7 DEF UpTo
  <2> QED BY <2>8 DEF s, a
<1> QED BY <1>1, <1>2, <1>3

(* No add-in was started at the start. *)
LEMMA AddinInitInv == AddinInit => AddinInv
<1> SUFFICES ASSUME AddinInit PROVE AddinInv
  OBVIOUS
<1> DEFINE a == [proc |-> "none", pid |-> FALSE, stdin |-> FALSE, stdout |-> FALSE,
                 pending |-> << >>, offset |-> 0, reads |-> FALSE, writes |-> FALSE,
                 inpipe |-> << >>, outpipe |-> << >>, read |-> << >>, wrote |-> 0,
                 sent |-> 0, got |-> << >>]
<1>1. ad = [i \in AddinIds |-> a] /\ adMain = [phase |-> "start", rset |-> {}, wset |-> {}]
  BY DEF AddinInit
<1>2. DOMAIN a = AdFields
  BY DEF AdFields
<1>3. /\ a.proc = "none" /\ ~a.pid /\ ~a.stdin /\ ~a.stdout /\ ~a.reads /\ ~a.writes
      /\ {a.pid, a.stdin, a.stdout, a.reads, a.writes} \subseteq BOOLEAN
      /\ a.pending = << >> /\ a.inpipe = << >> /\ a.outpipe = << >> /\ a.read = << >>
      /\ a.offset = 0 /\ a.wrote = 0 /\ a.sent = 0
  OBVIOUS
<1> HIDE DEF a
<1>4. << >> \in Seq(Nat) /\ Len(<< >>) = 0 /\ AddinPipe \in Nat
  BY AddinConstants
<1>5. AdGood(a)
  BY <1>2, <1>3, <1>4 DEF AdGood, AdTypes
<1> QED BY <1>1, <1>3, <1>5 DEF AddinInv

(* Stopping an add-in closes and empties everything, and reaps the child.    *)
LEMMA ShutdownIs ==
    ASSUME NEW a, AdTypes(a), NEW terminate \in BOOLEAN,
           a.pid => a.proc = "reaped" \/ (terminate /\ a.proc \in {"runs", "zombie"}),
           ~a.pid => a.proc \in {"none", "reaped"}
    PROVE  /\ AdGood(ShutdownChild(a, terminate))
           /\ ~ShutdownChild(a, terminate).stdin /\ ~ShutdownChild(a, terminate).stdout
<1> DEFINE c == [ReleasePending(a) EXCEPT !.stdin = FALSE, !.stdout = FALSE, !.pid = FALSE]
           d == [c EXCEPT !.proc = "reaped", !.reads = FALSE, !.writes = FALSE]
           b == ShutdownChild(a, terminate)
<1>1. DOMAIN a = AdFields
  BY DEF AdTypes
<1>2. /\ DOMAIN c = AdFields /\ c.proc = a.proc /\ ~c.pid /\ ~c.stdin /\ ~c.stdout
      /\ c.pending = << >> /\ c.offset = 0 /\ c.pid = FALSE /\ c.stdin = FALSE /\ c.stdout = FALSE
      /\ c.reads = a.reads /\ c.writes = a.writes /\ c.inpipe = a.inpipe /\ c.outpipe = a.outpipe
      /\ c.read = a.read /\ c.wrote = a.wrote /\ c.sent = a.sent
  BY <1>1 DEF ReleasePending, AdFields
<1> HIDE DEF c
<1>3. /\ DOMAIN d = AdFields /\ d.proc = "reaped" /\ ~d.pid /\ ~d.stdin /\ ~d.stdout
      /\ d.pending = << >> /\ d.offset = 0 /\ d.pid = FALSE /\ d.stdin = FALSE /\ d.stdout = FALSE
      /\ d.reads = FALSE /\ d.writes = FALSE /\ d.inpipe = a.inpipe /\ d.outpipe = a.outpipe
      /\ d.read = a.read /\ d.wrote = a.wrote /\ d.sent = a.sent
  BY <1>2 DEF AdFields
<1> HIDE DEF d
<1>4. << >> \in Seq(Nat) /\ Len(<< >>) = 0 /\ 0 \in 0 .. 0
  OBVIOUS
<1>5. AdTypes(c) /\ AdTypes(d)
  BY <1>2, <1>3, <1>4, Zenon DEF AdTypes
<1>6. AdGood(d)
  BY <1>3, <1>5 DEF AdGood
<1>7. \/ b = d /\ a.pid /\ a.proc # "none"
      \/ b = c /\ a.proc \in {"none", "reaped"}
  BY DEF ShutdownChild, c, d
<1> HIDE DEF b
<1>8. CASE b = d /\ a.pid /\ a.proc # "none"
  BY <1>3, <1>6, <1>8 DEF b
<1>9. CASE b = c /\ a.proc \in {"none", "reaped"}
  <2>1. AdGood(c)
    BY <1>2, <1>5, <1>9 DEF AdGood
  <2> QED BY <1>2, <1>9, <2>1 DEF b
<1> QED BY <1>7, <1>8, <1>9

(* A poll stops an add-in whose child has ended, and does nothing else.      *)
LEMMA PollIs ==
    ASSUME NEW a, AdGood(a)
    PROVE  /\ AdGood(PollChild(a))
           /\ PollChild(a) = a \/ (~PollChild(a).stdin /\ ~PollChild(a).stdout)
<1>1. CASE a.pid /\ a.proc = "zombie"
  <2> DEFINE b == [a EXCEPT !.proc = "reaped"]
  <2>1. PollChild(a) = ShutdownChild(b, FALSE)
    BY <1>1 DEF PollChild
  <2>2. /\ DOMAIN b = AdFields /\ b.proc = "reaped" /\ \A f \in AdFields \ {"proc"} : b[f] = a[f]
    BY DEF AdGood, AdTypes, AdFields
  <2> HIDE DEF b
  <2>3. AdTypes(b)
    BY <2>2 DEF AdGood, AdTypes, AdFields
  <2> QED BY <2>1, <2>2, <2>3, ShutdownIs, Zenon
<1>2. CASE ~(a.pid /\ a.proc = "zombie")
  BY <1>2, Zenon DEF PollChild
<1> QED BY <1>1, <1>2

(* The pipe takes the first bytes of what is queued, and the rest follows.   *)
LEMMA FlushIs ==
    ASSUME NEW a, AdGood(a)
    PROVE  AdGood(FlushToChild(a))
<1> DEFINE p == PollChild(a)
           rest == Remaining(p)
           n == Least(AddinPipe - Len(p.inpipe), Len(rest))
           w == [p EXCEPT !.inpipe = @ \o SubSeq(Remaining(p), 1, n), !.offset = @ + n]
<1>1. AdGood(p)
  BY PollIs
<1>2. \/ FlushToChild(a) = p
      \/ FlushToChild(a) = ShutdownChild(p, TRUE)
      \/ /\ p.stdin
         /\ FlushToChild(a) = IF Remaining(w) = << >> THEN ReleasePending(w) ELSE w
  BY Zenon DEF FlushToChild
<1> HIDE DEF p
<1>3. AdTypes(p) /\ DOMAIN p = AdFields
  BY <1>1 DEF AdGood, AdTypes
<1>4. AdGood(ShutdownChild(p, TRUE))
  BY <1>1, ShutdownIs, Zenon DEF AdGood
<1>5. ASSUME p.stdin PROVE AdGood(w) /\ (Remaining(w) = << >> => AdGood(ReleasePending(w)))
  <2>1. /\ p.pending \in Seq(Nat) /\ p.inpipe \in Seq(Nat) /\ p.read \in Seq(Nat) /\ p.sent \in Nat
        /\ p.offset \in 0 .. Len(p.pending) /\ Len(p.inpipe) <= AddinPipe /\ AddinPipe \in Nat
        /\ Len(p.inpipe) \in Nat /\ Len(p.pending) \in Nat
    BY <1>3, AddinConstants DEF AdTypes
  <2>2. PICK m \in 0 .. p.sent, o \in 0 .. p.sent :
            m <= o /\ IsRun(p.read, 0, m) /\ IsRun(p.inpipe, m, o) /\ IsRun(rest, o, p.sent)
    BY <1>1, <1>5 DEF AdGood, InputRuns
  <2>3. rest \in Seq(Nat) /\ Len(rest) = p.sent - o
        /\ Len(rest) = Len(p.pending) - p.offset /\ Len(p.inpipe) = o - m
    <3>1. rest = SubSeq(p.pending, p.offset + 1, Len(p.pending))
      BY DEF Remaining
    <3>2. Len(SubSeq(p.pending, p.offset + 1, Len(p.pending))) = Len(p.pending) - p.offset
      BY <2>1, RestIs, Zenon
    <3> QED BY <2>2, <3>1, <3>2 DEF IsRun
  <2>4. n \in 0 .. p.sent - o /\ n <= AddinPipe - Len(p.inpipe)
    BY <2>1, <2>2, <2>3 DEF Least
  <2> DEFINE first == SubSeq(rest, 1, n)
             last == SubSeq(rest, n + 1, Len(rest))
  <2>5. /\ DOMAIN w = AdFields /\ w.inpipe = p.inpipe \o first /\ w.offset = p.offset + n
        /\ \A f \in AdFields \ {"inpipe", "offset"} : w[f] = p[f]
    BY <1>3, Zenon DEF AdFields
  <2> HIDE DEF rest, n, w
  <2>6. m \in Nat /\ o \in Nat /\ o + n \in Nat /\ o <= p.sent /\ o <= o + n /\ o + n <= p.sent
        /\ o + n \in 0 .. p.sent
    BY <2>1, <2>4
  <2>7. IsRun(first, o, o + n) /\ IsRun(last, o + n, p.sent)
    BY <2>1, <2>2, <2>4, <2>6, RunsCut, Zenon
  <2> HIDE DEF first, last
  <2>8. IsRun(p.inpipe \o first, m, o + n)
    BY <2>2, <2>6, <2>7, RunsJoin
  <2>9. Remaining(w) = last
    <3>1. rest = SubSeq(p.pending, p.offset + 1, Len(p.pending))
      BY DEF rest, Remaining
    <3>2. Remaining(w) = SubSeq(p.pending, (p.offset + n) + 1, Len(p.pending))
      BY <2>5, Zenon DEF Remaining, AdFields
    <3>3. /\ last \in Seq(Nat) /\ Len(last) = Len(rest) - n
          /\ \A k \in 1 .. Len(rest) - n : last[k] = rest[n + k]
      <4>1. n \in 0 .. Len(rest)
        BY <2>3, <2>4
      <4> QED BY <2>3, <4>1, RestIs, Zenon DEF last
    <3>4. /\ Len(rest) = Len(p.pending) - p.offset
          /\ \A k \in 1 .. Len(p.pending) - p.offset : rest[k] = p.pending[p.offset + k]
      BY <2>1, <3>1, RestIs, Zenon
    <3> DEFINE x == SubSeq(p.pending, (p.offset + n) + 1, Len(p.pending))
               l == Len(p.pending)
               f == p.offset
    <3>5. /\ x \in Seq(Nat) /\ Len(x) = l - (f + n)
          /\ \A k \in 1 .. l - (f + n) : x[k] = p.pending[(f + n) + k]
      <4>1. f + n \in 0 .. l /\ l \in Nat
        <5> DEFINE z == p.sent - o
        <5>1. /\ l \in Nat /\ f \in 0 .. l /\ z = l - f /\ n \in 0 .. z
          BY <2>1, <2>3, <2>4, Zenon
        <5> HIDE DEF l, f, z
        <5> QED BY <5>1
      <4> QED BY <2>1, <4>1, RestIs, Zenon
    <3>6. Len(rest) = l - f /\ l \in Nat /\ f \in 0 .. l /\ n \in 0 .. l - f
      BY <2>1, <2>3, <2>4
    <3> HIDE DEF x, l, f
    <3>7. Len(x) = Len(last)
      BY <3>3, <3>5, <3>6
    <3>8. ASSUME NEW k \in 1 .. Len(x) PROVE x[k] = last[k]
      <4>1. k \in 1 .. l - (f + n) /\ k \in 1 .. Len(rest) - n /\ n + k \in 1 .. l - f
        BY <3>5, <3>6
      <4>2. x[k] = p.pending[(f + n) + k] /\ last[k] = rest[n + k]
        BY <3>3, <3>5, <4>1, Zenon
      <4>3. rest[n + k] = p.pending[f + (n + k)]
        BY <3>4, <4>1 DEF l, f
      <4>4. f + (n + k) = (f + n) + k
        BY <3>6, <4>1
      <4> QED BY <4>2, <4>3, <4>4
    <3>9. x = last
      BY <3>3, <3>5, <3>7, <3>8, SeqEqual, Zenon
    <3> QED BY <3>2, <3>9 DEF x, l, f
  <2>10. /\ w.proc = p.proc /\ w.pid = p.pid /\ w.stdin = p.stdin /\ w.stdout = p.stdout
         /\ w.reads = p.reads /\ w.writes = p.writes /\ w.pending = p.pending
         /\ w.outpipe = p.outpipe /\ w.read = p.read /\ w.wrote = p.wrote /\ w.sent = p.sent
    BY <2>5 DEF AdFields
  <2>11. InputRuns(w)
    BY <2>2, <2>5, <2>6, <2>7, <2>8, <2>9, <2>10 DEF InputRuns
  <2>12. w.inpipe \in Seq(Nat) /\ Len(w.inpipe) <= AddinPipe /\ w.offset \in 0 .. Len(w.pending)
    <3>1. w.inpipe \in Seq(Nat) /\ Len(w.inpipe) = (o + n) - m
      BY <2>5, <2>8 DEF IsRun
    <3>2. Len(w.inpipe) <= AddinPipe
      <4>1. n \in Nat /\ m \in Nat /\ o \in Nat /\ n <= AddinPipe - (o - m) /\ AddinPipe \in Nat
        BY <2>1, <2>3, <2>4, <2>6
      <4> QED BY <3>1, <4>1
    <3>3. p.offset + n \in 0 .. Len(p.pending)
      <4>1. n \in 0 .. Len(rest)
        BY <2>3, <2>4
      <4>2. Len(rest) = Len(p.pending) - p.offset
        BY <2>3
      <4> QED BY <2>1, <4>1, <4>2
    <3> QED BY <2>5, <2>10, <3>1, <3>2, <3>3
  <2>13. AdTypes(w)
    BY <1>3, <2>5, <2>10, <2>12 DEF AdTypes
  <2>14. p.pid
    BY <1>1, <1>5 DEF AdGood
  <2>15. AdGood(w)
    BY <1>1, <2>10, <2>11, <2>13, <2>14 DEF AdGood
  <2>16. ASSUME Remaining(w) = << >> PROVE AdGood(ReleasePending(w))
    <3> DEFINE r == ReleasePending(w)
    <3>1. /\ DOMAIN r = AdFields /\ r.pending = << >> /\ r.offset = 0
          /\ \A f \in AdFields \ {"pending", "offset"} : r[f] = w[f]
      BY <2>5, Zenon DEF ReleasePending, AdFields
    <3> HIDE DEF r
    <3>2. /\ r.proc = w.proc /\ r.pid = w.pid /\ r.stdin = w.stdin /\ r.stdout = w.stdout
          /\ r.reads = w.reads /\ r.writes = w.writes /\ r.inpipe = w.inpipe
          /\ r.outpipe = w.outpipe /\ r.read = w.read /\ r.wrote = w.wrote /\ r.sent = w.sent
      BY <3>1 DEF AdFields
    <3>3. << >> \in Seq(Nat) /\ Len(<< >>) = 0 /\ SubSeq(<< >>, 1, 0) = << >>
      OBVIOUS
    <3>4. Remaining(r) = << >>
      BY <3>1, <3>3 DEF Remaining
    <3>5. InputRuns(r)
      BY <2>11, <2>16, <3>2, <3>4 DEF InputRuns
    <3>6. AdTypes(r)
      BY <2>13, <3>1, <3>2, <3>3 DEF AdTypes
    <3>7. AdGood(r)
      BY <2>10, <2>14, <2>15, <3>2, <3>5, <3>6 DEF AdGood
    <3> QED BY <3>7 DEF r
  <2> QED BY <2>15, <2>16
<1> HIDE DEF w
<1> QED BY <1>1, <1>2, <1>4, <1>5, Zenon

(* A message joins the queue, behind what is still to be written.            *)
LEMMA QueueIs ==
    ASSUME NEW a, AdGood(a), NEW n \in Nat
    PROVE  AdGood(QueueToChild([a EXCEPT !.sent = @ + n], [k \in 1 .. n |-> a.sent + k]))
<1> DEFINE b == [a EXCEPT !.sent = @ + n]
           data == [k \in 1 .. n |-> a.sent + k]
           c == [b EXCEPT !.pending = Remaining(b) \o data, !.offset = 0]
<1>1. AdTypes(a) /\ DOMAIN a = AdFields /\ a.sent \in Nat
  BY DEF AdGood, AdTypes
<1>2. DOMAIN b = AdFields /\ b.sent = a.sent + n /\ \A f \in AdFields \ {"sent"} : b[f] = a[f]
  BY <1>1 DEF AdFields
<1> HIDE DEF b
<1>3. DOMAIN c = AdFields /\ c.pending = Remaining(b) \o data /\ c.offset = 0
      /\ \A f \in AdFields \ {"pending", "offset"} : c[f] = b[f]
  BY <1>2, Zenon DEF AdFields
<1> HIDE DEF c
<1>4. /\ b.proc = a.proc /\ b.pid = a.pid /\ b.stdin = a.stdin /\ b.stdout = a.stdout
      /\ b.reads = a.reads /\ b.writes = a.writes /\ b.inpipe = a.inpipe
      /\ b.outpipe = a.outpipe /\ b.read = a.read /\ b.wrote = a.wrote
      /\ b.pending = a.pending /\ b.offset = a.offset
  BY <1>2 DEF AdFields
<1>5. /\ c.proc = b.proc /\ c.pid = b.pid /\ c.stdin = b.stdin /\ c.stdout = b.stdout
      /\ c.reads = b.reads /\ c.writes = b.writes /\ c.inpipe = b.inpipe
      /\ c.outpipe = b.outpipe /\ c.read = b.read /\ c.wrote = b.wrote /\ c.sent = b.sent
  BY <1>3 DEF AdFields
<1>6. AdTypes(b)
  BY <1>1, <1>2, <1>4 DEF AdTypes
<1>7. Remaining(b) = Remaining(a)
  BY <1>4 DEF Remaining
<1>8. CASE ~b.stdin
  <2>1. AdGood(b)
    BY <1>4, <1>6, <1>8 DEF AdGood
  <2> QED BY <1>8, <2>1 DEF QueueToChild, b
<1>9. CASE b.stdin
  <2>1. PICK m \in 0 .. a.sent, o \in 0 .. a.sent :
            m <= o /\ IsRun(a.read, 0, m) /\ IsRun(a.inpipe, m, o) /\ IsRun(Remaining(a), o, a.sent)
    BY <1>4, <1>9 DEF AdGood, InputRuns
  <2>2. IsRun(data, a.sent, a.sent + n)
    <3>1. data \in Seq(Nat) /\ Len(data) = n
      BY <1>1
    <3>2. (a.sent + n) - a.sent = n
      BY <1>1
    <3> QED BY <3>1, <3>2 DEF IsRun
  <2> HIDE DEF data
  <2>3. IsRun(Remaining(a) \o data, o, a.sent + n)
    <3>1. o \in Nat /\ a.sent + n \in Nat /\ o <= a.sent /\ a.sent <= a.sent + n
      BY <1>1
    <3> QED BY <1>1, <2>1, <2>2, <3>1, RunsJoin
  <2>4. c.pending \in Seq(Nat) /\ Len(c.pending) \in Nat /\ IsRun(c.pending, o, a.sent + n)
    BY <1>3, <1>7, <2>3 DEF IsRun
  <2>5. Remaining(c) = c.pending
    <3> DEFINE x == SubSeq(c.pending, 0 + 1, Len(c.pending))
    <3>1. 0 \in 0 .. Len(c.pending) /\ Len(c.pending) - 0 = Len(c.pending)
      BY <2>4
    <3>2. x \in Seq(Nat) /\ Len(x) = Len(c.pending)
          /\ \A j \in 1 .. Len(c.pending) : x[j] = c.pending[0 + j]
      BY <2>4, <3>1, RestIs
    <3>3. Remaining(c) = x
      BY <1>3 DEF Remaining
    <3> HIDE DEF x
    <3>4. \A j \in 1 .. Len(x) : x[j] = c.pending[j]
      BY <3>2
    <3>5. x = c.pending
      BY <2>4, <3>2, <3>4, SeqEqual, Zenon
    <3> QED BY <3>3, <3>5
  <2>6. AdTypes(c)
    BY <1>3, <1>5, <1>6, <2>4 DEF AdTypes
  <2>7. InputRuns(c)
    <3>1. c.sent = a.sent + n /\ c.read = a.read /\ c.inpipe = a.inpipe
      BY <1>2, <1>4, <1>5
    <3>2. m \in 0 .. c.sent /\ o \in 0 .. c.sent
      BY <1>1, <3>1
    <3> QED BY <2>1, <2>4, <2>5, <3>1, <3>2 DEF InputRuns
  <2>8. b.pid /\ a.pid
    BY <1>4, <1>9 DEF AdGood
  <2>9. AdGood(c)
    BY <1>4, <1>5, <2>6, <2>7, <2>8 DEF AdGood
  <2>10. AdGood(FlushToChild(c))
    BY <2>9, FlushIs
  <2> QED BY <1>9, <2>10 DEF QueueToChild, b, c, data
<1> QED BY <1>8, <1>9

(* The output of the child is sent on; at its end the add-in is stopped.     *)
LEMMA SendIs ==
    ASSUME NEW a, AdGood(a)
    PROVE  AdGood(SendFromChild(a))
<1> DEFINE p == PollChild(a)
           s == [p EXCEPT !.got = @ \o p.outpipe, !.outpipe = << >>]
<1>1. AdGood(p)
  BY PollIs
<1>2. SendFromChild(a) = IF ~p.stdout THEN p ELSE IF p.writes THEN s ELSE ShutdownChild(s, TRUE)
  BY DEF SendFromChild
<1> HIDE DEF p
<1>3. DOMAIN s = AdFields /\ s.outpipe = << >> /\ \A f \in AdFields \ {"got", "outpipe"} : s[f] = p[f]
  BY <1>1, Zenon DEF AdGood, AdTypes, AdFields
<1> HIDE DEF s
<1>4. /\ s.proc = p.proc /\ s.pid = p.pid /\ s.stdin = p.stdin /\ s.stdout = p.stdout
      /\ s.reads = p.reads /\ s.writes = p.writes /\ s.inpipe = p.inpipe /\ s.pending = p.pending
      /\ s.offset = p.offset /\ s.read = p.read /\ s.wrote = p.wrote /\ s.sent = p.sent
  BY <1>3 DEF AdFields
<1>5. << >> \in Seq(Nat) /\ Len(<< >>) = 0 /\ AddinPipe \in Nat
  BY AddinConstants
<1>6. AdTypes(s)
  BY <1>1, <1>3, <1>4, <1>5 DEF AdGood, AdTypes
<1>7. AdGood(s)
  BY <1>1, <1>4, <1>6 DEF AdGood, InputRuns, Remaining
<1>8. AdGood(ShutdownChild(s, TRUE))
  BY <1>6, <1>7, ShutdownIs, Zenon DEF AdGood
<1> QED BY <1>1, <1>2, <1>7, <1>8, Zenon

(* addin_init starts all of them, or stops those it started.                 *)
LEMMA StartKeeps == AddinInv /\ StartAddins => AddinInv'
<1> SUFFICES ASSUME AddinInv, StartAddins PROVE AddinInv'
  OBVIOUS
<1>1. adMain.phase = "start" /\ DOMAIN ad = AddinIds
  BY DEF StartAddins, AddinInv
<1>2. ASSUME NEW i \in AddinIds
      PROVE  /\ AdGood(ad[i]) /\ AdGood(Spawned(ad[i]))
             /\ AdGood(ShutdownChild(ad[i], TRUE)) /\ AdGood(ShutdownChild(Spawned(ad[i]), TRUE))
  <2> DEFINE a == ad[i]
             b == Spawned(a)
  <2>1. /\ AdGood(a) /\ a.proc = "none" /\ a.sent = 0 /\ a.read = << >> /\ a.inpipe = << >>
        /\ a.pending = << >> /\ a.offset = 0
    BY <1>1 DEF AddinInv
  <2> HIDE DEF a
  <2>2. DOMAIN a = AdFields
    BY <2>1 DEF AdGood, AdTypes
  <2>3. /\ DOMAIN b = AdFields /\ b.proc = "runs" /\ b.pid /\ b.pid = TRUE /\ b.stdin = TRUE
        /\ b.stdout = TRUE /\ b.reads = TRUE /\ b.writes = TRUE
        /\ b.pending = << >> /\ b.offset = 0 /\ b.inpipe = << >> /\ b.outpipe = a.outpipe
        /\ b.read = << >> /\ b.wrote = a.wrote /\ b.sent = 0
    BY <2>1, <2>2 DEF Spawned, AdFields
  <2> HIDE DEF b
  <2>4. << >> \in Seq(Nat) /\ Len(<< >>) = 0 /\ SubSeq(<< >>, 1, 0) = << >> /\ 0 \in 0 .. 0
    OBVIOUS
  <2>5. AdTypes(b)
    BY <2>1, <2>3, <2>4, Zenon DEF AdGood, AdTypes
  <2>6. Remaining(b) = << >> /\ IsRun(<< >>, 0, 0)
    BY <2>3, <2>4 DEF Remaining, IsRun
  <2>7. InputRuns(b)
    BY <2>3, <2>4, <2>6 DEF InputRuns
  <2>8. AdGood(b)
    BY <2>3, <2>5, <2>7 DEF AdGood
  <2>9. AdGood(ShutdownChild(a, TRUE))
    BY <2>1, ShutdownIs, Zenon DEF AdGood
  <2>10. AdGood(ShutdownChild(b, TRUE))
    BY <2>3, <2>5, ShutdownIs, Zenon
  <2> QED BY <2>1, <2>8, <2>9, <2>10, Zenon DEF a, b
<1>3. PICK ok \in SUBSET AddinIds :
          LET spawned == [i \in AddinIds |-> IF i \in ok THEN Spawned(ad[i]) ELSE ad[i]]
          IN  IF ok = AddinIds
              THEN /\ ad' = spawned
                   /\ adMain' = [adMain EXCEPT !.phase = "loop"]
              ELSE /\ ad' = [i \in AddinIds |-> ShutdownChild(spawned[i], TRUE)]
                   /\ adMain' = [adMain EXCEPT !.phase = "exited"]
  BY Zenon DEF StartAddins
<1>4. DOMAIN ad' = AddinIds /\ \A i \in AddinIds : AdGood(ad'[i])
  BY <1>2, <1>3, Zenon
<1>5. /\ adMain'.phase \in {"loop", "exited"} /\ DOMAIN adMain' = {"phase", "rset", "wset"}
      /\ adMain'.rset = adMain.rset /\ adMain'.wset = adMain.wset
  BY <1>3, Zenon DEF AddinInv
<1> QED BY <1>4, <1>5 DEF AddinInv

(* A step of one add-in, once the main loop runs.                            *)
LEMMA AddinFrame ==
    ASSUME AddinInv, adMain.phase # "start", UNCHANGED adMain,
           NEW i \in AddinIds, NEW b, AdGood(b), ad' = [ad EXCEPT ![i] = b]
    PROVE  AddinInv'
<1>1. DOMAIN ad' = AddinIds /\ \A j \in AddinIds : AdGood(ad'[j])
  BY DEF AddinInv
<1> QED BY <1>1 DEF AddinInv

(* A child reads, writes or ends.                                            *)
LEMMA ChildKeeps ==
    ASSUME AddinInv, NEW i \in AddinIds, ChildReads(i) \/ ChildWrites(i) \/ ChildEnds(i)
    PROVE  AddinInv'
<1> DEFINE a == ad[i]
           b == ad'[i]
<1>1. AdGood(a) /\ DOMAIN ad = AddinIds /\ a.proc = "runs" /\ UNCHANGED adMain
  BY DEF AddinInv, ChildReads, ChildWrites, ChildEnds
<1>2. adMain.phase # "start"
  BY <1>1 DEF AddinInv
<1>3. AdTypes(a) /\ a.pid /\ DOMAIN a = AdFields
  BY <1>1 DEF AdGood, AdTypes
<1>4. CASE ChildReads(i)
  <2> DEFINE c == [a EXCEPT !.read = Append(@, Head(a.inpipe)), !.inpipe = Tail(@)]
  <2>1. ad' = [ad EXCEPT ![i] = c] /\ a.inpipe # << >>
    BY <1>1, <1>4, Zenon DEF ChildReads
  <2>2. /\ DOMAIN c = AdFields /\ c.read = Append(a.read, Head(a.inpipe)) /\ c.inpipe = Tail(a.inpipe)
        /\ \A f \in AdFields \ {"read", "inpipe"} : c[f] = a[f]
    BY <1>3, Zenon DEF AdFields
  <2> HIDE DEF a, c
  <2>3. /\ c.proc = a.proc /\ c.pid = a.pid /\ c.stdin = a.stdin /\ c.stdout = a.stdout
        /\ c.reads = a.reads /\ c.writes = a.writes /\ c.pending = a.pending
        /\ c.offset = a.offset /\ c.outpipe = a.outpipe /\ c.wrote = a.wrote /\ c.sent = a.sent
    BY <2>2 DEF AdFields
  <2>4. /\ a.inpipe \in Seq(Nat) /\ a.read \in Seq(Nat) /\ a.sent \in Nat
        /\ Len(a.inpipe) <= AddinPipe /\ AddinPipe \in Nat
    BY <1>3, AddinConstants DEF AdTypes
  <2>5. /\ c.inpipe \in Seq(Nat) /\ Len(c.inpipe) = Len(a.inpipe) - 1 /\ Len(a.inpipe) \in Nat \ {0}
        /\ \A k \in 1 .. Len(a.inpipe) - 1 : c.inpipe[k] = a.inpipe[k + 1]
        /\ c.read \in Seq(Nat) /\ Len(c.read) = Len(a.read) + 1 /\ Len(a.read) \in Nat
        /\ c.read[Len(a.read) + 1] = a.inpipe[1]
        /\ \A k \in 1 .. Len(a.read) : c.read[k] = a.read[k]
    BY <2>1, <2>2, <2>4
  <2>6. Len(c.inpipe) <= AddinPipe
    BY <2>4, <2>5
  <2>7. AdTypes(c)
    BY <1>3, <2>2, <2>3, <2>5, <2>6 DEF AdTypes
  <2>8. ASSUME a.stdin PROVE InputRuns(c)
    <3>1. PICK m \in 0 .. a.sent, n \in 0 .. a.sent :
              m <= n /\ IsRun(a.read, 0, m) /\ IsRun(a.inpipe, m, n) /\ IsRun(Remaining(a), n, a.sent)
      BY <1>1, <2>8 DEF AdGood, InputRuns, a
    <3>2. Len(a.read) = m /\ Len(a.inpipe) = n - m /\ m + 1 <= n /\ m + 1 \in 0 .. a.sent
      <4>1. Len(a.read) = m - 0 /\ Len(a.inpipe) = n - m
        BY <3>1 DEF IsRun
      <4>2. Len(a.inpipe) >= 1 /\ a.sent \in Nat
        BY <2>4, <2>5
      <4> QED BY <4>1, <4>2
    <3>3. a.inpipe[1] = m + 1
      <4>1. 1 \in 1 .. n - m
        BY <3>2
      <4> QED BY <3>1, <4>1 DEF IsRun
    <3>4. IsRun(c.read, 0, m + 1)
      <4>1. \A k \in 1 .. (m + 1) - 0 : c.read[k] = 0 + k
        <5>1. \A k \in 1 .. m : a.read[k] = k
          BY <3>1 DEF IsRun
        <5>2. \A k \in 1 .. (m + 1) - 0 : k = m + 1 \/ k \in 1 .. m
          BY <3>1
        <5> SUFFICES ASSUME NEW k \in 1 .. (m + 1) - 0 PROVE c.read[k] = 0 + k
          OBVIOUS
        <5>3. CASE k = m + 1
          <6>1. c.read[m + 1] = a.inpipe[1]
            BY <2>5, <3>2
          <6> QED BY <3>3, <5>3, <6>1
        <5>4. CASE k \in 1 .. m
          <6>1. c.read[k] = a.read[k]
            BY <2>5, <3>2, <5>4
          <6> QED BY <5>1, <5>4, <6>1
        <5> QED BY <5>2, <5>3, <5>4
      <4> QED BY <2>5, <3>2, <4>1 DEF IsRun
    <3>5. IsRun(c.inpipe, m + 1, n)
      <4>1. \A k \in 1 .. n - (m + 1) : c.inpipe[k] = (m + 1) + k
        <5> SUFFICES ASSUME NEW k \in 1 .. n - (m + 1) PROVE c.inpipe[k] = (m + 1) + k
          OBVIOUS
        <5>1. k \in 1 .. Len(a.inpipe) - 1 /\ k + 1 \in 1 .. n - m /\ m + (k + 1) = (m + 1) + k
          BY <3>2
        <5>2. a.inpipe[k + 1] = m + (k + 1)
          BY <3>1, <5>1 DEF IsRun
        <5> QED BY <2>5, <5>1, <5>2
      <4> QED BY <2>5, <3>2, <4>1 DEF IsRun
    <3>6. Remaining(c) = Remaining(a)
      BY <2>3 DEF Remaining
    <3> QED BY <2>3, <3>1, <3>2, <3>4, <3>5, <3>6 DEF InputRuns
  <2>9. AdGood(c)
    BY <1>1, <1>3, <2>3, <2>7, <2>8 DEF AdGood, a
  <2> QED BY <1>1, <1>2, <2>1, <2>9, AddinFrame, Zenon
<1>5. CASE ChildWrites(i)
  <2> DEFINE c == [a EXCEPT !.wrote = @ + 1, !.outpipe = Append(@, a.wrote + 1)]
  <2>1. ad' = [ad EXCEPT ![i] = c] /\ Len(a.outpipe) < AddinPipe
    BY <1>1, <1>5, Zenon DEF ChildWrites
  <2>2. /\ DOMAIN c = AdFields /\ c.wrote = a.wrote + 1 /\ c.outpipe = Append(a.outpipe, a.wrote + 1)
        /\ \A f \in AdFields \ {"wrote", "outpipe"} : c[f] = a[f]
    BY <1>3, Zenon DEF AdFields
  <2> HIDE DEF c
  <2>3. /\ c.proc = a.proc /\ c.pid = a.pid /\ c.stdin = a.stdin /\ c.stdout = a.stdout
        /\ c.reads = a.reads /\ c.writes = a.writes /\ c.pending = a.pending
        /\ c.offset = a.offset /\ c.inpipe = a.inpipe /\ c.read = a.read /\ c.sent = a.sent
    BY <2>2 DEF AdFields
  <2>4. c.wrote \in Nat /\ c.outpipe \in Seq(Nat) /\ Len(c.outpipe) <= AddinPipe
    <3> DEFINE q == a.outpipe
    <3>1. a.wrote \in Nat /\ q \in Seq(Nat) /\ Len(q) < AddinPipe /\ AddinPipe \in Nat
      BY <1>3, <2>1, AddinConstants, Zenon DEF AdTypes
    <3>2. c.wrote = a.wrote + 1 /\ c.outpipe = Append(q, a.wrote + 1)
      BY <2>2, Zenon
    <3> HIDE DEF q
    <3>3. a.wrote + 1 \in Nat
      BY <3>1
    <3>4. Append(q, a.wrote + 1) \in Seq(Nat) /\ Len(Append(q, a.wrote + 1)) = Len(q) + 1
      BY <3>1, <3>3
    <3>5. Len(q) \in Nat
      BY <3>1
    <3>6. Len(q) + 1 <= AddinPipe
      BY <3>1, <3>5
    <3> QED BY <3>2, <3>3, <3>4, <3>6, Zenon
  <2>5. AdTypes(c)
    BY <1>3, <2>2, <2>3, <2>4 DEF AdTypes
  <2>6. AdGood(c)
    BY <1>1, <1>3, <2>3, <2>5 DEF AdGood, InputRuns, Remaining
  <2> QED BY <1>1, <1>2, <2>1, <2>6, AddinFrame, Zenon
<1>6. CASE ChildEnds(i)
  <2>1. PICK r \in {FALSE, a.reads}, w \in {FALSE, a.writes}, p \in {"runs", "zombie"} :
            ad' = [ad EXCEPT ![i].reads = r, ![i].writes = w, ![i].proc = p]
    BY <1>6, Zenon DEF ChildEnds
  <2> DEFINE c == [a EXCEPT !.reads = r, !.writes = w, !.proc = p]
  <2>2. ad' = [ad EXCEPT ![i] = c]
    BY <1>1, <2>1, Zenon
  <2>3. /\ DOMAIN c = AdFields /\ c.reads = r /\ c.writes = w /\ c.proc = p
        /\ \A f \in AdFields \ {"reads", "writes", "proc"} : c[f] = a[f]
    BY <1>3, Zenon DEF AdFields
  <2> HIDE DEF c
  <2>4. /\ c.pid = a.pid /\ c.stdin = a.stdin /\ c.stdout = a.stdout
        /\ c.pending = a.pending /\ c.offset = a.offset /\ c.inpipe = a.inpipe
        /\ c.outpipe = a.outpipe /\ c.read = a.read /\ c.wrote = a.wrote /\ c.sent = a.sent
    BY <2>3 DEF AdFields
  <2>5. r \in BOOLEAN /\ w \in BOOLEAN
    BY <1>3, Zenon DEF AdTypes
  <2>6. AdTypes(c)
    BY <1>3, <2>3, <2>4, <2>5 DEF AdTypes
  <2>7. AdGood(c)
    BY <1>1, <1>3, <2>3, <2>4, <2>6 DEF AdGood, InputRuns, Remaining
  <2> QED BY <1>1, <1>2, <2>2, <2>7, AddinFrame, Zenon
<1> QED BY <1>4, <1>5, <1>6

(* Every step of the client and of its add-ins keeps the invariant.          *)
LEMMA AddinStep == AddinInv /\ [AddinNext]_addinVars => AddinInv'
<1> SUFFICES ASSUME AddinInv, [AddinNext]_addinVars PROVE AddinInv'
  OBVIOUS
<1>1. DOMAIN ad = AddinIds /\ \A i \in AddinIds : AdGood(ad[i])
  BY DEF AddinInv
<1>2. CASE UNCHANGED addinVars
  BY <1>2 DEF addinVars, AddinInv
<1>3. CASE StartAddins
  BY <1>3, StartKeeps
<1>4. CASE AddFds
  <2>1. /\ DOMAIN ad' = AddinIds /\ \A i \in AddinIds : ad'[i] = PollChild(ad[i])
        /\ adMain'.phase = "select" /\ DOMAIN adMain' = {"phase", "rset", "wset"}
        /\ adMain'.rset \subseteq AddinIds /\ adMain'.wset \subseteq AddinIds
    BY <1>4 DEF AddFds, WriteSet
  <2>2. \A i \in AddinIds : AdGood(ad'[i])
    BY <1>1, <2>1, PollIs
  <2> QED BY <2>1, <2>2 DEF AddinInv
<1>5. CASE AddinCheckFds
  <2>1. ASSUME NEW i \in AddinIds PROVE AdGood(ad'[i])
    <3> DEFINE w == IF ad[i].stdin /\ Writable(i) THEN FlushToChild(ad[i]) ELSE ad[i]
               r == IF w.stdout /\ Readable(i) THEN SendFromChild(w) ELSE w
    <3>1. ad'[i] = PollChild(r)
      BY <1>5 DEF AddinCheckFds
    <3>2. AdGood(w)
      BY <1>1, FlushIs
    <3> HIDE DEF w
    <3>3. AdGood(r)
      BY <3>2, SendIs
    <3> HIDE DEF r
    <3> QED BY <3>1, <3>3, PollIs
  <2>2. DOMAIN ad' = AddinIds
    BY <1>5 DEF AddinCheckFds
  <2>3. /\ adMain'.phase = "loop" /\ DOMAIN adMain' = {"phase", "rset", "wset"}
        /\ adMain'.rset = {} /\ adMain'.wset = {}
    BY <1>5 DEF AddinCheckFds, AddinInv
  <2> QED BY <2>1, <2>2, <2>3 DEF AddinInv
<1>6. CASE Deinit
  <2>1. DOMAIN ad' = AddinIds /\ \A i \in AddinIds : ad'[i] = ShutdownChild(ad[i], TRUE)
    BY <1>6 DEF Deinit
  <2>2. \A i \in AddinIds : AdGood(ad'[i])
    <3> SUFFICES ASSUME NEW i \in AddinIds PROVE AdGood(ad'[i])
      OBVIOUS
    <3> DEFINE x == ad[i]
    <3>1. /\ AdTypes(x) /\ TRUE \in BOOLEAN
          /\ x.pid => x.proc = "reaped" \/ (TRUE /\ x.proc \in {"runs", "zombie"})
          /\ ~x.pid => x.proc \in {"none", "reaped"}
      BY <1>1, Zenon DEF AdGood
    <3> HIDE DEF x
    <3>2. AdGood(ShutdownChild(x, TRUE))
      BY <3>1, ShutdownIs
    <3> QED BY <2>1, <3>2, Zenon DEF x
  <2>3. /\ adMain'.phase = "exited" /\ DOMAIN adMain' = {"phase", "rset", "wset"}
        /\ adMain'.rset = adMain.rset /\ adMain'.wset = adMain.wset
    BY <1>6 DEF Deinit, AddinInv
  <2> QED BY <2>1, <2>2, <2>3 DEF AddinInv
<1>7. ASSUME NEW i \in AddinIds, ProcessIndex(i) PROVE AddinInv'
  <2>1. PICK n \in 1 .. MaxAddinBytes[i] - ad[i].sent :
            ad' = [ad EXCEPT ![i] = QueueToChild([ad[i] EXCEPT !.sent = @ + n],
                                                 [k \in 1 .. n |-> ad[i].sent + k])]
    BY <1>7, Zenon DEF ProcessIndex
  <2> DEFINE b == QueueToChild([ad[i] EXCEPT !.sent = @ + n], [k \in 1 .. n |-> ad[i].sent + k])
  <2>2. ad' = [ad EXCEPT ![i] = b]
    BY <1>1, <2>1
  <2>3. n \in Nat
    <3>1. MaxAddinBytes[i] \in Nat /\ ad[i].sent \in Nat
      BY <1>1, AddinConstants DEF AdGood, AdTypes
    <3> QED BY <3>1
  <2>4. AdGood(b)
    BY <1>1, <2>3, QueueIs
  <2> HIDE DEF b
  <2>5. adMain.phase # "start" /\ UNCHANGED adMain
    BY <1>7 DEF ProcessIndex
  <2> QED BY <2>2, <2>4, <2>5, AddinFrame, Zenon
<1>8. ASSUME NEW i \in AddinIds, ChildReads(i) \/ ChildWrites(i) \/ ChildEnds(i) PROVE AddinInv'
  BY <1>8, ChildKeeps
<1> QED BY <1>2, <1>3, <1>4, <1>5, <1>6, <1>7, <1>8 DEF AddinNext, AddinLoop

-----------------------------------------------------------------------------
(* The control socket (ctrl.c) *)

CtFields == {"name", "pc", "slaves", "backlog", "wire", "replies"}
CtrlPcs == {"start", "verify", "unlink", "bind", "listen", "master", "cleanup",
            "slave", "send", "newline", "wait", "done"}
Symbols == Commands \cup {Newline}
Socks == Instances \X {"probe", "call"}
Entries == [sock : Socks, buf : Seq(Symbols)]

CtTypes(t) ==
    /\ DOMAIN t = CtFields
    /\ t.name \in Instances \cup {Nobody}
    /\ t.pc \in [Instances -> CtrlPcs]
    /\ t.slaves \in [Instances -> Seq(Entries)]
    /\ t.backlog \in [Instances -> Seq(Socks)]
    /\ t.wire \in [Instances -> Seq(Symbols)]
    /\ t.replies \in [Instances -> Seq({"OK"})]

NoNewline(s) == \A i \in 1 .. Len(s) : s[i] # Newline

(* The whole command has been sent. *)
HasSent(pc) == pc \in {"wait", "done"}

(* What a slave has on the wire, at most. *)
Room(pc) == IF HasSent(pc) THEN 2 ELSE IF pc = "newline" THEN 1 ELSE 0

(* No master has a newline of slave q in a line.                             *)
LinesOpen(t, q) ==
    \A m \in Instances : \A i \in 1 .. Len(t.slaves[m]) :
        t.slaves[m][i].sock[1] = q => NoNewline(t.slaves[m][i].buf)

(* A command is run when its newline is read: all of it is off the wire.     *)
SlaveGood(t, run, q) ==
    /\ Len(t.replies[q]) = run[q] /\ run[q] \in {0, 1}
    /\ run[q] = 1 => t.wire[q] = << >> /\ HasSent(t.pc[q])
    /\ Len(t.wire[q]) <= Room(t.pc[q])
    /\ ~HasSent(t.pc[q]) => NoNewline(t.wire[q]) /\ LinesOpen(t, q)

CtGood(t, run) ==
    /\ CtTypes(t) /\ run \in [Instances -> Nat]
    /\ \A q \in Instances : SlaveGood(t, run, q)

CtrlInv ==
    /\ DOMAIN ctRun = {"run", "answered", "crashes"}
    /\ CtGood(ct, ctRun.run)
    /\ ctRun.crashes \in 0 .. MaxCtrlCrashes
    /\ ctRun.answered \in [Instances -> {"OK", "none"}]
    /\ \A p \in Instances : ctRun.answered[p] = "OK" => ctRun.run[p] = 1

(* A step of p that runs no command leaves the slaves as they should be.     *)
LEMMA SlavesFrame ==
    ASSUME NEW t, NEW run, CtGood(t, run), NEW u, CtTypes(u), NEW p \in Instances,
           u.replies = t.replies,
           \A q \in Instances \ {p} : u.pc[q] = t.pc[q] /\ u.wire[q] = t.wire[q],
           Len(u.wire[p]) <= Room(u.pc[p]),
           run[p] = 1 => u.wire[p] = << >> /\ HasSent(u.pc[p]),
           ~HasSent(u.pc[p]) => NoNewline(u.wire[p]),
           \A q \in Instances : ~HasSent(u.pc[q]) => LinesOpen(u, q)
    PROVE  CtGood(u, run)
<1>1. ASSUME NEW q \in Instances PROVE SlaveGood(u, run, q)
  <2>1. SlaveGood(t, run, q)
    BY DEF CtGood
  <2>2. CASE q = p
    BY <2>1, <2>2 DEF SlaveGood
  <2>3. CASE q # p
    BY <2>1, <2>3 DEF SlaveGood
  <2> QED BY <2>2, <2>3
<1> QED BY <1>1 DEF CtGood

(* A process goes on; its wire and its connections are left alone.           *)
LEMMA GotoKeeps ==
    ASSUME NEW t, NEW run, CtGood(t, run), NEW p \in Instances, NEW pc \in CtrlPcs,
           pc = "done" \/ (t.pc[p] \notin {"newline", "wait", "done"} /\ pc # "wait")
    PROVE  CtGood(Goto(t, p, pc), run)
<1> DEFINE u == Goto(t, p, pc)
<1>1. CtTypes(t) /\ SlaveGood(t, run, p) /\ \A q \in Instances : SlaveGood(t, run, q)
  BY DEF CtGood
<1>2. /\ DOMAIN u = CtFields /\ u.pc = [t.pc EXCEPT ![p] = pc] /\ u.name = t.name
      /\ u.slaves = t.slaves /\ u.backlog = t.backlog /\ u.wire = t.wire /\ u.replies = t.replies
  BY <1>1 DEF Goto, CtTypes, CtFields
<1> HIDE DEF u
<1>3. t.pc \in [Instances -> CtrlPcs]
  BY <1>1 DEF CtTypes
<1>4. CtTypes(u)
  BY <1>1, <1>2, <1>3 DEF CtTypes
<1>5. u.pc[p] = pc /\ \A q \in Instances \ {p} : u.pc[q] = t.pc[q]
  BY <1>2, <1>3
<1>6. Len(t.wire[p]) \in Nat
  BY <1>1 DEF CtTypes
<1>7. Len(u.wire[p]) <= Room(u.pc[p])
  BY <1>1, <1>2, <1>5, <1>6 DEF SlaveGood, Room, HasSent
<1>8. run[p] = 1 => u.wire[p] = << >> /\ HasSent(u.pc[p])
  BY <1>1, <1>2, <1>5 DEF SlaveGood, HasSent
<1>9. ~HasSent(u.pc[p]) => NoNewline(u.wire[p])
  BY <1>1, <1>2, <1>5 DEF SlaveGood, HasSent
<1>10. \A q \in Instances : ~HasSent(u.pc[q]) => LinesOpen(u, q)
  <2> SUFFICES ASSUME NEW q \in Instances, ~HasSent(u.pc[q]) PROVE LinesOpen(u, q)
    OBVIOUS
  <2>1. ~HasSent(t.pc[q])
    BY <1>5 DEF HasSent
  <2>2. LinesOpen(t, q)
    BY <1>1, <2>1 DEF SlaveGood
  <2> QED BY <1>2, <2>2 DEF LinesOpen
<1> QED BY <1>2, <1>4, <1>5, <1>7, <1>8, <1>9, <1>10, SlavesFrame, Zenon DEF u

(* Connections waiting to be accepted and the name are no part of that.      *)
LEMMA BacklogKeeps ==
    ASSUME NEW t, NEW run, CtGood(t, run), NEW m \in Instances, NEW s \in Socks
    PROVE  CtGood([t EXCEPT !.backlog[m] = Append(@, s)], run)
<1> DEFINE u == [t EXCEPT !.backlog[m] = Append(@, s)]
<1>1. CtTypes(t)
  BY DEF CtGood
<1>2. /\ DOMAIN u = CtFields /\ u.backlog = [t.backlog EXCEPT ![m] = Append(t.backlog[m], s)]
      /\ u.name = t.name /\ u.slaves = t.slaves /\ u.pc = t.pc /\ u.wire = t.wire
      /\ u.replies = t.replies
  BY <1>1 DEF CtTypes, CtFields
<1> HIDE DEF u
<1>3. u.backlog \in [Instances -> Seq(Socks)]
  <2>1. t.backlog \in [Instances -> Seq(Socks)]
    BY <1>1 DEF CtTypes
  <2>2. Append(t.backlog[m], s) \in Seq(Socks)
    BY <2>1
  <2> QED BY <1>2, <2>1, <2>2
<1>4. CtTypes(u)
  BY <1>1, <1>2, <1>3, Zenon DEF CtTypes
<1>5. \A q \in Instances : SlaveGood(u, run, q)
  BY <1>2 DEF CtGood, SlaveGood, LinesOpen
<1>6. CtGood(u, run)
  BY <1>4, <1>5 DEF CtGood
<1> QED BY <1>6 DEF u

(* The name changes hands. *)
LEMMA NameKeeps ==
    ASSUME NEW t, NEW run, CtGood(t, run), NEW n \in Instances \cup {Nobody}
    PROVE  CtGood([t EXCEPT !.name = n], run) /\ [t EXCEPT !.name = n].pc = t.pc
<1> DEFINE u == [t EXCEPT !.name = n]
<1>1. CtTypes(t)
  BY DEF CtGood
<1>2. /\ DOMAIN u = CtFields /\ u.name = n /\ u.backlog = t.backlog
      /\ u.slaves = t.slaves /\ u.pc = t.pc /\ u.wire = t.wire /\ u.replies = t.replies
  BY <1>1 DEF CtTypes, CtFields
<1> HIDE DEF u
<1>3. CtTypes(u)
  BY <1>1, <1>2 DEF CtTypes
<1>4. \A q \in Instances : SlaveGood(u, run, q)
  BY <1>2 DEF CtGood, SlaveGood, LinesOpen
<1>5. CtGood(u, run)
  BY <1>3, <1>4 DEF CtGood
<1> QED BY <1>2, <1>5 DEF u

(* RemoveAt keeps elements of the sequence only. *)
LEMMA RemoveAtKeeps ==
    ASSUME NEW S, NEW s \in Seq(S), NEW i \in 1 .. Len(s)
    PROVE  /\ RemoveAt(s, i) \in Seq(S)
           /\ \A j \in 1 .. Len(RemoveAt(s, i)) : \E k \in 1 .. Len(s) : RemoveAt(s, i)[j] = s[k]
<1> DEFINE a == SubSeq(s, 1, i - 1)
           b == SubSeq(s, i + 1, Len(s))
<1>1. \A j \in 1 .. Len(s) : s[j] \in S
  OBVIOUS
<1>2. a \in Seq(S) /\ Len(a) = i - 1 /\ \A j \in 1 .. i - 1 : a[j] = s[j]
  BY <1>1, SubSeqProperties
<1>3. /\ b \in Seq(S)
      /\ Len(b) = IF i + 1 <= Len(s) THEN Len(s) - (i + 1) + 1 ELSE 0
      /\ \A j \in 1 .. Len(s) - (i + 1) + 1 : b[j] = s[(i + 1) + j - 1]
  <2>1. \A j \in i + 1 .. Len(s) : s[j] \in S
    BY <1>1
  <2> QED BY <2>1, SubSeqProperties
<1> HIDE DEF a, b
<1>4. RemoveAt(s, i) = a \o b
  BY DEF RemoveAt, a, b
<1>5. a \o b \in Seq(S) /\ Len(a \o b) = Len(a) + Len(b)
  <2>1. a \in Seq(S) /\ b \in Seq(S)
    BY <1>2, <1>3
  <2> QED BY <2>1
<1>6. ASSUME NEW j \in 1 .. Len(a \o b) PROVE \E k \in 1 .. Len(s) : (a \o b)[j] = s[k]
  <2>0. Len(a) \in Nat /\ Len(b) \in Nat /\ a \in Seq(S) /\ b \in Seq(S) /\ Len(s) \in Nat
    BY <1>2, <1>3
  <2>1. CASE j <= Len(a)
    <3>1. (a \o b)[j] = a[j]
      BY <2>0, <2>1
    <3>2. j \in 1 .. i - 1 /\ j \in 1 .. Len(s)
      BY <1>2, <2>1, <2>0
    <3> QED BY <1>2, <3>1, <3>2
  <2>2. CASE ~(j <= Len(a))
    <3>1. (a \o b)[j] = b[j - Len(a)] /\ j - Len(a) \in 1 .. Len(b)
      BY <2>0, <2>2, <1>5
    <3>2. j - Len(a) \in 1 .. Len(s) - (i + 1) + 1 /\ (i + 1) + (j - Len(a)) - 1 \in 1 .. Len(s)
      BY <1>3, <2>0, <3>1
    <3>3. b[j - Len(a)] = s[(i + 1) + (j - Len(a)) - 1]
      BY <1>3, <3>2, Zenon
    <3> QED BY <3>1, <3>2, <3>3, Zenon
  <2> QED BY <2>1, <2>2
<1> QED BY <1>4, <1>5, <1>6

(* Every master's slaves are old ones, or have nothing in their line. *)
OldSlaves(s, r) ==
    \A i \in 1 .. Len(s) : s[i].buf = << >> \/ \E j \in 1 .. Len(r) : s[i] = r[j]

(* The slaves of one master change; no line gets longer. *)
LEMMA SlavesKeep ==
    ASSUME NEW t, NEW run, CtGood(t, run), NEW p \in Instances, NEW u, DOMAIN u = CtFields,
           u.slaves = [t.slaves EXCEPT ![p] = u.slaves[p]], u.slaves[p] \in Seq(Entries),
           OldSlaves(u.slaves[p], t.slaves[p]),
           u.backlog \in [Instances -> Seq(Socks)],
           u.name = t.name, u.pc = t.pc, u.wire = t.wire, u.replies = t.replies
    PROVE  CtGood(u, run)
<1>1. CtTypes(t)
  BY DEF CtGood
<1>2. u.slaves \in [Instances -> Seq(Entries)]
  BY <1>1, Zenon DEF CtTypes
<1>3. CtTypes(u)
  BY <1>1, <1>2, Zenon DEF CtTypes
<1>4. ASSUME NEW q \in Instances, LinesOpen(t, q) PROVE LinesOpen(u, q)
  <2> SUFFICES ASSUME NEW m \in Instances, NEW i \in 1 .. Len(u.slaves[m]),
                      u.slaves[m][i].sock[1] = q
               PROVE  NoNewline(u.slaves[m][i].buf)
    BY DEF LinesOpen
  <2>1. u.slaves[m][i].buf = << >> \/ \E j \in 1 .. Len(t.slaves[m]) : u.slaves[m][i] = t.slaves[m][j]
    <3>1. CASE m = p
      BY <3>1 DEF OldSlaves
    <3>2. CASE m # p
      <4>1. u.slaves[m] = t.slaves[m]
        BY <1>1, <3>2, Zenon DEF CtTypes
      <4> QED BY <4>1
    <3> QED BY <3>1, <3>2
  <2>2. CASE u.slaves[m][i].buf = << >>
    BY <2>2 DEF NoNewline
  <2>3. CASE \E j \in 1 .. Len(t.slaves[m]) : u.slaves[m][i] = t.slaves[m][j]
    BY <1>4, <2>3 DEF LinesOpen
  <2> QED BY <2>1, <2>2, <2>3
<1>5. ASSUME NEW q \in Instances PROVE SlaveGood(u, run, q)
  <2>1. SlaveGood(t, run, q)
    BY DEF CtGood
  <2> QED BY <1>4, <2>1 DEF SlaveGood
<1> QED BY <1>3, <1>5 DEF CtGood

(* ctrl_check_fds accepts a connection. *)
LEMMA AcceptKeeps ==
    ASSUME NEW t, NEW run, CtGood(t, run), NEW p \in Instances, t.backlog[p] # << >>
    PROVE  CtGood([SlaveNew(t, p, Head(t.backlog[p])) EXCEPT !.backlog[p] = Tail(@)], run)
<1> DEFINE s == Head(t.backlog[p])
           n == [sock |-> s, buf |-> << >>]
           u == [SlaveNew(t, p, s) EXCEPT !.backlog[p] = Tail(@)]
<1>1. CtTypes(t)
  BY DEF CtGood
<1>2. /\ t.backlog \in [Instances -> Seq(Socks)] /\ t.slaves \in [Instances -> Seq(Entries)]
      /\ DOMAIN t = CtFields
  BY <1>1 DEF CtTypes
<1>3. s \in Socks /\ Tail(t.backlog[p]) \in Seq(Socks)
  BY <1>2
<1> HIDE DEF s
<1>4. n \in Entries /\ n.buf = << >>
  BY <1>3 DEF Entries
<1>5. /\ DOMAIN u = CtFields
      /\ u.backlog = [t.backlog EXCEPT ![p] = Tail(t.backlog[p])]
      /\ u.slaves = [t.slaves EXCEPT ![p] = Append(t.slaves[p], n)]
      /\ u.name = t.name /\ u.pc = t.pc /\ u.wire = t.wire /\ u.replies = t.replies
  BY <1>2 DEF SlaveNew, CtFields
<1> HIDE DEF n, u
<1>6. u.backlog \in [Instances -> Seq(Socks)]
  BY <1>2, <1>3, <1>5
<1>7. u.slaves[p] = Append(t.slaves[p], n) /\ u.slaves[p] \in Seq(Entries)
  BY <1>2, <1>4, <1>5
<1>8. OldSlaves(u.slaves[p], t.slaves[p])
  <2>1. t.slaves[p] \in Seq(Entries)
    BY <1>2
  <2> SUFFICES ASSUME NEW i \in 1 .. Len(u.slaves[p])
               PROVE  u.slaves[p][i].buf = << >> \/ \E j \in 1 .. Len(t.slaves[p]) : u.slaves[p][i] = t.slaves[p][j]
    BY DEF OldSlaves
  <2>2. i \in 1 .. Len(t.slaves[p]) \/ i = Len(t.slaves[p]) + 1
    BY <1>4, <1>7, <2>1
  <2>3. CASE i \in 1 .. Len(t.slaves[p])
    <3>1. u.slaves[p][i] = t.slaves[p][i]
      BY <1>4, <1>7, <2>1, <2>3
    <3> QED BY <2>3, <3>1
  <2>4. CASE i = Len(t.slaves[p]) + 1
    <3>1. u.slaves[p][i] = n
      BY <1>4, <1>7, <2>1, <2>4
    <3> QED BY <1>4, <3>1
  <2> QED BY <2>2, <2>3, <2>4
<1>9. u.slaves = [t.slaves EXCEPT ![p] = u.slaves[p]]
  BY <1>5, <1>7, Zenon
<1>10. CtGood(u, run)
  BY <1>5, <1>6, <1>7, <1>8, <1>9, SlavesKeep, Zenon
<1> QED BY <1>10 DEF u, s

(* A slave is disconnected. *)
LEMMA DisconnectKeeps ==
    ASSUME NEW t, NEW run, CtGood(t, run), NEW p \in Instances, NEW k \in 1 .. Len(t.slaves[p])
    PROVE  CtGood(SlaveDisconnect(t, p, k), run)
<1> DEFINE u == SlaveDisconnect(t, p, k)
<1>1. CtTypes(t)
  BY DEF CtGood
<1>2. /\ t.backlog \in [Instances -> Seq(Socks)] /\ t.slaves \in [Instances -> Seq(Entries)]
      /\ DOMAIN t = CtFields
  BY <1>1 DEF CtTypes
<1>3. /\ DOMAIN u = CtFields
      /\ u.slaves = [t.slaves EXCEPT ![p] = RemoveAt(t.slaves[p], k)]
      /\ u.backlog = t.backlog
      /\ u.name = t.name /\ u.pc = t.pc /\ u.wire = t.wire /\ u.replies = t.replies
  BY <1>2 DEF SlaveDisconnect, CtFields
<1> HIDE DEF u
<1>4. u.slaves[p] = RemoveAt(t.slaves[p], k)
  BY <1>2, <1>3
<1>5. /\ RemoveAt(t.slaves[p], k) \in Seq(Entries)
      /\ OldSlaves(RemoveAt(t.slaves[p], k), t.slaves[p])
  <2>1. t.slaves[p] \in Seq(Entries)
    BY <1>2
  <2> QED BY <2>1, RemoveAtKeeps DEF OldSlaves
<1>6. u.slaves = [t.slaves EXCEPT ![p] = u.slaves[p]]
  BY <1>3, <1>4
<1>7. CtGood(u, run)
  <2>1. /\ u.slaves[p] \in Seq(Entries) /\ OldSlaves(u.slaves[p], t.slaves[p])
        /\ u.backlog \in [Instances -> Seq(Socks)]
    BY <1>2, <1>3, <1>4, <1>5
  <2> QED BY <1>3, <1>6, <2>1, SlavesKeep, Zenon
<1> QED BY <1>7 DEF u

(* A master that ends drops its slaves. *)
LEMMA CloseKeeps ==
    ASSUME NEW t, NEW run, CtGood(t, run), NEW p \in Instances
    PROVE  CtGood(CloseSlaves(t, p), run) /\ CloseSlaves(t, p).pc = t.pc
<1> DEFINE u == CloseSlaves(t, p)
<1>1. CtTypes(t)
  BY DEF CtGood
<1>2. /\ t.backlog \in [Instances -> Seq(Socks)] /\ t.slaves \in [Instances -> Seq(Entries)]
      /\ DOMAIN t = CtFields
  BY <1>1 DEF CtTypes
<1>3. /\ DOMAIN u = CtFields
      /\ u.slaves = [t.slaves EXCEPT ![p] = << >>] /\ u.backlog = [t.backlog EXCEPT ![p] = << >>]
      /\ u.name = t.name /\ u.pc = t.pc /\ u.wire = t.wire /\ u.replies = t.replies
  BY <1>2 DEF CloseSlaves, CtFields
<1> HIDE DEF u
<1>4. u.slaves[p] = << >> /\ u.backlog \in [Instances -> Seq(Socks)]
  BY <1>2, <1>3
<1>5. u.slaves[p] \in Seq(Entries) /\ OldSlaves(u.slaves[p], t.slaves[p])
  BY <1>4 DEF OldSlaves
<1>6. u.slaves = [t.slaves EXCEPT ![p] = u.slaves[p]]
  BY <1>3, <1>4
<1>7. CtGood(u, run)
  BY <1>3, <1>4, <1>5, <1>6, SlavesKeep, Zenon
<1> QED BY <1>3, <1>7 DEF u

(* Two pieces of a line without a newline make a line without a newline. *)
LEMMA NoNewlineJoin ==
    ASSUME NEW s \in Seq(Symbols), NEW r \in Seq(Symbols), NoNewline(s), NoNewline(r)
    PROVE  NoNewline(s \o r)
<1> SUFFICES ASSUME NEW i \in 1 .. Len(s \o r) PROVE (s \o r)[i] # Newline
  BY DEF NoNewline
<1>1. CASE i <= Len(s)
  <2>1. (s \o r)[i] = s[i] /\ i \in 1 .. Len(s)
    BY <1>1
  <2> QED BY <2>1 DEF NoNewline
<1>2. CASE ~(i <= Len(s))
  <2>1. (s \o r)[i] = r[i - Len(s)] /\ i - Len(s) \in 1 .. Len(r)
    BY <1>2
  <2> QED BY <2>1 DEF NoNewline
<1> QED BY <1>1, <1>2

(* u is t with b as the line of slave k of p, which is s, and q's wire empty. *)
NewLine(u, t, p, k, s, q, b) ==
    /\ DOMAIN u = CtFields
    /\ u.slaves = [t.slaves EXCEPT ![p] = [t.slaves[p] EXCEPT ![k] = [sock |-> s.sock, buf |-> b]]]
    /\ u.wire = [t.wire EXCEPT ![q] = << >>]
    /\ u.name = t.name /\ u.pc = t.pc /\ u.backlog = t.backlog

(* Its command is run and answered, or none is. *)
Answers(u, t, r, run, q) ==
    /\ r \in [Instances -> Nat] /\ u.replies \in [Instances -> Seq({"OK"})]
    /\ \A o \in Instances \ {q} : r[o] = run[o] /\ u.replies[o] = t.replies[o]
    /\ \/ r[q] = run[q] /\ u.replies[q] = t.replies[q]
       \/ HasSent(t.pc[q]) /\ r[q] = run[q] + 1 /\ u.replies[q] = Append(t.replies[q], "OK")

(* What slave q sent is read off the wire: it joins the line, or it ends it  *)
(* and the command is run, once.                                             *)
LEMMA ReadKeeps ==
    ASSUME NEW t, NEW run, CtGood(t, run), NEW p \in Instances, NEW k \in 1 .. Len(t.slaves[p]),
           NEW s \in Entries, s = t.slaves[p][k], NEW q \in Instances, s.sock[1] = q,
           t.wire[q] # << >>, NEW b \in Seq(Symbols), ~HasSent(t.pc[q]) => NoNewline(b),
           NEW u, NewLine(u, t, p, k, s, q, b), NEW r, Answers(u, t, r, run, q)
    PROVE  CtGood(u, r)
<1> DEFINE e == [sock |-> s.sock, buf |-> b]
           l == [t.slaves[p] EXCEPT ![k] = e]
<1>1. /\ CtTypes(t) /\ run \in [Instances -> Nat]
      /\ \A o \in Instances : SlaveGood(t, run, o)
  BY DEF CtGood
<1>0. /\ DOMAIN u = CtFields /\ u.wire = [t.wire EXCEPT ![q] = << >>]
      /\ u.name = t.name /\ u.pc = t.pc /\ u.backlog = t.backlog
  BY DEF NewLine
<1>11. /\ r \in [Instances -> Nat] /\ u.replies \in [Instances -> Seq({"OK"})]
       /\ \A o \in Instances \ {q} : r[o] = run[o] /\ u.replies[o] = t.replies[o]
       /\ \/ r[q] = run[q] /\ u.replies[q] = t.replies[q]
          \/ HasSent(t.pc[q]) /\ r[q] = run[q] + 1 /\ u.replies[q] = Append(t.replies[q], "OK")
  BY DEF Answers
<1>2. /\ t.slaves \in [Instances -> Seq(Entries)] /\ t.wire \in [Instances -> Seq(Symbols)]
      /\ t.replies \in [Instances -> Seq({"OK"})]
  BY <1>1, Zenon DEF CtTypes
<1>3. e \in Entries /\ e.buf = b /\ e.sock[1] = q
  BY DEF Entries
<1> HIDE DEF e
<1>4. /\ l \in Seq(Entries) /\ Len(l) = Len(t.slaves[p]) /\ l[k] = e
      /\ \A j \in 1 .. Len(t.slaves[p]) : j # k => l[j] = t.slaves[p][j]
  <2>1. t.slaves[p] \in Seq(Entries)
    BY <1>2
  <2> QED BY <1>3, <2>1
<1>5. u.slaves = [t.slaves EXCEPT ![p] = l]
  BY DEF e, NewLine
<1> HIDE DEF l
<1>6. u.slaves \in [Instances -> Seq(Entries)] /\ u.slaves[p] = l
  BY <1>2, <1>4, <1>5
<1>7. u.wire \in [Instances -> Seq(Symbols)] /\ u.wire[q] = << >>
      /\ \A o \in Instances \ {q} : u.wire[o] = t.wire[o]
  BY <1>0, <1>2
<1>8. CtTypes(u)
  BY <1>0, <1>1, <1>6, <1>7, <1>11, Zenon DEF CtTypes
<1>9. ASSUME NEW o \in Instances, ~HasSent(t.pc[o]) PROVE LinesOpen(u, o)
  <2>1. LinesOpen(t, o)
    BY <1>1, <1>9 DEF SlaveGood
  <2> SUFFICES ASSUME NEW m \in Instances, NEW i \in 1 .. Len(u.slaves[m]),
                      u.slaves[m][i].sock[1] = o
               PROVE  NoNewline(u.slaves[m][i].buf)
    BY DEF LinesOpen
  <2>2. CASE m = p /\ i = k
    <3>1. u.slaves[m][i] = e
      BY <1>4, <1>6, <2>2
    <3>2. o = q
      BY <1>3, <3>1
    <3> QED BY <1>3, <1>9, <3>1, <3>2
  <2>3. CASE m = p /\ i # k
    <3>1. i \in 1 .. Len(t.slaves[m]) /\ u.slaves[m][i] = t.slaves[m][i]
      BY <1>4, <1>6, <2>3
    <3> QED BY <2>1, <3>1 DEF LinesOpen
  <2>4. CASE m # p
    <3>1. u.slaves[m] = t.slaves[m]
      BY <1>2, <1>5, <2>4
    <3> QED BY <2>1, <3>1 DEF LinesOpen
  <2> QED BY <2>2, <2>3, <2>4
<1>10. ASSUME NEW o \in Instances PROVE SlaveGood(u, r, o)
  <2>1. SlaveGood(t, run, o)
    BY <1>1
  <2>2. CASE o # q
    BY <1>0, <1>7, <1>9, <1>11, <2>1, <2>2, Zenon DEF SlaveGood
  <2>3. CASE o = q
    <3>1. run[q] = 0 /\ Len(t.replies[q]) = 0
      BY <2>1, <2>3 DEF SlaveGood
    <3>2. Len(u.replies[q]) = r[q] /\ r[q] \in {0, 1} /\ (r[q] = 1 => HasSent(t.pc[q]))
      <4>1. t.replies[q] \in Seq({"OK"})
        BY <1>2
      <4> QED BY <1>11, <3>1, <4>1
    <3>3. Len(u.wire[q]) <= Room(u.pc[q]) /\ NoNewline(u.wire[q])
      BY <1>0, <1>7 DEF Room, NoNewline
    <3> QED BY <1>0, <1>7, <1>9, <2>3, <3>2, <3>3 DEF SlaveGood
  <2> QED BY <2>2, <2>3
<1> QED BY <1>8, <1>10, <1>11 DEF CtGood

(* A walk of ctrl_check_fds over n slaves of p, r being the commands run     *)
(* when it began.                                                            *)
WalkGood(w, p, n, r) ==
    /\ DOMAIN w = {"t", "run", "over"} /\ w.over \in BOOLEAN
    /\ CtGood(w.t, w.run)
    /\ ~w.over => Len(w.t.slaves[p]) = n
    /\ \A q \in Instances : r[q] <= w.run[q]

(* In walk w, slave k of p, which is s, is process q with something to read; *)
(* its line would be b.                                                      *)
Reads(w, p, k, t, s, q, b) ==
    /\ t = w.t /\ s = t.slaves[p][k] /\ q = s.sock[1] /\ b = s.buf \o t.wire[q]
    /\ ~w.over /\ Ready(t, s.sock) /\ s.sock[2] # "probe" /\ t.wire[q] # << >>

(* An element of a sequence. *)
LEMMA ElementOf == ASSUME NEW S, NEW x \in Seq(S), NEW k \in 1 .. Len(x) PROVE x[k] \in S
  OBVIOUS

(* Slave q has sent something: it is read, and joins the line or ends it. *)
LEMMA ReceiveIs ==
    ASSUME NEW p \in Instances, NEW n \in Nat, NEW r \in [Instances -> Nat],
           NEW w, WalkGood(w, p, n, r), NEW k \in 1 .. n,
           NEW t, NEW s, NEW q, NEW b, Reads(w, p, k, t, s, q, b)
    PROVE  WalkGood(CheckSlave(p, w, k), p, n, r)
<1>a. /\ DOMAIN w = {"t", "run", "over"} /\ CtGood(t, w.run) /\ CtTypes(t)
      /\ w.run \in [Instances -> Nat] /\ \A o \in Instances : SlaveGood(t, w.run, o)
      /\ w.over \in BOOLEAN /\ Len(t.slaves[p]) = n
      /\ \A o \in Instances : r[o] <= w.run[o]
  BY Zenon DEF WalkGood, CtGood, Reads
<1>b. /\ DOMAIN t = CtFields
      /\ t.slaves \in [Instances -> Seq(Entries)] /\ t.wire \in [Instances -> Seq(Symbols)]
      /\ t.replies \in [Instances -> Seq({"OK"})]
  BY <1>a DEF CtTypes
<1>d. t = w.t /\ s = t.slaves[p][k] /\ q = s.sock[1] /\ b = s.buf \o t.wire[q]
  <2>1. Reads(w, p, k, t, s, q, b)
    OBVIOUS
  <2> QED BY ONLY <2>1, Zenon DEF Reads
<1>c. ~w.over /\ Ready(t, s.sock) /\ ~(s.sock[2] = "probe" \/ t.wire[q] = << >>)
  BY Zenon DEF Reads
<1>1. k \in 1 .. Len(t.slaves[p]) /\ t.slaves[p] \in Seq(Entries)
  BY <1>a, <1>b, <1>c
<1>2. s \in Entries
  <2>1. t.slaves[p][k] \in Entries
    BY <1>1, ElementOf
  <2> QED BY <1>d, <2>1, Zenon
<1>3. q \in Instances /\ s.buf \in Seq(Symbols) /\ DOMAIN s = {"sock", "buf"}
  BY <1>d, <1>2, Zenon DEF Entries, Socks
<1>4. t.wire[q] \in Seq(Symbols) /\ b \in Seq(Symbols)
  <2>1. t.wire[q] \in Seq(Symbols)
    BY <1>b, <1>3
  <2>2. s.buf \o t.wire[q] \in Seq(Symbols)
    BY <1>3, <2>1
  <2> QED BY <1>d, <2>1, <2>2, Zenon
<1>5. ~HasSent(t.pc[q]) => NoNewline(b)
  <2> SUFFICES ASSUME ~HasSent(t.pc[q]) PROVE NoNewline(b)
    OBVIOUS
  <2>1. NoNewline(t.wire[q]) /\ LinesOpen(t, q)
    BY <1>a, <1>3 DEF SlaveGood
  <2>2. NoNewline(s.buf)
    BY <1>d, <1>1, <2>1, Zenon DEF LinesOpen
  <2> QED BY <1>d, <1>3, <1>4, <2>1, <2>2, NoNewlineJoin, Zenon
<1>6. ASSUME NEW x \in Seq(Symbols), ~HasSent(t.pc[q]) => NoNewline(x),
             NEW y \in BOOLEAN, y => HasSent(t.pc[q]),
             NEW v, DOMAIN v = {"t", "run", "over"}, ~v.over, v.over \in BOOLEAN,
             NewLine(v.t, t, p, k, s, q, x),
             v.t.replies = IF y THEN [t.replies EXCEPT ![q] = Append(t.replies[q], "OK")] ELSE t.replies,
             v.run = IF y THEN [w.run EXCEPT ![q] = w.run[q] + 1] ELSE w.run
      PROVE  WalkGood(v, p, n, r)
  <2>0. t.wire[q] # << >>
    BY <1>c
  <2>1. v.run \in [Instances -> Nat] /\ \A o \in Instances : w.run[o] <= v.run[o]
    <3>1. CASE y
      BY <1>a, <1>3, <1>6, <3>1
    <3>2. CASE ~y
      BY <1>a, <1>3, <1>6, <3>2
    <3> QED BY <3>1, <3>2
  <2>2. v.t.replies \in [Instances -> Seq({"OK"})]
    <3>1. Append(t.replies[q], "OK") \in Seq({"OK"})
      BY <1>b, <1>3
    <3>2. CASE y
      <4>1. v.t.replies = [t.replies EXCEPT ![q] = Append(t.replies[q], "OK")]
        BY <1>6, <3>2
      <4> QED BY <1>b, <3>1, <4>1, Zenon
    <3>3. CASE ~y
      BY <1>b, <1>6, <3>3
    <3> QED BY <1>6, <3>2, <3>3
  <2>3. /\ \A o \in Instances \ {q} : v.run[o] = w.run[o] /\ v.t.replies[o] = t.replies[o]
        /\ \/ v.run[q] = w.run[q] /\ v.t.replies[q] = t.replies[q]
           \/ HasSent(t.pc[q]) /\ v.run[q] = w.run[q] + 1
              /\ v.t.replies[q] = Append(t.replies[q], "OK")
    <3>1. CASE y
      BY <1>a, <1>b, <1>3, <1>6, <3>1, Zenon
    <3>2. CASE ~y
      BY <1>6, <3>2
    <3> QED BY <3>1, <3>2
  <2>4. Len(v.t.slaves[p]) = n
    BY <1>a, <1>b, <1>c, <1>1, <1>2, <1>6 DEF NewLine
  <2>6. CtGood(v.t, v.run)
    <3>1. CtGood(t, w.run) /\ s = t.slaves[p][k] /\ s.sock[1] = q
      BY <1>a, <1>d, Zenon
    <3>2. NewLine(v.t, t, p, k, s, q, x)
      BY <1>6
    <3>3. Answers(v.t, t, v.run, w.run, q)
      BY <2>1, <2>2, <2>3, Zenon DEF Answers
    <3>4. x \in Seq(Symbols) /\ (~HasSent(t.pc[q]) => NoNewline(x))
      BY <1>6
    <3> QED BY <1>1, <1>2, <1>3, <2>0, <3>1, <3>2, <3>3, <3>4, ReadKeeps, Zenon
  <2>7. \A o \in Instances : r[o] <= v.run[o]
    <3> SUFFICES ASSUME NEW o \in Instances PROVE r[o] <= v.run[o]
      OBVIOUS
    <3>1. r[o] \in Nat /\ w.run[o] \in Nat /\ v.run[o] \in Nat
      BY <1>a, <2>1
    <3> QED BY <1>a, <2>1, <3>1
  <2> QED BY <1>6, <2>4, <2>6, <2>7 DEF WalkGood
<1> DEFINE c == [w EXCEPT !.t.wire[q] = << >>]
<1>7. /\ DOMAIN c = {"t", "run", "over"} /\ c.run = w.run /\ c.over = w.over
      /\ DOMAIN c.t = CtFields /\ c.t.wire = [t.wire EXCEPT ![q] = << >>]
      /\ c.t.slaves = t.slaves /\ c.t.name = t.name /\ c.t.pc = t.pc
      /\ c.t.backlog = t.backlog /\ c.t.replies = t.replies
  BY <1>a, <1>b, <1>d, Zenon DEF CtFields
<1>8. ASSUME NEW x
      PROVE  NewLine(SetBuffer(c.t, p, k, x), t, p, k, s, q, x) /\ SetBuffer(c.t, p, k, x).replies = t.replies
  <2> DEFINE d == SetBuffer(c.t, p, k, x)
  <2> HIDE DEF c
  <2>1. /\ DOMAIN d = CtFields /\ d.wire = c.t.wire /\ d.name = c.t.name /\ d.pc = c.t.pc
        /\ d.backlog = c.t.backlog /\ d.replies = c.t.replies
        /\ d.slaves = [c.t.slaves EXCEPT ![p] = [c.t.slaves[p] EXCEPT ![k] = [c.t.slaves[p][k] EXCEPT !.buf = x]]]
    BY <1>7 DEF SetBuffer, CtFields
  <2>2. [s EXCEPT !.buf = x] = [sock |-> s.sock, buf |-> x]
    BY <1>3
  <2>3. c.t.slaves[p][k] = s /\ c.t.slaves[p] = t.slaves[p]
    BY <1>d, <1>7, Zenon
  <2>4. d.slaves = [t.slaves EXCEPT ![p] = [t.slaves[p] EXCEPT ![k] = [sock |-> s.sock, buf |-> x]]]
    BY <1>7, <2>1, <2>2, <2>3, Zenon
  <2> HIDE DEF d
  <2>5. NewLine(d, t, p, k, s, q, x) /\ d.replies = t.replies
    BY <1>7, <2>1, <2>4 DEF NewLine
  <2> QED BY <2>5 DEF d
<1>9. CASE LineComplete(b)
  <2> DEFINE d == SetBuffer(c.t, p, k, << >>)
             v == Dispatch([c EXCEPT !.t = d], q)
  <2>1. CheckSlave(p, w, k) = v
    BY <1>c, <1>d, <1>9, Zenon DEF CheckSlave
  <2>2. HasSent(t.pc[q])
    <3>1. PICK i \in 2 .. Len(b) : b[i] = Newline
      BY <1>9 DEF LineComplete
    <3>2. i \in 1 .. Len(b)
      BY <1>4
    <3>3. ~NoNewline(b)
      BY <3>1, <3>2 DEF NoNewline
    <3> QED BY <1>5, <3>3
  <2>3. NewLine(d, t, p, k, s, q, << >>) /\ d.replies = t.replies
    BY <1>8
  <2> HIDE DEF c, d
  <2>4. /\ DOMAIN v = {"t", "run", "over"} /\ v.over = w.over
        /\ v.run = [w.run EXCEPT ![q] = w.run[q] + 1]
        /\ DOMAIN v.t = CtFields /\ v.t.slaves = d.slaves /\ v.t.wire = d.wire
        /\ v.t.name = d.name /\ v.t.pc = d.pc /\ v.t.backlog = d.backlog
        /\ v.t.replies = [d.replies EXCEPT ![q] = Append(d.replies[q], "OK")]
    BY <1>7, <2>3, Zenon DEF Dispatch, CtFields, NewLine
  <2> HIDE DEF v
  <2>5. << >> \in Seq(Symbols) /\ NoNewline(<< >>)
    BY DEF NoNewline
  <2>6. ~v.over /\ v.over \in BOOLEAN
    BY <1>a, <1>c, <2>4
  <2>7. v.t.replies = [t.replies EXCEPT ![q] = Append(t.replies[q], "OK")]
    BY <2>3, <2>4
  <2>9. NewLine(v.t, t, p, k, s, q, << >>)
    BY <2>3, <2>4 DEF NewLine
  <2>8. WalkGood(v, p, n, r)
    BY <1>6, <2>2, <2>9, <2>4, <2>5, <2>6, <2>7, Zenon
  <2> QED BY <2>1, <2>8
<1>10. CASE ~LineComplete(b)
  <2> DEFINE d == SetBuffer(c.t, p, k, b)
             v == [c EXCEPT !.t = d]
  <2>1. CheckSlave(p, w, k) = v
    BY <1>c, <1>d, <1>10, Zenon DEF CheckSlave
  <2>3. NewLine(d, t, p, k, s, q, b) /\ d.replies = t.replies
    BY <1>8
  <2> HIDE DEF c, d
  <2>4. DOMAIN v = {"t", "run", "over"} /\ v.over = w.over /\ v.run = w.run /\ v.t = d
    BY <1>7
  <2> HIDE DEF v
  <2>6. ~v.over /\ v.over \in BOOLEAN
    BY <1>a, <1>c, <2>4
  <2>7. NewLine(v.t, t, p, k, s, q, b) /\ v.t.replies = t.replies
    BY <2>3, <2>4
  <2>8. WalkGood(v, p, n, r)
    BY <1>4, <1>5, <1>6, <2>7, <2>4, <2>6
  <2> QED BY <2>1, <2>8
<1> QED BY <1>9, <1>10

(* One slave is looked at. *)
LEMMA CheckSlaveIs ==
    ASSUME NEW p \in Instances, NEW n \in Nat, NEW r \in [Instances -> Nat],
           NEW w, WalkGood(w, p, n, r), NEW k \in 1 .. n
    PROVE  WalkGood(CheckSlave(p, w, k), p, n, r)
<1> DEFINE t == w.t
           s == t.slaves[p][k]
           q == s.sock[1]
           b == s.buf \o t.wire[q]
<1>1. /\ DOMAIN w = {"t", "run", "over"} /\ CtGood(t, w.run) /\ CtTypes(t)
      /\ w.run \in [Instances -> Nat] /\ \A o \in Instances : SlaveGood(t, w.run, o)
      /\ w.over \in BOOLEAN /\ (~w.over => Len(t.slaves[p]) = n)
      /\ \A o \in Instances : r[o] <= w.run[o]
  BY DEF WalkGood, CtGood
<1>2. /\ DOMAIN t = CtFields
      /\ t.slaves \in [Instances -> Seq(Entries)] /\ t.wire \in [Instances -> Seq(Symbols)]
      /\ t.replies \in [Instances -> Seq({"OK"})]
  BY <1>1 DEF CtTypes
<1>3. CASE w.over \/ ~Ready(t, s.sock)
  <2>1. CheckSlave(p, w, k) = w
    BY <1>3 DEF CheckSlave
  <2> QED BY <2>1
<1>4. CASE ~w.over /\ Ready(t, s.sock) /\ (s.sock[2] = "probe" \/ t.wire[q] = << >>)
  <2> DEFINE v == [w EXCEPT !.t = SlaveDisconnect(t, p, k), !.over = TRUE]
  <2>1. CheckSlave(p, w, k) = v
    BY <1>4, Zenon DEF CheckSlave
  <2>2. DOMAIN v = {"t", "run", "over"} /\ v.over = TRUE /\ v.run = w.run
        /\ v.t = SlaveDisconnect(t, p, k)
    BY <1>1
  <2> HIDE DEF v
  <2>3. k \in 1 .. Len(t.slaves[p])
    BY <1>1, <1>4
  <2>4. CtGood(v.t, v.run)
    BY <1>1, <2>2, <2>3, DisconnectKeeps
  <2> QED BY <1>1, <2>1, <2>2, <2>4, Zenon DEF WalkGood
<1>5. CASE ~w.over /\ Ready(t, s.sock) /\ ~(s.sock[2] = "probe" \/ t.wire[q] = << >>)
  <2> HIDE DEF t, s, q, b
  <2>1. t = w.t /\ s = t.slaves[p][k] /\ q = s.sock[1] /\ b = s.buf \o t.wire[q]
    BY DEF t, s, q, b
  <2>2. Reads(w, p, k, t, s, q, b)
    BY <1>5, <2>1, Zenon DEF Reads
  <2> QED BY <2>2, ReceiveIs
<1> QED BY <1>1, <1>3, <1>4, <1>5

(* The walk over the first n slaves of p. *)
IsCtWalk(f, p, u, n) ==
    f = [k \in 0 .. n |-> IF k = 0 THEN u ELSE CheckSlave(p, f[k - 1], k)]

(* There is one for every n. *)
LEMMA CtWalkExists ==
    ASSUME NEW p, NEW u, NEW n \in Nat
    PROVE  \E f : IsCtWalk(f, p, u, n)
<1> DEFINE S == {k \in Nat : \E f : IsCtWalk(f, p, u, k)}
<1>1. 0 \in S
  <2> DEFINE f == [k \in 0 .. 0 |-> u]
  <2>1. IsCtWalk(f, p, u, 0)
    BY DEF IsCtWalk
  <2> QED BY <2>1
<1>2. ASSUME NEW m \in Nat, m \in S PROVE m + 1 \in S
  <2>1. PICK f : IsCtWalk(f, p, u, m)
    BY <1>2
  <2> DEFINE g == [k \in 0 .. m + 1 |-> IF k = m + 1 THEN CheckSlave(p, f[m], m + 1) ELSE f[k]]
  <2>2. \A k \in 0 .. m : f[k] = IF k = 0 THEN u ELSE CheckSlave(p, f[k - 1], k)
    BY <2>1 DEF IsCtWalk
  <2>3. \A k \in 0 .. m : g[k] = f[k]
    OBVIOUS
  <2>4. g[m + 1] = CheckSlave(p, f[m], m + 1)
    OBVIOUS
  <2>5. ASSUME NEW k \in 0 .. m + 1
        PROVE  g[k] = IF k = 0 THEN u ELSE CheckSlave(p, g[k - 1], k)
    <3>1. CASE k = m + 1
      <4>1. k - 1 = m /\ m \in 0 .. m /\ k # 0
        BY <3>1
      <4>2. g[m] = f[m]
        BY <2>3, <4>1
      <4> HIDE DEF g
      <4> QED BY <2>4, <3>1, <4>1, <4>2
    <3>2. CASE k \in 0 .. m
      <4>1. k = 0 \/ k - 1 \in 0 .. m
        BY <3>2
      <4> HIDE DEF g
      <4> QED BY <2>2, <2>3, <3>2, <4>1
    <3> QED BY <3>1, <3>2
  <2>6. g = [k \in 0 .. m + 1 |-> g[k]]
    OBVIOUS
  <2> HIDE DEF g
  <2>7. IsCtWalk(g, p, u, m + 1)
    BY <2>5, <2>6, Zenon DEF IsCtWalk
  <2> QED BY <2>7
<1> HIDE DEF S
<1>3. Nat \subseteq S
  BY <1>1, <1>2, Induct
<1> QED BY <1>3 DEF S

(* ctrl_check_fds reads every slave it may. *)
LEMMA CheckSlavesIs ==
    ASSUME NEW p \in Instances, NEW r \in [Instances -> Nat], NEW u, NEW n \in Nat,
           WalkGood(u, p, n, r), Len(u.t.slaves[p]) = n
    PROVE  WalkGood(CheckSlaves(p, u), p, n, r)
<1> DEFINE P(f) == f = [k \in 0 .. n |-> IF k = 0 THEN u ELSE CheckSlave(p, f[k - 1], k)]
           g == CHOOSE f : P(f)
<1>1. CheckSlaves(p, u) = g[n]
  BY DEF CheckSlaves
<1>2. \A f : P(f) <=> IsCtWalk(f, p, u, n)
  BY DEF IsCtWalk
<1>3. \E f : P(f)
  BY <1>2, CtWalkExists, Zenon
<1>4. P(g)
  BY <1>3, Zenon
<1>5. IsCtWalk(g, p, u, n)
  BY <1>2, <1>4, Zenon
<1> HIDE DEF g
<1>6. \A k \in 0 .. n : g[k] = IF k = 0 THEN u ELSE CheckSlave(p, g[k - 1], k)
  BY <1>5 DEF IsCtWalk
<1> DEFINE S == {k \in Nat : k <= n => WalkGood(g[k], p, n, r)}
<1>7. 0 \in S
  <2>1. g[0] = u
    BY <1>6
  <2> QED BY <2>1
<1>8. ASSUME NEW k \in Nat, k \in S PROVE k + 1 \in S
  <2> SUFFICES ASSUME k + 1 <= n PROVE WalkGood(g[k + 1], p, n, r)
    OBVIOUS
  <2>1. WalkGood(g[k], p, n, r) /\ k + 1 \in 1 .. n
    BY <1>8
  <2>2. g[k + 1] = CheckSlave(p, g[k], k + 1)
    <3>1. k + 1 \in 0 .. n /\ k + 1 # 0 /\ (k + 1) - 1 = k
      OBVIOUS
    <3> QED BY <1>6, <3>1
  <2> QED BY <2>1, <2>2, CheckSlaveIs
<1> HIDE DEF S
<1>9. Nat \subseteq S
  BY <1>7, <1>8, Induct, Zenon
<1>10. WalkGood(g[n], p, n, r)
  BY <1>9 DEF S
<1> QED BY <1>1, <1>10

(* At the beginning nobody has sent anything. *)
LEMMA CtrlInitInv == CtrlInit => CtrlInv
<1> SUFFICES ASSUME CtrlInit PROVE CtrlInv
  OBVIOUS
<1>1. /\ DOMAIN ct = CtFields /\ ct.name = Nobody
      /\ ct.pc = [p \in Instances |-> "start"] /\ ct.slaves = [p \in Instances |-> << >>]
      /\ ct.backlog = [p \in Instances |-> << >>] /\ ct.wire = [p \in Instances |-> << >>]
      /\ ct.replies = [p \in Instances |-> << >>]
  BY DEF CtrlInit, CtFields
<1>2. /\ DOMAIN ctRun = {"run", "answered", "crashes"} /\ ctRun.crashes = 0
      /\ ctRun.run = [p \in Instances |-> 0] /\ ctRun.answered = [p \in Instances |-> "none"]
  BY DEF CtrlInit
<1>3. CtTypes(ct)
  BY <1>1 DEF CtTypes, CtrlPcs
<1>4. ASSUME NEW q \in Instances PROVE SlaveGood(ct, ctRun.run, q)
  BY <1>1, <1>2 DEF SlaveGood, LinesOpen, NoNewline, HasSent, Room
<1>5. CtGood(ct, ctRun.run)
  BY <1>2, <1>3, <1>4 DEF CtGood
<1> QED BY <1>2, <1>5, CtrlConstants DEF CtrlInv

(* What the invariant is for. *)
LEMMA CtrlInvGives == CtrlInv => CtrlTypeOK /\ CommandsRunOnce
<1> SUFFICES ASSUME CtrlInv PROVE CtrlTypeOK /\ CommandsRunOnce
  OBVIOUS
<1>1. CtTypes(ct) /\ \A q \in Instances : SlaveGood(ct, ctRun.run, q)
  BY DEF CtrlInv, CtGood
<1>2. ASSUME NEW p \in Instances
      PROVE  /\ ct.pc[p] \in CtrlPcs
             /\ \A i \in 1 .. Len(ct.slaves[p]) : ct.slaves[p][i].sock[1] \in Instances
             /\ \A i \in 1 .. Len(ct.backlog[p]) : ct.backlog[p][i][1] \in Instances
             /\ Len(ct.wire[p]) <= 2
  <2>1. /\ ct.slaves[p] \in Seq(Entries) /\ ct.backlog[p] \in Seq(Socks)
        /\ ct.wire[p] \in Seq(Symbols) /\ ct.pc[p] \in CtrlPcs
    BY <1>1 DEF CtTypes
  <2>2. \A i \in 1 .. Len(ct.slaves[p]) : ct.slaves[p][i].sock[1] \in Instances
    <3> SUFFICES ASSUME NEW i \in 1 .. Len(ct.slaves[p]) PROVE ct.slaves[p][i].sock[1] \in Instances
      OBVIOUS
    <3>1. ct.slaves[p][i] \in Entries
      BY <2>1, ElementOf
    <3> QED BY <3>1 DEF Entries, Socks
  <2>3. \A i \in 1 .. Len(ct.backlog[p]) : ct.backlog[p][i][1] \in Instances
    <3> SUFFICES ASSUME NEW i \in 1 .. Len(ct.backlog[p]) PROVE ct.backlog[p][i][1] \in Instances
      OBVIOUS
    <3>1. ct.backlog[p][i] \in Socks
      BY <2>1, ElementOf
    <3> QED BY <3>1 DEF Socks
  <2>4. Len(ct.wire[p]) \in Nat /\ Len(ct.wire[p]) <= Room(ct.pc[p])
    BY <1>1, <2>1 DEF SlaveGood
  <2> QED BY <2>1, <2>2, <2>3, <2>4 DEF Room
<1>3. CtrlTypeOK
  BY <1>1, <1>2 DEF CtrlTypeOK, CtTypes, CtrlInv, CtrlPcs
<1>4. ASSUME NEW p \in Instances PROVE ctRun.run[p] <= 1 /\ Len(ct.replies[p]) <= 1
  BY <1>1 DEF SlaveGood
<1>5. CommandsRunOnce
  BY <1>4 DEF CommandsRunOnce, CtrlInv
<1> QED BY <1>3, <1>5

(* A slave sends one of the two pieces of its command. *)
LEMMA PieceKeeps ==
    ASSUME NEW t, NEW run, CtGood(t, run), NEW p \in Instances, NEW c \in Symbols, NEW pc,
           \/ t.pc[p] = "send" /\ pc = "newline" /\ c # Newline
           \/ t.pc[p] = "newline" /\ pc = "wait"
    PROVE  CtGood(Goto([t EXCEPT !.wire[p] = Append(@, c)], p, pc), run)
<1> DEFINE u == Goto([t EXCEPT !.wire[p] = Append(@, c)], p, pc)
           l == Append(t.wire[p], c)
<1>1. CtTypes(t) /\ SlaveGood(t, run, p) /\ \A q \in Instances : SlaveGood(t, run, q)
  BY DEF CtGood
<1>2. /\ DOMAIN t = CtFields /\ t.pc \in [Instances -> CtrlPcs] /\ t.wire \in [Instances -> Seq(Symbols)]
  BY <1>1 DEF CtTypes
<1>3. /\ DOMAIN u = CtFields /\ u.pc = [t.pc EXCEPT ![p] = pc] /\ u.name = t.name
      /\ u.wire = [t.wire EXCEPT ![p] = l]
      /\ u.slaves = t.slaves /\ u.backlog = t.backlog /\ u.replies = t.replies
  BY <1>2 DEF Goto, CtFields
<1> HIDE DEF u
<1>4. /\ t.wire[p] \in Seq(Symbols) /\ l \in Seq(Symbols) /\ Len(l) = Len(t.wire[p]) + 1
      /\ Len(t.wire[p]) \in Nat /\ l[Len(t.wire[p]) + 1] = c
      /\ \A i \in 1 .. Len(t.wire[p]) : l[i] = t.wire[p][i]
  BY <1>2
<1> HIDE DEF l
<1>5. pc \in CtrlPcs
  BY DEF CtrlPcs
<1>6. CtTypes(u)
  <2>1. u.pc \in [Instances -> CtrlPcs] /\ u.wire \in [Instances -> Seq(Symbols)]
    BY <1>2, <1>3, <1>4, <1>5
  <2> QED BY <1>1, <1>3, <2>1, Zenon DEF CtTypes
<1>7. /\ u.pc[p] = pc /\ u.wire[p] = l
      /\ \A q \in Instances \ {p} : u.pc[q] = t.pc[q] /\ u.wire[q] = t.wire[q]
  BY <1>2, <1>3
<1>8. Len(u.wire[p]) <= Room(u.pc[p])
  BY <1>1, <1>4, <1>7 DEF SlaveGood, Room, HasSent
<1>9. run[p] = 1 => u.wire[p] = << >> /\ HasSent(u.pc[p])
  BY <1>1 DEF SlaveGood, HasSent
<1>10. ~HasSent(u.pc[p]) => NoNewline(u.wire[p])
  <2> SUFFICES ASSUME ~HasSent(pc), NEW i \in 1 .. Len(l) PROVE l[i] # Newline
    BY <1>7 DEF NoNewline
  <2>1. t.pc[p] = "send" /\ c # Newline
    BY DEF HasSent
  <2>2. NoNewline(t.wire[p])
    BY <1>1, <2>1 DEF SlaveGood, HasSent
  <2>3. i \in 1 .. Len(t.wire[p]) \/ i = Len(t.wire[p]) + 1
    BY <1>4
  <2> QED BY <1>4, <2>1, <2>2, <2>3, Zenon DEF NoNewline
<1>11. \A q \in Instances : ~HasSent(u.pc[q]) => LinesOpen(u, q)
  <2> SUFFICES ASSUME NEW q \in Instances, ~HasSent(u.pc[q]) PROVE LinesOpen(u, q)
    OBVIOUS
  <2>1. ~HasSent(t.pc[q])
    BY <1>7 DEF HasSent
  <2>2. LinesOpen(t, q)
    BY <1>1, <2>1 DEF SlaveGood
  <2> QED BY <1>3, <2>2 DEF LinesOpen
<1>13. \A q \in Instances \ {p} : u.pc[q] = t.pc[q] /\ u.wire[q] = t.wire[q]
  BY <1>7
<1>14. u.replies = t.replies
  BY <1>3
<1>12. CtGood(u, run)
  BY <1>6, <1>8, <1>9, <1>10, <1>11, <1>13, <1>14, SlavesFrame
<1> QED BY <1>12 DEF u

(* Every step of every process keeps the invariant. *)
LEMMA CtrlStep == CtrlInv /\ [CtrlNext]_ctrlVars => CtrlInv'
<1> SUFFICES ASSUME CtrlInv, [CtrlNext]_ctrlVars PROVE CtrlInv'
  OBVIOUS
<1>1. /\ CtGood(ct, ctRun.run) /\ CtTypes(ct) /\ DOMAIN ctRun = {"run", "answered", "crashes"}
      /\ ctRun.run \in [Instances -> Nat] /\ ct.name \in Instances \cup {Nobody}
      /\ \A q \in Instances : SlaveGood(ct, ctRun.run, q)
  BY Zenon DEF CtrlInv, CtGood, CtTypes
<1>2. ASSUME UNCHANGED ctRun, CtGood(ct', ctRun.run) PROVE CtrlInv'
  <2>1. CtGood(ct', ctRun'.run)
    BY <1>2
  <2> QED BY <1>2, <2>1 DEF CtrlInv
<1>3. CASE UNCHANGED ctrlVars
  BY <1>1, <1>2, <1>3 DEF ctrlVars
<1>4. ASSUME NEW p \in Instances, Stat(p) \/ Listen(p) PROVE CtrlInv'
  <2>1. PICK pc \in {"bind", "verify", "master"} : ct' = Goto(ct, p, pc)
    BY <1>4 DEF Stat, Listen
  <2>2. ct.pc[p] \in {"start", "listen"} /\ UNCHANGED ctRun
    BY <1>4 DEF Stat, Listen
  <2>3. pc \in CtrlPcs
    BY DEF CtrlPcs
  <2> QED BY <1>1, <1>2, <2>1, <2>2, <2>3, GotoKeeps
<1>5. ASSUME NEW p \in Instances, NEW s \in Socks, NEW pc \in {"slave", "send"},
             Listens(ct.name), ct.pc[p] \in {"verify", "slave"},
             ct' = Goto([ct EXCEPT !.backlog[ct.name] = Append(@, s)], p, pc), UNCHANGED ctRun
      PROVE  CtrlInv'
  <2> DEFINE u == [ct EXCEPT !.backlog[ct.name] = Append(@, s)]
  <2>1. ct.name \in Instances
    BY <1>1, <1>5 DEF Listens
  <2>2. CtGood(u, ctRun.run)
    BY <1>1, <2>1, BacklogKeeps, Zenon
  <2>3. u.pc = ct.pc
    BY <1>1 DEF CtTypes, CtFields
  <2> HIDE DEF u
  <2>4. pc \in CtrlPcs
    BY DEF CtrlPcs
  <2>5. CtGood(Goto(u, p, pc), ctRun.run)
    BY <1>5, <2>2, <2>3, <2>4, GotoKeeps
  <2>6. ct' = Goto(u, p, pc)
    BY <1>5 DEF u
  <2> QED BY <1>2, <1>5, <2>5, <2>6
<1>6. ASSUME NEW p \in Instances, NEW pc \in {"unlink", "done"}, UNCHANGED ctRun,
             ct' = Goto(ct, p, pc), ct.pc[p] = "verify" \/ pc = "done"
      PROVE  CtrlInv'
  <2>1. pc \in CtrlPcs
    BY DEF CtrlPcs
  <2> QED BY <1>1, <1>2, <1>6, <2>1, GotoKeeps
<1>7. ASSUME NEW p \in Instances, Verify(p) \/ SlaveConnect(p) PROVE CtrlInv'
  <2>1. CASE Verify(p)
    <3>1. Knock(p) \in Socks
      BY DEF Knock, Socks
    <3> QED BY <1>5, <1>6, <2>1, <3>1 DEF Verify
  <2>2. CASE SlaveConnect(p)
    <3>1. Call(p) \in Socks
      BY DEF Call, Socks
    <3> QED BY <1>5, <1>6, <2>2, <3>1, Zenon DEF SlaveConnect
  <2> QED BY <1>7, <2>1, <2>2
<1>8. ASSUME NEW p \in Instances, NEW n \in Instances \cup {Nobody}, NEW pc \in {"bind", "listen", "done"},
             ct.pc[p] \in {"unlink", "bind"} \/ pc = "done",
             ct' = Goto([ct EXCEPT !.name = n], p, pc), UNCHANGED ctRun
      PROVE  CtrlInv'
  <2> DEFINE u == [ct EXCEPT !.name = n]
  <2>1. CtGood(u, ctRun.run) /\ u.pc = ct.pc
    BY <1>1, NameKeeps
  <2> HIDE DEF u
  <2>2. pc \in CtrlPcs
    BY DEF CtrlPcs
  <2>3. CtGood(Goto(u, p, pc), ctRun.run)
    BY <1>8, <2>1, <2>2, GotoKeeps
  <2>4. ct' = Goto(u, p, pc)
    BY <1>8 DEF u
  <2> QED BY <1>2, <1>8, <2>3, <2>4
<1>9. ASSUME NEW p \in Instances, Unlink(p) \/ Bind(p) \/ Cleanup(p) PROVE CtrlInv'
  BY <1>6, <1>8, <1>9 DEF Unlink, Bind, Cleanup
<1>10. ASSUME NEW p \in Instances, Exit(p) \/ CtrlCrash(p) PROVE CtrlInv'
  <2> DEFINE u == CloseSlaves(ct, p)
  <2>1. CtGood(u, ctRun.run) /\ u.pc = ct.pc
    BY <1>1, CloseKeeps
  <2> HIDE DEF u
  <2>2. CASE Exit(p)
    <3>1. ct' = Goto(u, p, "cleanup") /\ UNCHANGED ctRun /\ ct.pc[p] = "master"
      BY <2>2 DEF Exit, u
    <3>2. CtGood(Goto(u, p, "cleanup"), ctRun.run)
      BY <2>1, <3>1, GotoKeeps DEF CtrlPcs
    <3> QED BY <1>2, <3>1, <3>2
  <2>3. CASE CtrlCrash(p)
    <3>1. /\ ct' = Goto(u, p, "done") /\ ctRun.crashes < MaxCtrlCrashes
          /\ ctRun' = [ctRun EXCEPT !.crashes = ctRun.crashes + 1]
      BY <2>3 DEF CtrlCrash, u
    <3>2. CtGood(Goto(u, p, "done"), ctRun.run)
      BY <2>1, GotoKeeps DEF CtrlPcs
    <3>3. /\ DOMAIN ctRun' = {"run", "answered", "crashes"} /\ ctRun'.run = ctRun.run
          /\ ctRun'.answered = ctRun.answered /\ ctRun'.crashes = ctRun.crashes + 1
      BY <1>1, <3>1
    <3>4. ctRun'.crashes \in 0 .. MaxCtrlCrashes
      BY <3>1, <3>3, CtrlConstants DEF CtrlInv
    <3> QED BY <3>1, <3>2, <3>3, <3>4 DEF CtrlInv
  <2> QED BY <1>10, <2>2, <2>3
<1>11. ASSUME NEW p \in Instances, SlaveSend(p) PROVE CtrlInv'
  <2>1. UNCHANGED ctRun
    BY <1>11 DEF SlaveSend
  <2>2. ASSUME NEW c \in Commands, ct.pc[p] = "send",
               ct' = Goto([ct EXCEPT !.wire[p] = Append(@, c)], p, "newline")
        PROVE  CtrlInv'
    <3>1. c \in Symbols /\ c # Newline
      BY CtrlConstants DEF Symbols, Newline
    <3>2. CtGood(ct', ctRun.run)
      BY <1>1, <2>2, <3>1, PieceKeeps, Zenon
    <3> QED BY <1>2, <2>1, <3>2
  <2>3. ASSUME ct.pc[p] = "newline", ct' = Goto([ct EXCEPT !.wire[p] = Append(@, Newline)], p, "wait")
        PROVE  CtrlInv'
    <3>1. Newline \in Symbols
      BY DEF Symbols
    <3>2. CtGood(ct', ctRun.run)
      BY <1>1, <2>3, <3>1, PieceKeeps, Zenon
    <3> QED BY <1>2, <2>1, <3>2
  <2> QED BY <1>6, <1>11, <2>2, <2>3, Zenon DEF SlaveSend
<1>12. ASSUME NEW p \in Instances, SlaveResult(p) PROVE CtrlInv'
  <2> DEFINE a == IF ct.replies[p] # << >> THEN "OK" ELSE "none"
  <2>1. ct' = Goto(ct, p, "done") /\ ctRun' = [ctRun EXCEPT !.answered[p] = a]
    BY <1>12 DEF SlaveResult
  <2>2. CtGood(ct', ctRun.run)
    BY <1>1, <2>1, GotoKeeps DEF CtrlPcs
  <2>3. a = "OK" => ctRun.run[p] = 1
    <3>1. ct.replies[p] \in Seq({"OK"})
      BY <1>1 DEF CtTypes
    <3>2. Len(ct.replies[p]) = ctRun.run[p] /\ ctRun.run[p] \in {0, 1}
      BY <1>1 DEF SlaveGood
    <3> QED BY <3>1, <3>2
  <2>4. a \in {"OK", "none"}
    OBVIOUS
  <2> HIDE DEF a
  <2>5. /\ DOMAIN ctRun' = {"run", "answered", "crashes"} /\ ctRun'.run = ctRun.run
        /\ ctRun'.answered = [ctRun.answered EXCEPT ![p] = a] /\ ctRun'.crashes = ctRun.crashes
    BY <1>1, <2>1
  <2>6. /\ ctRun'.answered \in [Instances -> {"OK", "none"}]
        /\ \A q \in Instances : ctRun'.answered[q] = "OK" => ctRun.run[q] = 1
    BY <2>3, <2>4, <2>5 DEF CtrlInv
  <2> QED BY <2>2, <2>5, <2>6 DEF CtrlInv
<1>13. ASSUME NEW p \in Instances, CtrlCheckFds(p) PROVE CtrlInv'
  <2> DEFINE u == [t |-> ct, run |-> ctRun.run, over |-> FALSE]
             a == [u EXCEPT !.t = [SlaveNew(ct, p, Head(ct.backlog[p])) EXCEPT !.backlog[p] = Tail(@)]]
             v == IF ct.backlog[p] # << >> THEN a ELSE CheckSlaves(p, u)
             n == Len(ct.slaves[p])
  <2>1. ct' = v.t /\ ctRun' = [ctRun EXCEPT !.run = v.run]
    BY <1>13 DEF CtrlCheckFds
  <2>2. CtGood(v.t, v.run) /\ \A q \in Instances : ctRun.run[q] <= v.run[q]
    <3>1. CASE ct.backlog[p] # << >>
      <4>1. v = a /\ a.run = ctRun.run
            /\ a.t = [SlaveNew(ct, p, Head(ct.backlog[p])) EXCEPT !.backlog[p] = Tail(@)]
        BY <3>1
      <4>2. CtGood(a.t, ctRun.run)
        BY <1>1, <3>1, <4>1, AcceptKeeps, Zenon
      <4>3. \A q \in Instances : ctRun.run[q] <= ctRun.run[q]
        BY <1>1
      <4> HIDE DEF a, v
      <4> QED BY <4>1, <4>2, <4>3
    <3>2. CASE ct.backlog[p] = << >>
      <4>1. u.t = ct /\ u.run = ctRun.run /\ u.over = FALSE /\ DOMAIN u = {"t", "run", "over"}
        OBVIOUS
      <4>2. v = CheckSlaves(p, u)
        BY <3>2
      <4> HIDE DEF u, v
      <4>3. n \in Nat
        BY <1>1 DEF CtTypes
      <4>4. WalkGood(u, p, n, ctRun.run) /\ Len(u.t.slaves[p]) = n
        <5>1. \A q \in Instances : ctRun.run[q] <= u.run[q]
          <6> SUFFICES ASSUME NEW q \in Instances PROVE ctRun.run[q] <= u.run[q]
            OBVIOUS
          <6>1. ctRun.run[q] \in Nat
            BY <1>1
          <6> QED BY <4>1, <6>1
        <5>2. CtGood(u.t, u.run) /\ Len(u.t.slaves[p]) = n
          BY <1>1, <4>1
        <5> HIDE DEF n
        <5> QED BY <4>1, <5>1, <5>2, Zenon DEF WalkGood
      <4>5. WalkGood(v, p, n, ctRun.run)
        BY <1>1, <4>2, <4>3, <4>4, CheckSlavesIs
      <4> QED BY <4>5 DEF WalkGood
    <3> QED BY <3>1, <3>2, Zenon
  <2> HIDE DEF v
  <2>3. /\ DOMAIN ctRun' = {"run", "answered", "crashes"} /\ ctRun'.run = v.run
        /\ ctRun'.answered = ctRun.answered /\ ctRun'.crashes = ctRun.crashes
    BY <1>1, <2>1
  <2>4. ASSUME NEW q \in Instances, ctRun.answered[q] = "OK" PROVE v.run[q] = 1
    <3>1. ctRun.run[q] = 1 /\ ctRun.run[q] <= v.run[q]
      BY <2>2, <2>4 DEF CtrlInv
    <3>2. v.run[q] \in {0, 1}
      BY <2>2 DEF CtGood, SlaveGood
    <3> QED BY <3>1, <3>2
  <2> QED BY <2>1, <2>2, <2>3, <2>4 DEF CtrlInv
<1> QED BY <1>3, <1>4, <1>7, <1>9, <1>10, <1>11, <1>12, <1>13 DEF CtrlNext, InstanceStep

-----------------------------------------------------------------------------
(* The ring of the sound queue (rdpsnd.c) *)

(* A remainder, below twice the divisor. *)
LEMMA ModIs ==
    ASSUME NEW n \in Nat \ {0}, NEW x \in 0 .. 2 * n - 1
    PROVE  x % n = IF x < n THEN x ELSE x - n
<1>1. CASE x < n
  BY <1>1
<1>2. CASE ~(x < n)
  BY <1>2
<1> QED BY <1>1, <1>2

(* Slot k behind slot i. *)
Behind(i, k) == IF i + k < MAX_QUEUE THEN i + k ELSE i + k - MAX_QUEUE

(* The modulus of the code leads there. *)
LEMMA BehindIs ==
    ASSUME NEW i \in Slots, NEW k \in 0 .. MAX_QUEUE
    PROVE  (i + k) % MAX_QUEUE = Behind(i, k) /\ Behind(i, k) \in Slots
<1>1. MAX_QUEUE \in Nat \ {0} /\ i \in Nat /\ k \in Nat /\ i < MAX_QUEUE /\ k <= MAX_QUEUE
  BY SoundConstants DEF Slots
<1>2. i + k \in 0 .. 2 * MAX_QUEUE - 1
  BY <1>1
<1>3. (i + k) % MAX_QUEUE = IF i + k < MAX_QUEUE THEN i + k ELSE (i + k) - MAX_QUEUE
  BY <1>1, <1>2, ModIs, Zenon
<1> QED BY <1>1, <1>3 DEF Behind, Slots

(* How far slot j is behind slot i. *)
LEMMA DistanceIs ==
    ASSUME NEW i \in Slots, NEW j \in Slots
    PROVE  /\ Distance(i, j) = IF i <= j THEN j - i ELSE j - i + MAX_QUEUE
           /\ Distance(i, j) \in 0 .. MAX_QUEUE - 1
<1>1. MAX_QUEUE \in Nat \ {0} /\ i \in Nat /\ j \in Nat /\ i < MAX_QUEUE /\ j < MAX_QUEUE
  BY SoundConstants DEF Slots
<1>2. j - i + MAX_QUEUE \in 0 .. 2 * MAX_QUEUE - 1
  BY <1>1
<1>3. (j - i + MAX_QUEUE) % MAX_QUEUE =
          IF j - i + MAX_QUEUE < MAX_QUEUE THEN j - i + MAX_QUEUE
          ELSE (j - i + MAX_QUEUE) - MAX_QUEUE
  BY <1>1, <1>2, ModIs, Zenon
<1> QED BY <1>1, <1>3 DEF Distance

(* Slots that are behind a slot by less than the size of the ring differ. *)
LEMMA BehindDiffer ==
    ASSUME NEW i \in Slots, NEW k \in 0 .. MAX_QUEUE - 1
    PROVE  Distance(i, Behind(i, k)) = k
<1>1. MAX_QUEUE \in Nat \ {0} /\ i \in Nat /\ k \in Nat /\ i < MAX_QUEUE /\ k < MAX_QUEUE
  BY SoundConstants DEF Slots
<1>2. Behind(i, k) \in Slots
  BY <1>1, BehindIs
<1> QED BY <1>1, <1>2, DistanceIs DEF Behind

(* The slot that is as far behind slot i as slot j is slot j. *)
LEMMA DistanceReaches ==
    ASSUME NEW i \in Slots, NEW j \in Slots
    PROVE  Behind(i, Distance(i, j)) = j
<1>1. MAX_QUEUE \in Nat \ {0} /\ i \in Nat /\ j \in Nat /\ i < MAX_QUEUE /\ j < MAX_QUEUE
  BY SoundConstants DEF Slots
<1> QED BY <1>1, DistanceIs DEF Behind

(* From a slot on the way: the way to it and the way from it make the whole. *)
LEMMA WaysAdd ==
    ASSUME NEW i \in Slots, NEW j \in Slots, NEW n \in 0 .. Distance(i, j)
    PROVE  /\ Behind(i, n) \in Slots /\ Distance(i, Behind(i, n)) = n
           /\ Distance(Behind(i, n), j) = Distance(i, j) - n
           /\ \A k \in 0 .. Distance(i, j) - n : Behind(Behind(i, n), k) = Behind(i, n + k)
<1>1. /\ MAX_QUEUE \in Nat \ {0} /\ i \in Nat /\ j \in Nat /\ i < MAX_QUEUE /\ j < MAX_QUEUE
      /\ Distance(i, j) \in 0 .. MAX_QUEUE - 1 /\ n \in Nat /\ n <= Distance(i, j)
      /\ Distance(i, j) = IF i <= j THEN j - i ELSE j - i + MAX_QUEUE
  BY SoundConstants, DistanceIs DEF Slots
<1>2. Behind(i, n) \in Slots
  <2>1. n \in 0 .. MAX_QUEUE
    BY <1>1
  <2> QED BY <2>1, BehindIs
<1>3. Distance(i, Behind(i, n)) = n
  BY <1>1, BehindDiffer
<1>4. Distance(Behind(i, n), j) = Distance(i, j) - n
  <2>1. Distance(Behind(i, n), j) =
            IF Behind(i, n) <= j THEN j - Behind(i, n) ELSE j - Behind(i, n) + MAX_QUEUE
    BY <1>2, DistanceIs
  <2> QED BY <1>1, <2>1 DEF Behind
<1>5. ASSUME NEW k \in 0 .. Distance(i, j) - n PROVE Behind(Behind(i, n), k) = Behind(i, n + k)
  BY <1>1, <1>5 DEF Behind
<1> QED BY <1>2, <1>3, <1>4, <1>5

-----------------------------------------------------------------------------
(* The queue *)

PacketFields == {"id", "left", "due"}
QueueFields == {"hi", "lo", "pending", "slots"}

(* The three indices cut the ring in order. *)
QueueGood(q) ==
    /\ DOMAIN q = QueueFields
    /\ q.hi \in Slots /\ q.lo \in Slots /\ q.pending \in Slots
    /\ DOMAIN q.slots = Slots
    /\ \A i \in Slots : DOMAIN q.slots[i] = PacketFields /\ q.slots[i].id \in Nat
                        /\ q.slots[i].due \in Nat
    /\ Distance(q.pending, q.lo) <= Distance(q.pending, q.hi)

Held(q) == Distance(q.pending, q.hi)

(* r is q with the n oldest waves completed. *)
Advance(q, r, n) ==
    /\ n \in 0 .. Held(q) /\ r.hi = q.hi /\ r.pending = Behind(q.pending, n)
    /\ \A k \in n .. Held(q) - 1 :
           r.slots[Behind(q.pending, k)].id = q.slots[Behind(q.pending, k)].id

WavesOf(q) == WavesFrom(q, q.pending, Held(q))

(* The ring holds less than its size. *)
LEMMA HeldIs ==
    ASSUME NEW q, QueueGood(q)
    PROVE  Held(q) \in 0 .. MAX_QUEUE - 1 /\ Held(q) \in Nat
<1>1. q.pending \in Slots /\ q.hi \in Slots
  BY DEF QueueGood
<1>2. Held(q) \in 0 .. MAX_QUEUE - 1
  BY <1>1, DistanceIs DEF Held
<1> QED BY <1>2, SoundConstants

(* The waves that the first n slots behind pending hold. *)
LEMMA WavesAre ==
    ASSUME NEW q, QueueGood(q), NEW n \in 0 .. Held(q)
    PROVE  /\ WavesFrom(q, q.pending, n) \in Seq(Nat) /\ Len(WavesFrom(q, q.pending, n)) = n
           /\ \A k \in 1 .. n :
                  WavesFrom(q, q.pending, n)[k] = q.slots[Behind(q.pending, k - 1)].id
<1> DEFINE p == q.pending
           w == WavesFrom(q, p, n)
<1>1. /\ p \in Slots /\ p \in Nat /\ n \in Nat /\ n <= MAX_QUEUE - 1 /\ MAX_QUEUE \in Nat
      /\ \A i \in Slots : q.slots[i].id \in Nat
  BY HeldIs, SoundConstants DEF QueueGood, Slots
<1>2. w = [k \in 1 .. n |-> q.slots[(p + k - 1) % MAX_QUEUE].id]
  BY DEF WavesFrom
<1> HIDE DEF w, p
<1>3. ASSUME NEW k \in 1 .. n
      PROVE  (p + k - 1) % MAX_QUEUE = Behind(p, k - 1) /\ Behind(p, k - 1) \in Slots
  <2>1. k - 1 \in 0 .. MAX_QUEUE /\ p + k - 1 = p + (k - 1)
    BY <1>1
  <2> QED BY <1>1, <2>1, BehindIs
<1>4. \A k \in 1 .. n : w[k] = q.slots[Behind(p, k - 1)].id /\ w[k] \in Nat
  BY <1>1, <1>2, <1>3, Zenon
<1>5. w = [k \in 1 .. n |-> w[k]]
  BY <1>2
<1>6. w \in Seq(Nat) /\ Len(w) = n
  BY <1>1, <1>4, <1>5
<1> QED BY <1>4, <1>6 DEF w, p

(* What completes is the beginning of what is held, what stays is the rest. *)
LEMMA AdvanceIs ==
    ASSUME NEW q, QueueGood(q), NEW r, QueueGood(r), NEW n, Advance(q, r, n)
    PROVE  /\ n = Distance(q.pending, r.pending) /\ n \in 0 .. Len(WavesOf(q))
           /\ WavesFrom(q, q.pending, n) = SubSeq(WavesOf(q), 1, n)
           /\ WavesOf(r) = SubSeq(WavesOf(q), n + 1, Len(WavesOf(q)))
<1> DEFINE p == q.pending
           h == Held(q)
           w == WavesOf(q)
           s == WavesFrom(q, p, n)
           v == WavesOf(r)
<1>1. /\ p \in Slots /\ q.hi \in Slots /\ h \in Nat /\ h = Distance(p, q.hi) /\ n \in 0 .. h
      /\ r.hi = q.hi /\ r.pending = Behind(p, n)
  BY HeldIs DEF QueueGood, Advance, Held
<1>2. /\ w \in Seq(Nat) /\ Len(w) = h
      /\ \A k \in 1 .. h : w[k] = q.slots[Behind(p, k - 1)].id
  <2>1. h \in 0 .. Held(q) /\ w = WavesFrom(q, q.pending, h)
    BY <1>1 DEF WavesOf
  <2> HIDE DEF h, w
  <2> QED BY <2>1, WavesAre
<1>3. /\ s \in Seq(Nat) /\ Len(s) = n
      /\ \A k \in 1 .. n : s[k] = q.slots[Behind(p, k - 1)].id
  BY <1>1, WavesAre
<1>4. /\ Distance(p, r.pending) = n /\ Held(r) = h - n
      /\ \A k \in 0 .. h - n : Behind(r.pending, k) = Behind(p, n + k)
  BY <1>1, WaysAdd DEF Held
<1>5. /\ v \in Seq(Nat) /\ Len(v) = h - n
      /\ \A k \in 1 .. h - n : v[k] = r.slots[Behind(r.pending, k - 1)].id
  <2>1. Held(r) \in 0 .. Held(r)
    BY HeldIs
  <2> QED BY <1>4, <2>1, WavesAre, Zenon DEF WavesOf
<1>6. \A k \in n .. h - 1 : r.slots[Behind(p, k)].id = q.slots[Behind(p, k)].id
  BY DEF Advance
<1> HIDE DEF p, h, w, s, v
<1>7. s = SubSeq(w, 1, n)
  <2>1. /\ SubSeq(w, 1, n) \in Seq(Nat) /\ Len(SubSeq(w, 1, n)) = n
        /\ \A k \in 1 .. n : SubSeq(w, 1, n)[k] = w[k]
    <3>1. \A k \in 1 .. n : w[k] \in Nat
      BY <1>1, <1>2
    <3> QED BY <1>1, <1>2, <3>1, SubSeqProperties
  <2>2. \A k \in 1 .. n : s[k] = SubSeq(w, 1, n)[k]
    <3> SUFFICES ASSUME NEW k \in 1 .. n PROVE s[k] = SubSeq(w, 1, n)[k]
      BY Zenon
    <3>1. k \in 1 .. h
      BY <1>1
    <3>2. s[k] = w[k]
      BY <1>2, <1>3, <3>1, Zenon
    <3>3. SubSeq(w, 1, n)[k] = w[k]
      BY <2>1
    <3> QED BY <3>2, <3>3, Zenon
  <2> QED BY <1>3, <2>1, <2>2, SeqEqual, Zenon
<1>8. v = SubSeq(w, n + 1, Len(w))
  <2> DEFINE t == SubSeq(w, n + 1, Len(w))
  <2>1. /\ t \in Seq(Nat) /\ Len(t) = h - n
        /\ \A k \in 1 .. h - n : t[k] = w[n + k]
    BY <1>1, <1>2, RestIs
  <2> HIDE DEF t
  <2>2. ASSUME NEW k \in 1 .. h - n PROVE v[k] = t[k]
    <3>1. k - 1 \in 0 .. h - n /\ n + (k - 1) \in n .. h - 1 /\ n + k \in 1 .. h /\ n + k - 1 = n + (k - 1)
      BY <1>1
    <3>2. v[k] = r.slots[Behind(p, n + (k - 1))].id
      BY <1>4, <1>5, <3>1
    <3>3. w[n + k] = q.slots[Behind(p, n + (k - 1))].id
      <4> DEFINE j == n + k
      <4>1. j \in 1 .. h /\ j - 1 = n + (k - 1)
        BY <1>1, <3>1
      <4> HIDE DEF j
      <4>2. w[j] = q.slots[Behind(p, j - 1)].id
        BY <1>2, <4>1
      <4>3. w[j] = q.slots[Behind(p, n + (k - 1))].id
        BY <4>1, <4>2
      <4> QED BY <4>3 DEF j
    <3> QED BY <1>6, <2>1, <3>1, <3>2, <3>3, Zenon
  <2>3. v = t
    BY <1>5, <2>1, <2>2, SeqEqual
  <2> QED BY <2>3 DEF t
<1> QED BY <1>1, <1>2, <1>4, <1>7, <1>8 DEF p, h, w, s, v

(* Completing twice completes once. *)
LEMMA AdvanceTwice ==
    ASSUME NEW q, QueueGood(q), NEW r, NEW s, NEW m, NEW n, Advance(q, r, m), Advance(r, s, n)
    PROVE  Advance(q, s, m + n)
<1> DEFINE p == q.pending
           h == Held(q)
<1>1. /\ p \in Slots /\ q.hi \in Slots /\ h \in Nat /\ h = Distance(p, q.hi) /\ m \in 0 .. h
      /\ r.hi = q.hi /\ r.pending = Behind(p, m)
  BY HeldIs DEF QueueGood, Advance, Held
<1>2. /\ Held(r) = h - m
      /\ \A k \in 0 .. h - m : Behind(r.pending, k) = Behind(p, m + k)
  BY <1>1, WaysAdd DEF Held
<1>3. n \in 0 .. h - m /\ s.hi = r.hi /\ s.pending = Behind(r.pending, n)
  BY <1>2 DEF Advance
<1>4. m + n \in 0 .. h /\ s.hi = q.hi /\ s.pending = Behind(p, m + n)
  BY <1>1, <1>2, <1>3
<1>5. ASSUME NEW k \in m + n .. h - 1
      PROVE  s.slots[Behind(p, k)].id = q.slots[Behind(p, k)].id
  <2>1. k - m \in n .. Held(r) - 1 /\ k - m \in 0 .. h - m /\ m + (k - m) = k /\ k \in m .. h - 1
    BY <1>1, <1>2, <1>3
  <2>2. s.slots[Behind(r.pending, k - m)].id = r.slots[Behind(r.pending, k - m)].id
    BY <2>1 DEF Advance
  <2>3. r.slots[Behind(p, k)].id = q.slots[Behind(p, k)].id
    BY <2>1 DEF Advance
  <2> QED BY <1>2, <2>1, <2>2, <2>3
<1> QED BY <1>4, <1>5 DEF Advance

(* What has been played and is due is a part of what has been played. *)
LEMMA CompletableIs ==
    ASSUME NEW q, QueueGood(q)
    PROVE  Completable(q) \in 0 .. Distance(q.pending, q.lo)
<1> DEFINE played == Distance(q.pending, q.lo)
           due(k) == q.slots[(q.pending + k) % MAX_QUEUE].due > 0
           T == {k \in 0 .. played : k = played \/ due(k)}
<1>1. played \in Nat
  BY DistanceIs, SoundConstants DEF QueueGood
<1>2. T \in SUBSET Nat /\ played \in T
  BY <1>1
<1>3. Completable(q) = Min(T)
  BY DEF Completable
<1>4. Min(T) \in T
  <2> HIDE DEF T
  <2>1. \E x \in T : \A y \in T : x <= y
    BY <1>2, LeastNumber
  <2> QED BY <2>1 DEF Min
<1> QED BY <1>3, <1>4, Zenon

(* Completing frees the oldest packets that have been played. *)
LEMMA CompleteIs ==
    ASSUME NEW q, QueueGood(q)
    PROVE  /\ QueueGood(CompletePending(q))
           /\ CompletePending(q).hi = q.hi /\ CompletePending(q).lo = q.lo
           /\ Advance(q, CompletePending(q), Completable(q))
<1> DEFINE p == q.pending
           n == Completable(q)
           f == [i \in Slots |-> IF Distance(p, i) < n THEN NoPacket ELSE q.slots[i]]
           r == CompletePending(q)
<1>1. /\ p \in Slots /\ q.lo \in Slots /\ q.hi \in Slots
      /\ Distance(p, q.lo) \in 0 .. MAX_QUEUE - 1 /\ Distance(p, q.hi) \in 0 .. MAX_QUEUE - 1
      /\ Distance(p, q.lo) <= Distance(p, q.hi) /\ MAX_QUEUE \in Nat
  BY DistanceIs, SoundConstants DEF QueueGood
<1>2. n \in 0 .. Distance(p, q.lo) /\ n \in 0 .. Distance(p, q.hi) /\ n \in 0 .. MAX_QUEUE - 1
      /\ n \in 0 .. MAX_QUEUE
  BY <1>1, CompletableIs
<1>3. r = [q EXCEPT !.pending = (p + n) % MAX_QUEUE, !.slots = f]
  BY DEF CompletePending
<1> HIDE DEF n, f, r
<1>4. DOMAIN r = QueueFields /\ r.hi = q.hi /\ r.lo = q.lo /\ r.slots = f
      /\ r.pending = (p + n) % MAX_QUEUE
  BY <1>3 DEF QueueGood, QueueFields
<1>5. r.pending = Behind(p, n) /\ r.pending \in Slots
  BY <1>1, <1>2, <1>4, BehindIs
<1>6. /\ Distance(r.pending, q.lo) = Distance(p, q.lo) - n
      /\ Distance(r.pending, q.hi) = Distance(p, q.hi) - n
  BY <1>1, <1>2, <1>5, WaysAdd
<1>7. DOMAIN r.slots = Slots
  BY <1>4 DEF f
<1>8. ASSUME NEW i \in Slots
      PROVE  DOMAIN r.slots[i] = PacketFields /\ r.slots[i].id \in Nat /\ r.slots[i].due \in Nat
  <2>1. r.slots[i] = IF Distance(p, i) < n THEN NoPacket ELSE q.slots[i]
    BY <1>4 DEF f
  <2>2. DOMAIN NoPacket = PacketFields /\ NoPacket.id \in Nat /\ NoPacket.due \in Nat
    BY DEF NoPacket, PacketFields
  <2>3. DOMAIN q.slots[i] = PacketFields /\ q.slots[i].id \in Nat /\ q.slots[i].due \in Nat
    BY DEF QueueGood
  <2> QED BY <2>1, <2>2, <2>3
<1>9. QueueGood(r)
  <2>1. Distance(r.pending, r.lo) <= Distance(r.pending, r.hi)
    BY <1>1, <1>2, <1>4, <1>6
  <2> QED BY <1>1, <1>4, <1>5, <1>7, <1>8, <2>1 DEF QueueGood
<1>10. ASSUME NEW k \in n .. Held(q) - 1
       PROVE  r.slots[Behind(p, k)].id = q.slots[Behind(p, k)].id
  <2>1. k \in 0 .. MAX_QUEUE - 1 /\ k \in 0 .. MAX_QUEUE /\ ~(k < n)
    BY <1>1, <1>2 DEF Held
  <2>2. Behind(p, k) \in Slots /\ Distance(p, Behind(p, k)) = k
    BY <1>1, <2>1, BehindIs, BehindDiffer, Zenon
  <2>3. r.slots[Behind(p, k)] = IF Distance(p, Behind(p, k)) < n THEN NoPacket
                                ELSE q.slots[Behind(p, k)]
    BY <1>4, <2>2 DEF f
  <2> QED BY <2>1, <2>2, <2>3
<1>11. Advance(q, r, n)
  BY <1>2, <1>4, <1>5, <1>10 DEF Advance, Held
<1> QED BY <1>4, <1>9, <1>11 DEF n, r

(* r differs from q only in how far its packets have been played. *)
Touched(q, r) ==
    /\ DOMAIN r = QueueFields /\ r.hi = q.hi /\ r.pending = q.pending /\ DOMAIN r.slots = Slots
    /\ \A i \in Slots : DOMAIN r.slots[i] = PacketFields /\ r.slots[i].id = q.slots[i].id
                        /\ r.slots[i].due \in Nat
    /\ r.lo \in Slots /\ Distance(q.pending, r.lo) <= Distance(q.pending, q.hi)

(* The waves are those that they were. *)
LEMMA TouchedIs ==
    ASSUME NEW q, QueueGood(q), NEW r, Touched(q, r)
    PROVE  QueueGood(r) /\ Advance(q, r, 0)
<1>1. QueueGood(r)
  BY DEF QueueGood, Touched
<1>2. /\ q.pending \in Slots /\ Held(q) \in Nat /\ 0 \in 0 .. Held(q)
      /\ Held(q) \in 0 .. MAX_QUEUE - 1 /\ MAX_QUEUE \in Nat
  BY HeldIs, SoundConstants DEF QueueGood
<1>3. r.pending = Behind(q.pending, 0)
  BY <1>2 DEF Behind, Slots, Touched
<1>4. ASSUME NEW k \in 0 .. Held(q) - 1
      PROVE  r.slots[Behind(q.pending, k)].id = q.slots[Behind(q.pending, k)].id
  <2>1. k \in 0 .. MAX_QUEUE
    BY <1>2
  <2>2. Behind(q.pending, k) \in Slots
    BY <1>2, <2>1, BehindIs
  <2> QED BY <2>2 DEF Touched
<1> QED BY <1>1, <1>2, <1>3, <1>4 DEF Advance, Touched

(* The slot behind slot i. *)
LEMMA SuccIs ==
    ASSUME NEW i \in Slots
    PROVE  Succ(i) \in Slots /\ Succ(i) = (IF i + 1 < MAX_QUEUE THEN i + 1 ELSE 0)
           /\ Distance(i, Succ(i)) = 1
<1>1. MAX_QUEUE \in Nat \ {0, 1} /\ 1 \in 0 .. MAX_QUEUE /\ i \in Nat /\ i < MAX_QUEUE
      /\ 1 \in 0 .. MAX_QUEUE - 1
  BY SoundConstants DEF Slots
<1>2. Succ(i) = Behind(i, 1) /\ Behind(i, 1) \in Slots
  BY <1>1, BehindIs DEF Succ
<1>3. Distance(i, Behind(i, 1)) = 1
  BY <1>1, BehindDiffer
<1> QED BY <1>1, <1>2, <1>3 DEF Behind

(* The next packet has been played, and is confirmed when due has passed. *)
Played(q, due) == [q EXCEPT !.slots[q.lo].due = due, !.lo = Succ(@)]

(* The packet that was played stays where it was, and the next is to be played. *)
LEMMA PlayedTouches ==
    ASSUME NEW q, QueueGood(q), q.lo # q.hi, NEW due \in Nat
    PROVE  Touched(q, Played(q, due)) /\ Played(q, due).lo = Succ(q.lo)
<1> DEFINE r == Played(q, due)
<1>1. /\ q.hi \in Slots /\ q.lo \in Slots /\ q.pending \in Slots /\ DOMAIN q = QueueFields
      /\ DOMAIN q.slots = Slots
      /\ \A i \in Slots : DOMAIN q.slots[i] = PacketFields /\ q.slots[i].id \in Nat
                          /\ q.slots[i].due \in Nat
      /\ Distance(q.pending, q.lo) <= Distance(q.pending, q.hi)
  BY DEF QueueGood
<1>2. /\ DOMAIN r = QueueFields /\ r.hi = q.hi /\ r.pending = q.pending /\ r.lo = Succ(q.lo)
      /\ r.slots = [q.slots EXCEPT ![q.lo].due = due]
  BY <1>1 DEF QueueFields, Played
<1>3. DOMAIN r.slots = Slots
  BY <1>1, <1>2
<1>4. ASSUME NEW i \in Slots
      PROVE  DOMAIN r.slots[i] = PacketFields /\ r.slots[i].id = q.slots[i].id
             /\ r.slots[i].due \in Nat
  <2>1. DOMAIN q.slots[i] = PacketFields /\ q.slots[i].due \in Nat
    BY <1>1
  <2>2. r.slots[i] = IF i = q.lo THEN [q.slots[i] EXCEPT !.due = due] ELSE q.slots[i]
    BY <1>1, <1>2
  <2> QED BY <2>1, <2>2 DEF PacketFields
<1>5. Succ(q.lo) \in Slots /\ Distance(q.pending, Succ(q.lo)) <= Distance(q.pending, q.hi)
  <2>1. MAX_QUEUE \in Nat /\ q.hi \in Nat /\ q.lo \in Nat /\ q.pending \in Nat
        /\ q.hi < MAX_QUEUE /\ q.lo < MAX_QUEUE /\ q.pending < MAX_QUEUE
    BY <1>1, SoundConstants DEF Slots
  <2>2. Succ(q.lo) \in Slots /\ Succ(q.lo) = (IF q.lo + 1 < MAX_QUEUE THEN q.lo + 1 ELSE 0)
    BY <1>1, SuccIs
  <2>3. /\ Distance(q.pending, q.lo) = IF q.pending <= q.lo THEN q.lo - q.pending
                                       ELSE q.lo - q.pending + MAX_QUEUE
        /\ Distance(q.pending, q.hi) = IF q.pending <= q.hi THEN q.hi - q.pending
                                       ELSE q.hi - q.pending + MAX_QUEUE
        /\ Distance(q.pending, Succ(q.lo)) =
               IF q.pending <= Succ(q.lo) THEN Succ(q.lo) - q.pending
               ELSE Succ(q.lo) - q.pending + MAX_QUEUE
    BY <1>1, <2>2, DistanceIs
  <2> QED BY <1>1, <2>1, <2>2, <2>3
<1> QED BY <1>2, <1>3, <1>4, <1>5 DEF Touched

(* Playing one packet more. *)
LEMMA QueueNextIs ==
    ASSUME NEW q, QueueGood(q), q.lo # q.hi, NEW due \in Nat
    PROVE  /\ QueueGood(QueueNext(q, due))
           /\ QueueNext(q, due).hi = q.hi /\ QueueNext(q, due).lo = Succ(q.lo)
           /\ \E n \in 0 .. Held(q) : Advance(q, QueueNext(q, due), n)
<1> DEFINE r == Played(q, due)
<1>1. QueueNext(q, due) = CompletePending(r)
  BY DEF QueueNext, Played
<1>2. QueueGood(r) /\ Advance(q, r, 0) /\ r.hi = q.hi /\ r.lo = Succ(q.lo)
  <2>1. Touched(q, r) /\ r.lo = Succ(q.lo)
    BY PlayedTouches
  <2> QED BY <2>1, TouchedIs DEF Touched
<1> HIDE DEF r
<1>3. /\ QueueGood(CompletePending(r)) /\ Advance(r, CompletePending(r), Completable(r))
      /\ CompletePending(r).hi = r.hi /\ CompletePending(r).lo = r.lo
  BY <1>2, CompleteIs
<1>4. Advance(q, CompletePending(r), 0 + Completable(r))
  BY <1>2, <1>3, AdvanceTwice
<1>5. 0 + Completable(r) \in 0 .. Held(q)
  BY <1>4 DEF Advance
<1> QED BY <1>1, <1>2, <1>3, <1>4, <1>5

(* All that is left is played. *)
AllPlayed(q) ==
    LET left == {(q.lo + k) % MAX_QUEUE : k \in 0 .. Distance(q.lo, q.hi) - 1}
    IN [q EXCEPT !.lo = q.hi,
                 !.slots = [i \in Slots |-> IF i \in left THEN [@[i] EXCEPT !.due = 0] ELSE @[i]]]

(* All packets count as played, and stay where they were. *)
LEMMA AllPlayedTouches ==
    ASSUME NEW q, QueueGood(q)
    PROVE  Touched(q, AllPlayed(q)) /\ AllPlayed(q).lo = q.hi
<1> DEFINE left == {(q.lo + k) % MAX_QUEUE : k \in 0 .. Distance(q.lo, q.hi) - 1}
           f == [i \in Slots |-> IF i \in left THEN [q.slots[i] EXCEPT !.due = 0] ELSE q.slots[i]]
           r == [q EXCEPT !.lo = q.hi, !.slots = f]
<1>1. /\ q.hi \in Slots /\ q.pending \in Slots /\ DOMAIN q = QueueFields
      /\ \A i \in Slots : DOMAIN q.slots[i] = PacketFields /\ q.slots[i].due \in Nat
  BY DEF QueueGood
<1>2. AllPlayed(q) = r
  BY DEF AllPlayed
<1>3. /\ DOMAIN r = QueueFields /\ r.hi = q.hi /\ r.pending = q.pending /\ r.lo = q.hi
      /\ r.slots = f
  BY <1>1 DEF QueueFields
<1>4. DOMAIN r.slots = Slots
  BY <1>3
<1>5. ASSUME NEW i \in Slots
      PROVE  DOMAIN r.slots[i] = PacketFields /\ r.slots[i].id = q.slots[i].id
             /\ r.slots[i].due \in Nat
  <2>1. DOMAIN q.slots[i] = PacketFields /\ q.slots[i].due \in Nat
    BY <1>1
  <2>2. r.slots[i] = IF i \in left THEN [q.slots[i] EXCEPT !.due = 0] ELSE q.slots[i]
    BY <1>3
  <2> HIDE DEF left, r
  <2> QED BY <2>1, <2>2 DEF PacketFields
<1>6. Distance(q.pending, q.hi) <= Distance(q.pending, q.hi)
  BY <1>1, DistanceIs, SoundConstants
<1> QED BY <1>1, <1>2, <1>3, <1>4, <1>5, <1>6 DEF Touched

(* The device closes: all that is due is completed. *)
LEMMA AckAllIs ==
    ASSUME NEW q, QueueGood(q)
    PROVE  /\ QueueGood(AckAll(q)) /\ AckAll(q).lo = AckAll(q).hi
           /\ \E n \in 0 .. Held(q) : Advance(q, AckAll(q), n)
<1> DEFINE r == AllPlayed(q)
<1>1. AckAll(q) = CompletePending(r)
  BY DEF AckAll, AllPlayed
<1>2. QueueGood(r) /\ Advance(q, r, 0) /\ r.hi = q.hi /\ r.lo = q.hi
  <2>1. Touched(q, r) /\ r.lo = q.hi
    BY AllPlayedTouches
  <2> QED BY <2>1, TouchedIs DEF Touched
<1> HIDE DEF r
<1>3. /\ QueueGood(CompletePending(r)) /\ Advance(r, CompletePending(r), Completable(r))
      /\ CompletePending(r).hi = r.hi /\ CompletePending(r).lo = r.lo
  BY <1>2, CompleteIs
<1>4. Advance(q, CompletePending(r), 0 + Completable(r))
  BY <1>2, <1>3, AdvanceTwice
<1>5. 0 + Completable(r) \in 0 .. Held(q)
  BY <1>4 DEF Advance
<1> QED BY <1>1, <1>2, <1>3, <1>4, <1>5

(* A queue that holds nothing. *)
LEMMA EmptyIs == QueueGood(EmptyQueue) /\ WavesOf(EmptyQueue) = << >>
<1>1. 0 \in Slots /\ Distance(0, 0) = 0
  <2>1. 0 \in Slots
    BY SoundConstants DEF Slots
  <2> QED BY <2>1, DistanceIs
<1>2. /\ DOMAIN EmptyQueue = QueueFields /\ EmptyQueue.hi = 0 /\ EmptyQueue.lo = 0
      /\ EmptyQueue.pending = 0 /\ EmptyQueue.slots = [i \in Slots |-> NoPacket]
  BY DEF EmptyQueue, QueueFields
<1>3. DOMAIN NoPacket = PacketFields /\ NoPacket.id \in Nat /\ NoPacket.due \in Nat
  BY DEF NoPacket, PacketFields
<1>4. QueueGood(EmptyQueue) /\ Held(EmptyQueue) = 0
  BY <1>1, <1>2, <1>3 DEF QueueGood, Held
<1>5. WavesOf(EmptyQueue) \in Seq(Nat) /\ Len(WavesOf(EmptyQueue)) = 0
  <2>1. 0 \in 0 .. Held(EmptyQueue)
    BY <1>4
  <2> QED BY <1>4, <2>1, WavesAre DEF WavesOf
<1> QED BY <1>4, <1>5

(* A wave joins the queue behind the others, or finds no space. *)
LEMMA QueueWriteIs ==
    ASSUME NEW q, QueueGood(q), NEW w \in Nat
    PROVE  /\ QueueGood(QueueWrite(q, w))
           /\ WavesOf(QueueWrite(q, w)) \in {WavesOf(q), Append(WavesOf(q), w)}
<1> DEFINE p == q.pending
           h == Held(q)
           new == [id |-> w, left |-> 2, due |-> 0]
           r == QueueWrite(q, w)
<1>1. /\ q.hi \in Slots /\ q.lo \in Slots /\ p \in Slots /\ DOMAIN q = QueueFields
      /\ DOMAIN q.slots = Slots
      /\ \A i \in Slots : DOMAIN q.slots[i] = PacketFields /\ q.slots[i].id \in Nat
                          /\ q.slots[i].due \in Nat
      /\ Distance(p, q.lo) <= Distance(p, q.hi) /\ h = Distance(p, q.hi)
      /\ h \in 0 .. MAX_QUEUE - 1 /\ h \in Nat
  BY HeldIs DEF QueueGood, Held
<1>2. CASE Succ(q.hi) = p
  BY <1>2 DEF QueueWrite
<1>3. CASE Succ(q.hi) # p
  <2>1. r = [q EXCEPT !.slots[q.hi] = new, !.hi = Succ(@)]
    BY <1>3 DEF QueueWrite
  <2> HIDE DEF r, new
  <2>2. /\ DOMAIN r = QueueFields /\ r.hi = Succ(q.hi) /\ r.pending = p /\ r.lo = q.lo
        /\ r.slots = [q.slots EXCEPT ![q.hi] = new]
    BY <1>1, <2>1 DEF QueueFields
  <2>3. DOMAIN r.slots = Slots /\ r.slots[q.hi] = new
        /\ \A i \in Slots \ {q.hi} : r.slots[i] = q.slots[i]
    BY <1>1, <2>2
  <2>4. DOMAIN new = PacketFields /\ new.id = w /\ new.due \in Nat
    BY DEF new, PacketFields
  <2>5. ASSUME NEW i \in Slots
        PROVE  DOMAIN r.slots[i] = PacketFields /\ r.slots[i].id \in Nat
               /\ r.slots[i].due \in Nat
    BY <1>1, <2>3, <2>4
  <2>6. Succ(q.hi) \in Slots /\ Distance(p, Succ(q.hi)) = h + 1
    <3>1. MAX_QUEUE \in Nat /\ q.hi \in Nat /\ p \in Nat /\ q.hi < MAX_QUEUE /\ p < MAX_QUEUE
      BY <1>1, SoundConstants DEF Slots
    <3>2. Succ(q.hi) \in Slots /\ Succ(q.hi) = (IF q.hi + 1 < MAX_QUEUE THEN q.hi + 1 ELSE 0)
      BY <1>1, SuccIs
    <3>3. /\ Distance(p, q.hi) = IF p <= q.hi THEN q.hi - p ELSE q.hi - p + MAX_QUEUE
          /\ Distance(p, Succ(q.hi)) = IF p <= Succ(q.hi) THEN Succ(q.hi) - p
                                       ELSE Succ(q.hi) - p + MAX_QUEUE
      BY <1>1, <3>2, DistanceIs
    <3> QED BY <1>1, <1>3, <3>1, <3>2, <3>3
  <2>7. QueueGood(r) /\ Held(r) = h + 1
    <3>1. Distance(p, q.lo) \in 0 .. MAX_QUEUE - 1 /\ MAX_QUEUE \in Nat
      BY <1>1, DistanceIs, SoundConstants
    <3>2. Distance(r.pending, r.lo) <= Distance(r.pending, r.hi)
      BY <1>1, <2>2, <2>6, <3>1
    <3>3. Held(r) = h + 1
      BY <2>2, <2>6 DEF Held
    <3>4. r.hi \in Slots /\ r.lo \in Slots /\ r.pending \in Slots
      BY <1>1, <2>2, <2>6
    <3> QED BY <2>2, <2>3, <2>5, <3>2, <3>3, <3>4 DEF QueueGood
  <2> DEFINE s == WavesOf(q)
             t == WavesOf(r)
  <2>8. /\ s \in Seq(Nat) /\ Len(s) = h
        /\ \A k \in 1 .. h : s[k] = q.slots[Behind(p, k - 1)].id
    <3>1. h \in 0 .. Held(q) /\ s = WavesFrom(q, q.pending, h)
      BY <1>1 DEF WavesOf
    <3> HIDE DEF h, s
    <3> QED BY <3>1, WavesAre
  <2>9. /\ t \in Seq(Nat) /\ Len(t) = h + 1
        /\ \A k \in 1 .. h + 1 : t[k] = r.slots[Behind(p, k - 1)].id
    <3>1. Held(r) \in 0 .. Held(r)
      BY <2>7, HeldIs
    <3>2. /\ t \in Seq(Nat) /\ Len(t) = Held(r)
          /\ \A k \in 1 .. Held(r) : t[k] = r.slots[Behind(r.pending, k - 1)].id
      BY <2>7, <3>1, WavesAre, Zenon DEF WavesOf
    <3> QED BY <2>2, <2>7, <3>2
  <2>10. q.hi = Behind(p, h)
    BY <1>1, DistanceReaches
  <2> HIDE DEF s, t, h, p
  <2>11. ASSUME NEW k \in 1 .. h PROVE t[k] = s[k]
    <3>1. k - 1 \in 0 .. MAX_QUEUE - 1 /\ k - 1 \in 0 .. MAX_QUEUE /\ k - 1 # h /\ k \in 1 .. h + 1
      BY <1>1, SoundConstants
    <3>2. Behind(p, k - 1) \in Slots /\ Distance(p, Behind(p, k - 1)) = k - 1
      BY <1>1, <3>1, BehindIs, BehindDiffer
    <3>3. Behind(p, k - 1) # q.hi
      BY <1>1, <3>1, <3>2
    <3> QED BY <2>3, <2>8, <2>9, <3>1, <3>2, <3>3, Zenon
  <2>12. t[h + 1] = w
    <3> DEFINE j == h + 1
    <3>1. j \in 1 .. h + 1 /\ j - 1 = h
      BY <1>1
    <3> HIDE DEF j
    <3>2. t[j] = r.slots[Behind(p, j - 1)].id
      BY <2>9, <3>1
    <3>3. t[j] = r.slots[q.hi].id
      BY <2>10, <3>1, <3>2
    <3> QED BY <2>3, <2>4, <3>3 DEF j
  <2>13. t = Append(s, w)
    <3> DEFINE u == Append(s, w)
               j == h + 1
    <3>1. u \in Seq(Nat) /\ Len(u) = j /\ \A k \in 1 .. h : u[k] = s[k]
      BY <1>1, <2>8
    <3>2. u[j] = w
      BY <1>1, <2>8
    <3>3. t[j] = w
      BY <2>12
    <3>4. \A k \in 1 .. j : k \in 1 .. h \/ k = j
      BY <1>1
    <3>5. t \in Seq(Nat) /\ Len(t) = j
      BY <2>9
    <3> HIDE DEF u, j
    <3>6. \A k \in 1 .. j : t[k] = u[k]
      BY <2>11, <3>1, <3>2, <3>3, <3>4
    <3>7. t = u
      BY <3>1, <3>5, <3>6, SeqEqual
    <3> QED BY <3>7 DEF u
  <2> QED BY <2>7, <2>13 DEF s, t, r
<1> QED BY <1>2, <1>3

-----------------------------------------------------------------------------
(* Sound implements WaveQueue *)

SndInv ==
    /\ QueueGood(queue) /\ confirmedQ \in Seq(Nat)
    /\ nWaves \in Nat /\ nWaves <= MaxWaves

(* At the beginning nothing is queued. *)
LEMMA SndInitInv == SoundInit => SndInv /\ WavesConfirmedInOrder!WqInit
<1> SUFFICES ASSUME SoundInit PROVE SndInv /\ WavesConfirmedInOrder!WqInit
  OBVIOUS
<1>1. queue = EmptyQueue /\ confirmedQ = << >> /\ nWaves = 0
  BY DEF SoundInit
<1>2. QueueGood(EmptyQueue) /\ WavesOf(EmptyQueue) = << >>
  BY EmptyIs
<1>3. Outstanding = << >>
  BY <1>1, <1>2 DEF Outstanding, WavesOf, Held
<1> QED BY <1>1, <1>2, <1>3, SoundConstants DEF SndInv, WavesConfirmedInOrder!WqInit

(* r is what queue becomes when some of its oldest waves complete. *)
Completes(r) == QueueGood(r) /\ \E n \in 0 .. Held(queue) : Advance(queue, r, n)

(* What completes is confirmed. *)
LEMMA ConfirmImplements ==
    ASSUME SndInv, NEW r, Completes(r), Confirming(r), sndLink = "up"
    PROVE  /\ QueueGood(queue') /\ confirmedQ' \in Seq(Nat)
           /\ \E n \in 0 .. Len(Outstanding) : WavesConfirmedInOrder!WqConfirm(n)
<1>1. QueueGood(queue) /\ QueueGood(r) /\ confirmedQ \in Seq(Nat) /\ queue' = r
  BY DEF SndInv, Completes, Confirming
<1>2. PICK n \in 0 .. Held(queue) : Advance(queue, r, n)
  BY DEF Completes
<1>3. /\ n = Distance(queue.pending, r.pending) /\ n \in 0 .. Len(WavesOf(queue))
      /\ WavesFrom(queue, queue.pending, n) = SubSeq(WavesOf(queue), 1, n)
      /\ WavesOf(r) = SubSeq(WavesOf(queue), n + 1, Len(WavesOf(queue)))
  BY <1>1, <1>2, AdvanceIs, Zenon
<1>4. Outstanding = WavesOf(queue) /\ Outstanding' = WavesOf(r)
  BY <1>1 DEF Outstanding, WavesOf, Held
<1>5. confirmedQ' = confirmedQ \o WavesFrom(queue, queue.pending, n)
  BY <1>3 DEF Confirming, SendWaveConfirm
<1>6. WavesFrom(queue, queue.pending, n) \in Seq(Nat)
  BY <1>1, <1>2, WavesAre
<1>7. WavesConfirmedInOrder!WqConfirm(n)
  BY <1>3, <1>4, <1>5 DEF WavesConfirmedInOrder!WqConfirm
<1>8. confirmedQ' \in Seq(Nat)
  BY <1>1, <1>5, <1>6
<1> QED BY <1>1, <1>3, <1>4, <1>7, <1>8

(* What completes is confirmed while there is a connection, the rest is      *)
(* forgotten.                                                                *)
LEMMA ResetImplements ==
    ASSUME SndInv, ResetSound
    PROVE  /\ QueueGood(queue') /\ confirmedQ' \in Seq(Nat)
           /\ \E n \in 0 .. Len(Outstanding) : WavesConfirmedInOrder!WqReset(n)
<1> DEFINE r == IF device_open THEN AckAll(queue) ELSE queue
<1>1. QueueGood(queue) /\ confirmedQ \in Seq(Nat) /\ queue' = EmptyQueue /\ SendWaveConfirm(r)
  BY DEF SndInv, ResetSound
<1>2. Completes(r)
  <2>1. CASE device_open
    BY <1>1, <2>1, AckAllIs DEF Completes
  <2>2. CASE ~device_open
    <3>1. Touched(queue, queue)
      BY <1>1 DEF QueueGood, Touched
    <3>2. QueueGood(queue) /\ Advance(queue, queue, 0) /\ 0 \in 0 .. Held(queue)
      BY <1>1, <3>1, TouchedIs, HeldIs
    <3> QED BY <2>2, <3>2 DEF Completes
  <2> QED BY <2>1, <2>2
<1> HIDE DEF r
<1>3. PICK n \in 0 .. Held(queue) : Advance(queue, r, n)
  BY <1>2 DEF Completes
<1>4. /\ n = Distance(queue.pending, r.pending) /\ n \in 0 .. Len(WavesOf(queue))
      /\ WavesFrom(queue, queue.pending, n) = SubSeq(WavesOf(queue), 1, n)
  BY <1>1, <1>2, <1>3, AdvanceIs DEF Completes
<1>5. WavesFrom(queue, queue.pending, n) \in Seq(Nat)
  BY <1>1, <1>3, WavesAre
<1>6. QueueGood(EmptyQueue) /\ WavesOf(EmptyQueue) = << >>
  BY EmptyIs
<1>7. Outstanding = WavesOf(queue) /\ Outstanding' = << >>
  BY <1>1, <1>6 DEF Outstanding, WavesOf, Held
<1>8. CASE sndLink = "up"
  <2>1. confirmedQ' = confirmedQ \o WavesFrom(queue, queue.pending, n)
    BY <1>1, <1>4, <1>8 DEF SendWaveConfirm
  <2>2. WavesConfirmedInOrder!WqReset(n)
    BY <1>4, <1>7, <2>1 DEF WavesConfirmedInOrder!WqReset
  <2>3. confirmedQ' \in Seq(Nat)
    BY <1>1, <1>5, <2>1
  <2> QED BY <1>1, <1>4, <1>6, <1>7, <2>2, <2>3
<1>9. CASE sndLink # "up"
  <2>1. confirmedQ' = confirmedQ
    BY <1>1, <1>9 DEF SendWaveConfirm
  <2>2. SubSeq(Outstanding, 1, 0) = << >>
    <3>1. Held(queue) \in 0 .. Held(queue)
      BY <1>1, HeldIs
    <3>2. Outstanding \in Seq(Nat)
      BY <1>1, <1>7, <3>1, WavesAre DEF WavesOf
    <3> QED BY <3>2
  <2>3. confirmedQ \o << >> = confirmedQ
    BY <1>1
  <2>4. WavesConfirmedInOrder!WqReset(0)
    BY <1>7, <2>1, <2>2, <2>3, Zenon DEF WavesConfirmedInOrder!WqReset
  <2>5. 0 \in 0 .. Len(Outstanding)
    BY <1>4, <1>7
  <2> QED BY <1>1, <1>6, <2>1, <2>4, <2>5
<1> QED BY <1>8, <1>9

(* What a step of rdpsnd.c does to the queue. *)
Rests == queue' = queue /\ confirmedQ' = confirmedQ
Confirms == sndLink = "up" /\ \E r : Completes(r) /\ Confirming(r)
Takes == \E w \in 1 .. MaxWaves : queue' = QueueWrite(queue, w) /\ confirmedQ' = confirmedQ

Implements ==
    /\ QueueGood(queue') /\ confirmedQ' \in Seq(Nat)
    /\ WavesConfirmedInOrder!WqNext \/ UNCHANGED <<Outstanding, confirmedQ>>

(* Where the queue rests nothing is confirmed. *)
LEMMA RestImplements == SndInv /\ Rests => Implements
BY DEF SndInv, Rests, Implements, Outstanding

(* Each of these is a step of the queue of waves, or none. *)
LEMMA StepImplements == SndInv /\ (Rests \/ Confirms \/ ResetSound \/ Takes) => Implements
<1> SUFFICES ASSUME SndInv, Rests \/ Confirms \/ ResetSound \/ Takes PROVE Implements
  OBVIOUS
<1>1. CASE Confirms
  BY <1>1, ConfirmImplements DEF Confirms, Implements, WavesConfirmedInOrder!WqNext
<1>2. CASE ResetSound
  BY <1>2, ResetImplements DEF Implements, WavesConfirmedInOrder!WqNext
<1>3. CASE Takes
  <2>1. PICK w \in 1 .. MaxWaves : queue' = QueueWrite(queue, w) /\ confirmedQ' = confirmedQ
    BY <1>3 DEF Takes
  <2>2. QueueGood(queue) /\ confirmedQ \in Seq(Nat) /\ w \in Nat
    BY SoundConstants DEF SndInv
  <2>3. QueueGood(queue') /\ WavesOf(queue') \in {WavesOf(queue), Append(WavesOf(queue), w)}
    BY <2>1, <2>2, QueueWriteIs, Zenon
  <2>4. Outstanding = WavesOf(queue) /\ Outstanding' = WavesOf(queue')
    BY DEF Outstanding, WavesOf, Held
  <2>5. WavesConfirmedInOrder!WqTake(w) \/ UNCHANGED <<Outstanding, confirmedQ>>
    BY <2>1, <2>3, <2>4 DEF WavesConfirmedInOrder!WqTake
  <2> QED BY <2>1, <2>2, <2>3, <2>5 DEF Implements, WavesConfirmedInOrder!WqNext
<1> QED BY <1>1, <1>2, <1>3, RestImplements

(* Completion times move, waves do not. *)
LEMMA TickImplements == SndInv /\ SoundTick => Implements
<1> SUFFICES ASSUME SndInv, SoundTick PROVE Implements
  OBVIOUS
<1> DEFINE f == [i \in Slots |-> [queue.slots[i] EXCEPT !.due = 0]]
<1>1. QueueGood(queue) /\ confirmedQ \in Seq(Nat) /\ confirmedQ' = confirmedQ
      /\ queue' = [queue EXCEPT !.slots = f]
  BY DEF SndInv, SoundTick
<1>2. /\ DOMAIN queue' = QueueFields /\ queue'.hi = queue.hi /\ queue'.lo = queue.lo
      /\ queue'.pending = queue.pending /\ queue'.slots = f
  BY <1>1 DEF QueueGood, QueueFields
<1>3. DOMAIN queue'.slots = Slots
  BY <1>2
<1>4. ASSUME NEW i \in Slots
      PROVE  DOMAIN queue'.slots[i] = PacketFields /\ queue'.slots[i].id = queue.slots[i].id
             /\ queue'.slots[i].due \in Nat
  <2>1. queue'.slots[i] = [queue.slots[i] EXCEPT !.due = 0]
    BY <1>2
  <2>2. DOMAIN queue.slots[i] = PacketFields
    BY <1>1 DEF QueueGood
  <2> QED BY <2>1, <2>2 DEF PacketFields
<1> HIDE DEF f
<1>5. Touched(queue, queue')
  BY <1>1, <1>2, <1>3, <1>4 DEF Touched, QueueGood
<1>6. QueueGood(queue') /\ Advance(queue, queue', 0)
  BY <1>1, <1>5, TouchedIs
<1>7. WavesOf(queue') = SubSeq(WavesOf(queue), 0 + 1, Len(WavesOf(queue)))
  BY <1>1, <1>6, AdvanceIs, Zenon
<1>8. WavesOf(queue) \in Seq(Nat)
  <2>1. Held(queue) \in 0 .. Held(queue)
    BY <1>1, HeldIs
  <2> QED BY <1>1, <2>1, WavesAre DEF WavesOf
<1>9. WavesOf(queue') = WavesOf(queue)
  BY <1>7, <1>8
<1>10. Outstanding' = Outstanding
  BY <1>9 DEF Outstanding, WavesOf, Held
<1> QED BY <1>1, <1>6, <1>10 DEF Implements

(* Playing confirms what is due. *)
LEMMA PlayConfirms ==
    ASSUME SndInv, PlayPart \/ PlayLast \/ PlayGiveUp \/ PlayMany
    PROVE  Confirms
<1>1. QueueGood(queue) /\ queue.lo # queue.hi /\ sndLink = "up" /\ queue.lo \in Slots
      /\ queue.hi \in Slots
  BY DEF SndInv, QueueGood, PlayPart, PlayLast, PlayGiveUp, PlayMany, Playing, CanRun, QueueEmpty
<1>2. ASSUME NEW due \in Nat PROVE Completes(QueueNext(queue, due))
  BY <1>1, <1>2, QueueNextIs DEF Completes
<1>3. CASE PlayPart
  <2> DEFINE r == CompletePending(queue)
             s == [r EXCEPT !.slots[queue.lo].left = @ - 1]
  <2>1. QueueGood(r) /\ Advance(queue, r, Completable(queue))
    BY <1>1, CompleteIs
  <2>2. Confirming(s)
    BY <1>3 DEF PlayPart
  <2> HIDE DEF r
  <2>3. /\ DOMAIN s = QueueFields /\ s.hi = r.hi /\ s.pending = r.pending /\ s.lo = r.lo
        /\ s.slots = [r.slots EXCEPT ![queue.lo].left = @ - 1]
    BY <2>1 DEF QueueGood, QueueFields
  <2>4. DOMAIN s.slots = Slots
    BY <2>1, <2>3 DEF QueueGood
  <2>5. ASSUME NEW i \in Slots
        PROVE  DOMAIN s.slots[i] = PacketFields /\ s.slots[i].id = r.slots[i].id
               /\ s.slots[i].due \in Nat
    <3>1. DOMAIN r.slots = Slots /\ DOMAIN r.slots[i] = PacketFields /\ r.slots[i].due \in Nat
      BY <2>1 DEF QueueGood
    <3>2. s.slots[i] = IF i = queue.lo THEN [r.slots[i] EXCEPT !.left = @ - 1] ELSE r.slots[i]
      BY <2>3, <3>1
    <3> QED BY <3>1, <3>2 DEF PacketFields
  <2> HIDE DEF s
  <2>6. Touched(r, s)
    BY <2>1, <2>3, <2>4, <2>5 DEF Touched, QueueGood
  <2>7. QueueGood(s) /\ Advance(r, s, 0)
    BY <2>1, <2>6, TouchedIs
  <2>8. Advance(queue, s, Completable(queue) + 0)
    BY <1>1, <2>1, <2>7, AdvanceTwice
  <2>9. Completable(queue) + 0 \in 0 .. Held(queue)
    BY <2>8 DEF Advance
  <2> QED BY <1>1, <2>2, <2>7, <2>8, <2>9 DEF Confirms, Completes
<1>4. CASE PlayLast
  <2>1. \E due \in 0 .. 1 : Confirming(QueueNext(queue, due))
    BY <1>4 DEF PlayLast
  <2> QED BY <1>1, <1>2, <2>1 DEF Confirms
<1>5. CASE PlayGiveUp
  <2>1. \E due \in 0 .. 1 : Confirming(QueueNext(queue, due))
    BY <1>5 DEF PlayGiveUp
  <2> QED BY <1>1, <1>2, <2>1 DEF Confirms
<1>6. CASE PlayMany
  <2> DEFINE r == QueueNext(queue, 0)
             s == QueueNext(r, 0)
  <2>1. Confirming(s) /\ Distance(queue.lo, queue.hi) > 1
    BY <1>6 DEF PlayMany
  <2>2. QueueGood(r) /\ r.hi = queue.hi /\ r.lo = Succ(queue.lo)
    BY <1>1, QueueNextIs
  <2>3. r.lo # r.hi
    BY <1>1, <2>1, <2>2, SuccIs
  <2>4. PICK m \in 0 .. Held(queue) : Advance(queue, r, m)
    BY <1>1, QueueNextIs
  <2> HIDE DEF r
  <2>5. QueueGood(s) /\ \E n \in 0 .. Held(r) : Advance(r, s, n)
    BY <2>2, <2>3, QueueNextIs, Zenon
  <2>6. PICK n \in 0 .. Held(r) : Advance(r, s, n)
    BY <2>5
  <2> HIDE DEF s
  <2>7. Advance(queue, s, m + n)
    BY <1>1, <2>4, <2>6, AdvanceTwice
  <2>8. m + n \in 0 .. Held(queue)
    BY <2>7 DEF Advance
  <2> QED BY <1>1, <2>1, <2>5, <2>7, <2>8 DEF Confirms, Completes
<1> QED BY <1>3, <1>4, <1>5, <1>6

(* A device that closes confirms all that can be. *)
LEMMA AckCompletes == SndInv => Completes(AckAll(queue))
BY AckAllIs DEF SndInv, Completes

(* A wave is taken, refused, or closes the device. *)
LEMMA WaveImplements ==
    ASSUME SndInv, NEW f \in SndFormats, ProcessWave(f)
    PROVE  Rests \/ Confirms \/ Takes
<1>1. /\ sndLink = "up" /\ nWaves < MaxWaves /\ nWaves' = nWaves + 1
      /\ \/ \E d : Take(nWaves', d, f) \/ Refuse(d) \/ CloseOn(d)
         \/ UNCHANGED <<queue, confirmedQ>>
  BY DEF ProcessWave, CanRun
<1>2. nWaves' \in 1 .. MaxWaves
  BY <1>1, SoundConstants DEF SndInv
<1>3. ASSUME NEW d, CloseOn(d) PROVE Confirms
  BY <1>1, <1>3, AckCompletes DEF CloseOn, Confirms
<1>4. ASSUME NEW d, Take(nWaves', d, f) PROVE Takes
  BY <1>2, <1>4 DEF Take, Takes
<1>5. ASSUME NEW d, Refuse(d) PROVE Rests
  BY <1>5 DEF Refuse, Rests
<1> QED BY <1>1, <1>3, <1>4, <1>5 DEF Rests

(* Every step of rdpsnd.c, its drivers and rdpsnd_input.c is one of the      *)
(* queue of waves, or none.                                                  *)
LEMMA SndStep ==
    SndInv /\ [SoundNext]_sndVars
        => SndInv' /\ [WavesConfirmedInOrder!WqNext]_<<Outstanding, confirmedQ>>
<1> SUFFICES ASSUME SndInv, [SoundNext]_sndVars
             PROVE  SndInv' /\ [WavesConfirmedInOrder!WqNext]_<<Outstanding, confirmedQ>>
  OBVIOUS
<1>1. nWaves' \in Nat /\ nWaves' <= MaxWaves
  <2>1. nWaves' = nWaves \/ (nWaves < MaxWaves /\ nWaves' = nWaves + 1)
    <3>1. CASE UNCHANGED sndVars
      BY <3>1 DEF sndVars
    <3>2. ASSUME NEW f \in SndFormats, ProcessWave(f)
          PROVE  nWaves < MaxWaves /\ nWaves' = nWaves + 1
      BY <3>2 DEF ProcessWave
    <3>3. CASE \/ ProcessNegotiate \/ ProcessClose \/ InputProcessFormats
               \/ \E f \in SndFormats : InputSetFormat(f)
               \/ OssCheckClosed \/ OssRecordFails \/ CheckPending \/ SoundTick
               \/ SoundLinkLost \/ SoundResetState \/ SoundConnected
      BY <3>3 DEF ProcessNegotiate, ProcessClose, InputProcessFormats, InputSetFormat,
           OssCheckClosed, OssRecordFails, CheckPending, SoundTick, SoundLinkLost,
           SoundResetState, SoundConnected
    <3>4. CASE PlayPart \/ PlayLast \/ PlayGiveUp \/ PlayMany
      BY <3>4 DEF PlayPart, PlayLast, PlayGiveUp, PlayMany, Playing
    <3> QED BY <3>1, <3>2, <3>3, <3>4 DEF SoundNext
  <2> QED BY <2>1, SoundConstants DEF SndInv
<1>2. Implements
  <2>1. CASE UNCHANGED sndVars
    BY <2>1, StepImplements DEF sndVars, Rests
  <2>2. CASE ProcessNegotiate
    <3>1. ResetSound \/ Rests
      BY <2>2 DEF ProcessNegotiate, Rests
    <3> QED BY <3>1, StepImplements
  <2>3. CASE ProcessClose
    <3>1. Confirms
      BY <2>3, AckCompletes DEF ProcessClose, CanRun, CloseOn, Confirms
    <3> QED BY <3>1, StepImplements
  <2>4. CASE \E f \in SndFormats : ProcessWave(f)
    BY <2>4, WaveImplements, StepImplements
  <2>5. CASE \/ InputProcessFormats \/ \E f \in SndFormats : InputSetFormat(f)
             \/ OssCheckClosed \/ SoundLinkLost \/ SoundConnected
    <3>1. Rests
      BY <2>5 DEF InputProcessFormats, InputSetFormat, OssCheckClosed, SoundLinkLost,
           SoundConnected, Rests
    <3> QED BY <3>1, StepImplements
  <2>6. CASE PlayPart \/ PlayLast \/ PlayGiveUp \/ PlayMany
    BY <2>6, PlayConfirms, StepImplements
  <2>7. CASE OssRecordFails
    <3>1. CASE QueueEmpty(queue)
      BY <2>7, <3>1, StepImplements DEF OssRecordFails, Rests
    <3>2. CASE ~QueueEmpty(queue)
      <4>1. sndLink = "up" /\ Confirming(QueueNext(queue, 0)) /\ queue.lo # queue.hi
        BY <2>7, <3>2 DEF OssRecordFails, CanRun, QueueEmpty
      <4>2. Completes(QueueNext(queue, 0))
        BY <4>1, QueueNextIs DEF SndInv, Completes
      <4>3. Confirms
        BY <4>1, <4>2 DEF Confirms
      <4> QED BY <4>3, StepImplements
    <3> QED BY <3>1, <3>2
  <2>8. CASE CheckPending
    <3>1. sndLink = "up" /\ Confirming(CompletePending(queue))
      BY <2>8 DEF CheckPending, CanRun
    <3>2. QueueGood(CompletePending(queue))
          /\ Advance(queue, CompletePending(queue), Completable(queue))
      BY CompleteIs DEF SndInv
    <3>3. Completable(queue) \in 0 .. Held(queue)
      BY <3>2 DEF Advance
    <3>4. Confirms
      BY <3>1, <3>2, <3>3 DEF Confirms, Completes
    <3> QED BY <3>4, StepImplements
  <2>9. CASE SoundTick
    BY <2>9, TickImplements
  <2>10. CASE SoundResetState
    BY <2>10, StepImplements DEF SoundResetState
  <2> QED BY <2>1, <2>2, <2>3, <2>4, <2>5, <2>6, <2>7, <2>8, <2>9, <2>10 DEF SoundNext
<1> QED BY <1>1, <1>2 DEF SndInv, Implements

-----------------------------------------------------------------------------
DevFields == {"fd", "mode", "refs", "configured", "fmt", "out", "in", "duplex", "faults"}

DevTypes(d) ==
    /\ DOMAIN d = DevFields /\ d.mode \in {"r", "w", "rw"} /\ d.refs \in Int
    /\ d.fd \in BOOLEAN /\ d.out \in BOOLEAN /\ d.in \in BOOLEAN
    /\ d.faults \in 0 .. MaxFaults

(* The one descriptor of oss is open for the directions U that are open. *)
OssShares(d, U) ==
    /\ d.fd = TRUE <=> "out" \in U \/ "in" \in U
    /\ "out" \in U => d.mode \in {"w", "rw"}
    /\ "in" \in U => d.mode \in {"r", "rw"}
    /\ d.fd = TRUE /\ d.mode = "rw" => "out" \in U /\ "in" \in U

(* So is that of sun, which counts them. *)
SunShares(d, U) ==
    /\ d.fd = TRUE <=> "out" \in U \/ "in" \in U
    /\ "out" \in U => d.mode \in {"w", "rw"}
    /\ "in" \in U => d.mode \in {"r", "rw"}
    /\ d.refs = (IF "out" \in U THEN 1 ELSE 0) + (IF "in" \in U THEN 1 ELSE 0)
    /\ d.out = TRUE <=> "out" \in U

AlsaShares(d, U) == (d.out = TRUE <=> "out" \in U) /\ (d.in = TRUE <=> "in" \in U)

(* The results of operations. *)
LEMMA OkIs == ASSUME NEW d, NEW r \in Ok(d) PROVE r.ok = TRUE /\ r.d = d
BY DEF Ok

(* The one result of an operation that cannot be done. *)
LEMMA NoIs == ASSUME NEW d, NEW r \in No(d) PROVE r.ok = FALSE /\ r.d = d
BY DEF No

(* An operation that fails leaves a state of the device, with a failure more. *)
LEMMA FailsIs ==
    ASSUME NEW d, NEW after, DevTypes(d), DevTypes(after), after.faults = d.faults,
           NEW r \in Fails(d, after)
    PROVE  r.ok = FALSE /\ DevTypes(r.d) /\ r.d.faults > 0
<1> DEFINE t == [after EXCEPT !.faults = @ + 1]
<1>1. d.faults < MaxFaults /\ r \in No(t)
  BY DEF Fails
<1>2. DevTypes(t) /\ t.faults > 0
  <2>1. DOMAIN t = DevFields /\ t.mode = after.mode /\ t.refs = after.refs
        /\ t.fd = after.fd /\ t.out = after.out /\ t.in = after.in
        /\ t.faults = after.faults + 1
    BY DEF DevTypes, DevFields
  <2> HIDE DEF t
  <2> QED BY <1>1, <2>1, SoundConstants DEF DevTypes
<1> HIDE DEF t
<1> QED BY <1>1, <1>2, NoIs, Zenon

(* oss_open_device: the device is open in the mode, or a failure was counted. *)
LEMMA OssOpenDeviceIs ==
    ASSUME NEW d, DevTypes(d), NEW mode \in {"r", "w", "rw"}, NEW r \in OssOpenDevice(d, mode)
    PROVE  /\ DevTypes(r.d)
           /\ \/ r.ok = TRUE /\ r.d.fd = TRUE /\ r.d.faults = d.faults /\ r.d.mode = mode
              \/ r.ok = FALSE /\ r.d.faults > 0
<1> DEFINE fresh == [d EXCEPT !.mode = mode, !.configured = FALSE]
           t == [fresh EXCEPT !.fd = TRUE]
           u == [fresh EXCEPT !.fd = FALSE]
<1>1. r \in Ok(t) \/ r \in Fails(d, u)
  BY DEF OssOpenDevice
<1>2. DevTypes(fresh) /\ fresh.mode = mode /\ fresh.faults = d.faults
  BY DEF DevTypes, DevFields
<1> HIDE DEF fresh
<1>3. DevTypes(t) /\ t.mode = mode /\ t.faults = d.faults /\ t.fd = TRUE
  BY <1>2 DEF DevTypes, DevFields
<1>4. DevTypes(u) /\ u.faults = d.faults
  BY <1>2 DEF DevTypes, DevFields
<1> HIDE DEF t, u
<1> QED BY <1>1, <1>3, <1>4, OkIs, FailsIs, Zenon

OssGood(d, U) == DevTypes(d) /\ (d.faults = 0 => OssShares(d, U))

(* oss_open: the device is open in the mode wanted, or in both if the other was in use. *)
LEMMA OssOpenIs ==
    ASSUME NEW d, DevTypes(d), NEW wanted \in {"r", "w"}, NEW r \in OssOpen(d, wanted)
    PROVE  /\ DevTypes(r.d)
           /\ \/ /\ r.ok = TRUE /\ r.d.fd = TRUE /\ r.d.faults = d.faults
                 /\ \/ d.fd = FALSE /\ r.d.mode = wanted
                    \/ d.fd = TRUE /\ d.mode = wanted /\ r.d.mode = wanted
                    \/ d.fd = TRUE /\ d.mode # wanted /\ r.d.mode = "rw"
              \/ r.ok = FALSE /\ r.d = d /\ d.fd = TRUE
              \/ r.ok = FALSE /\ r.d.faults > 0
<1>1. d.fd \in BOOLEAN /\ wanted \in {"r", "w", "rw"}
  BY DEF DevTypes
<1>2. CASE d.fd = FALSE
  <2>1. r \in OssOpenDevice(d, wanted)
    BY <1>2 DEF OssOpen
  <2> QED BY <1>1, <1>2, <2>1, OssOpenDeviceIs, Zenon
<1>3. CASE d.fd = TRUE /\ d.mode = wanted
  <2>1. r \in Ok(d)
    BY <1>3 DEF OssOpen
  <2> QED BY <1>3, <2>1, OkIs, Zenon
<1>4. CASE d.fd = TRUE /\ d.mode # wanted
  <2>1. r \in OssOpenDevice(d, "rw") \/ r \in No(d)
    BY <1>4 DEF OssOpen
  <2>2. CASE r \in OssOpenDevice(d, "rw")
    BY <1>4, <2>2, OssOpenDeviceIs, Zenon
  <2>3. CASE r \in No(d)
    BY <1>4, <2>3, NoIs, Zenon
  <2> QED BY <2>1, <2>2, <2>3, Zenon
<1> QED BY <1>1, <1>2, <1>3, <1>4, Zenon

(* oss_close leaves the device closed. *)
LEMMA OssCloseIs ==
    ASSUME NEW d, DevTypes(d)
    PROVE  /\ DevTypes(OssClose(d)) /\ OssClose(d).fd = FALSE
           /\ OssClose(d).mode = d.mode /\ OssClose(d).faults = d.faults
BY DEF OssClose, DevTypes, DevFields

(* oss_set_format changes the format only, unless it fails. *)
LEMMA OssSetFormatIs ==
    ASSUME NEW d, DevTypes(d), NEW f, NEW r \in OssSetFormat(d, f)
    PROVE  /\ r.ok \in BOOLEAN /\ DevTypes(r.d)
           /\ \/ r.d.faults > 0
              \/ r.d.fd = d.fd /\ r.d.mode = d.mode /\ r.d.faults = d.faults
<1> DEFINE set == [d EXCEPT !.fmt = f]
           t == [set EXCEPT !.configured = TRUE]
<1>1. r \in Ok(d) \/ r \in No(d) \/ r \in Ok(t) \/ r \in Fails(d, OssClose(set))
  BY DEF OssSetFormat
<1>2. DevTypes(set) /\ set.faults = d.faults /\ set.fd = d.fd /\ set.mode = d.mode
  BY DEF DevTypes, DevFields
<1> HIDE DEF set
<1>3. DevTypes(t) /\ t.faults = d.faults /\ t.fd = d.fd /\ t.mode = d.mode
  BY <1>2 DEF DevTypes, DevFields
<1> HIDE DEF t
<1>4. DevTypes(OssClose(set)) /\ OssClose(set).faults = d.faults
  BY <1>2, OssCloseIs, Zenon
<1>5. CASE r \in Ok(d) \/ r \in No(d)
  BY <1>5, OkIs, NoIs, Zenon
<1>6. CASE r \in Ok(t)
  BY <1>3, <1>6, OkIs, Zenon
<1>7. CASE r \in Fails(d, OssClose(set))
  BY <1>4, <1>7, FailsIs, Zenon
<1> QED BY <1>1, <1>5, <1>6, <1>7

(* Playing opens the descriptor or takes part in it. *)
LEMMA OssOpenOutKeeps ==
    ASSUME NEW d, NEW U, OssGood(d, U), "out" \notin U, NEW r \in OssOpen(d, "w")
    PROVE  \/ r.ok = TRUE /\ OssGood(r.d, U \cup {"out"})
           \/ r.ok = FALSE /\ OssGood(r.d, U)
<1>1. DevTypes(d) /\ (d.faults = 0 => OssShares(d, U)) /\ d.faults \in Nat
  BY SoundConstants DEF OssGood, DevTypes
<1>2. /\ DevTypes(r.d)
      /\ \/ /\ r.ok = TRUE /\ r.d.fd = TRUE /\ r.d.faults = d.faults
            /\ \/ d.fd = FALSE /\ r.d.mode = "w"
               \/ d.fd = TRUE /\ d.mode = "w" /\ r.d.mode = "w"
               \/ d.fd = TRUE /\ d.mode # "w" /\ r.d.mode = "rw"
         \/ r.ok = FALSE /\ r.d = d /\ d.fd = TRUE
         \/ r.ok = FALSE /\ r.d.faults > 0
  BY <1>1, OssOpenIs, Zenon
<1>3. d.mode \in {"r", "w", "rw"} /\ r.d.faults \in Nat
  BY <1>1, <1>2, SoundConstants DEF DevTypes
<1> QED BY <1>1, <1>2, <1>3 DEF OssGood, OssShares

(* So does recording. *)
LEMMA OssOpenInKeeps ==
    ASSUME NEW d, NEW U, OssGood(d, U), "in" \notin U, NEW r \in OssOpen(d, "r")
    PROVE  \/ r.ok = TRUE /\ OssGood(r.d, U \cup {"in"})
           \/ r.ok = FALSE /\ OssGood(r.d, U)
<1>1. DevTypes(d) /\ (d.faults = 0 => OssShares(d, U)) /\ d.faults \in Nat
  BY SoundConstants DEF OssGood, DevTypes
<1>2. /\ DevTypes(r.d)
      /\ \/ /\ r.ok = TRUE /\ r.d.fd = TRUE /\ r.d.faults = d.faults
            /\ \/ d.fd = FALSE /\ r.d.mode = "r"
               \/ d.fd = TRUE /\ d.mode = "r" /\ r.d.mode = "r"
               \/ d.fd = TRUE /\ d.mode # "r" /\ r.d.mode = "rw"
         \/ r.ok = FALSE /\ r.d = d /\ d.fd = TRUE
         \/ r.ok = FALSE /\ r.d.faults > 0
  BY <1>1, OssOpenIs, Zenon
<1>3. d.mode \in {"r", "w", "rw"} /\ r.d.faults \in Nat
  BY <1>1, <1>2, SoundConstants DEF DevTypes
<1> QED BY <1>1, <1>2, <1>3 DEF OssGood, OssShares

(* A descriptor open both ways is opened again for the other. *)
LEMMA OssCloseForIs ==
    ASSUME NEW d, DevTypes(d), NEW other \in {"r", "w"}, NEW c \in OssCloseFor(d, other)
    PROVE  /\ DevTypes(c)
           /\ \/ c.faults > 0
              \/ d.mode # "rw" /\ c.fd = FALSE /\ c.faults = d.faults
              \/ d.mode = "rw" /\ c.fd = TRUE /\ c.mode = other /\ c.faults = d.faults
<1>1. /\ DevTypes(OssClose(d)) /\ OssClose(d).fd = FALSE
      /\ OssClose(d).mode = d.mode /\ OssClose(d).faults = d.faults
  BY OssCloseIs, Zenon
<1>2. CASE d.mode # "rw"
  BY <1>1, <1>2 DEF OssCloseFor
<1>3. CASE d.mode = "rw"
  <2>1. PICK r \in OssOpen(OssClose(d), other) :
            c \in (IF r.ok THEN OssRestoreFormat(r.d) ELSE {r.d})
    BY <1>3 DEF OssCloseFor
  <2>2. /\ DevTypes(r.d)
        /\ \/ r.ok = TRUE /\ r.d.fd = TRUE /\ r.d.faults = d.faults /\ r.d.mode = other
           \/ r.ok = FALSE /\ r.d.faults > 0
    BY <1>1, <2>1, OssOpenIs, Zenon
  <2>3. CASE r.ok = TRUE
    <3>1. PICK s \in OssSetFormat(r.d, r.d.fmt) : c = s.d
      BY <2>1, <2>3 DEF OssRestoreFormat
    <3>2. /\ DevTypes(s.d)
          /\ \/ s.d.faults > 0
             \/ s.d.fd = r.d.fd /\ s.d.mode = r.d.mode /\ s.d.faults = r.d.faults
      BY <2>2, <3>1, OssSetFormatIs
    <3> QED BY <1>3, <2>2, <2>3, <3>1, <3>2
  <2>4. CASE r.ok = FALSE
    BY <2>1, <2>2, <2>4
  <2> QED BY <2>2, <2>3, <2>4, Zenon
<1> QED BY <1>2, <1>3, Zenon

(* Playing gives the descriptor to recording. *)
LEMMA OssCloseOutKeeps ==
    ASSUME NEW d, NEW U, OssGood(d, U), "out" \in U, NEW c \in OssCloseFor(d, "r")
    PROVE  OssGood(c, U \ {"out"})
<1>1. /\ DevTypes(d) /\ d.mode \in {"r", "w", "rw"} /\ d.faults \in Nat
      /\ (d.faults = 0 => OssShares(d, U))
  BY SoundConstants DEF OssGood, DevTypes
<1>2. /\ DevTypes(c)
      /\ \/ c.faults > 0
         \/ d.mode # "rw" /\ c.fd = FALSE /\ c.faults = d.faults
         \/ d.mode = "rw" /\ c.fd = TRUE /\ c.mode = "r" /\ c.faults = d.faults
  BY <1>1, OssCloseForIs, Zenon
<1>3. c.faults \in Nat
  BY <1>2, SoundConstants DEF DevTypes
<1> QED BY <1>1, <1>2, <1>3 DEF OssGood, OssShares

(* Recording gives it to playing. *)
LEMMA OssCloseInKeeps ==
    ASSUME NEW d, NEW U, OssGood(d, U), "in" \in U, NEW c \in OssCloseFor(d, "w")
    PROVE  OssGood(c, U \ {"in"})
<1>1. /\ DevTypes(d) /\ d.mode \in {"r", "w", "rw"} /\ d.faults \in Nat
      /\ (d.faults = 0 => OssShares(d, U))
  BY SoundConstants DEF OssGood, DevTypes
<1>2. /\ DevTypes(c)
      /\ \/ c.faults > 0
         \/ d.mode # "rw" /\ c.fd = FALSE /\ c.faults = d.faults
         \/ d.mode = "rw" /\ c.fd = TRUE /\ c.mode = "w" /\ c.faults = d.faults
  BY <1>1, OssCloseForIs, Zenon
<1>3. c.faults \in Nat
  BY <1>2, SoundConstants DEF DevTypes
<1> QED BY <1>1, <1>2, <1>3 DEF OssGood, OssShares

(* A format is set, refused, or closes a failing descriptor. *)
LEMMA OssSetFormatKeeps ==
    ASSUME NEW d, NEW U, OssGood(d, U), NEW f, NEW r \in OssSetFormat(d, f)
    PROVE  r.ok \in BOOLEAN /\ OssGood(r.d, U)
<1>1. DevTypes(d) /\ (d.faults = 0 => OssShares(d, U))
  BY DEF OssGood
<1>2. /\ r.ok \in BOOLEAN /\ DevTypes(r.d)
      /\ \/ r.d.faults > 0
         \/ r.d.fd = d.fd /\ r.d.mode = d.mode /\ r.d.faults = d.faults
  BY <1>1, OssSetFormatIs
<1>3. r.d.faults \in Nat
  BY <1>2, SoundConstants DEF DevTypes
<1> QED BY <1>1, <1>2, <1>3 DEF OssGood, OssShares

SunGood(d, U) == DevTypes(d) /\ (d.faults = 0 => SunShares(d, U))

(* A user more, or the descriptor opened for the first. *)
LEMMA SunOpenIs ==
    ASSUME NEW d, DevTypes(d), NEW mode \in {"r", "w"}, NEW r \in SunOpen(d, mode)
    PROVE  /\ DevTypes(r.d)
           /\ \/ /\ r.ok = TRUE /\ r.d.fd = TRUE /\ r.d.faults = d.faults
                 /\ r.d.refs = d.refs + 1 /\ r.d.out = d.out /\ r.d.in = d.in
                 /\ \/ d.fd = FALSE /\ r.d.mode \in {"rw", mode}
                    \/ d.fd = TRUE /\ r.d.mode = d.mode /\ d.mode \in {"rw", mode}
              \/ r.ok = FALSE /\ r.d = d /\ d.fd = TRUE
              \/ r.ok = FALSE /\ r.d.faults > 0
<1> DEFINE opened == [d EXCEPT !.fd = TRUE, !.mode = IF d.duplex THEN "rw" ELSE mode,
                               !.configured = FALSE, !.refs = @ + 1]
           t == [opened EXCEPT !.fd = FALSE, !.refs = d.refs]
           more == [d EXCEPT !.refs = @ + 1]
<1>1. /\ d.fd \in BOOLEAN /\ d.refs \in Int
      /\ d.fd = FALSE => r \in Ok(opened) \/ r \in Fails(d, t)
      /\ d.fd = TRUE => (d.mode \in {"rw", mode} /\ r \in Ok(more)) \/ r \in No(d)
  BY DEF SunOpen, DevTypes
<1>2. /\ DOMAIN opened = DevFields /\ opened.fd = TRUE /\ opened.mode \in {"rw", mode}
      /\ opened.refs = d.refs + 1 /\ opened.out = d.out /\ opened.in = d.in
      /\ opened.faults = d.faults
  BY DEF DevTypes, DevFields
<1>3. DevTypes(opened)
  <2> HIDE DEF opened
  <2>1. opened.refs \in Int /\ opened.mode \in {"r", "w", "rw"}
    BY <1>1, <1>2
  <2>3. opened.fd \in BOOLEAN
    BY <1>2, Zenon
  <2>2. opened.out \in BOOLEAN /\ opened.in \in BOOLEAN /\ opened.faults \in 0 .. MaxFaults
    BY <1>2 DEF DevTypes
  <2> QED BY <1>2, <2>1, <2>2, <2>3 DEF DevTypes
<1> HIDE DEF opened
<1>4. DevTypes(t) /\ t.faults = d.faults
  <2>1. /\ DOMAIN t = DevFields /\ t.fd = FALSE /\ t.mode = opened.mode /\ t.refs = d.refs
        /\ t.out = opened.out /\ t.in = opened.in /\ t.faults = opened.faults
    BY <1>2 DEF DevFields
  <2> HIDE DEF t
  <2> QED BY <1>1, <1>2, <1>3, <2>1, Zenon DEF DevTypes
<1>5. /\ DOMAIN more = DevFields /\ more.fd = d.fd /\ more.mode = d.mode
      /\ more.refs = d.refs + 1 /\ more.out = d.out /\ more.in = d.in /\ more.faults = d.faults
  BY DEF DevTypes, DevFields
<1> HIDE DEF t, more
<1>6. DevTypes(more)
  BY <1>1, <1>5 DEF DevTypes
<1>7. CASE r \in Ok(opened) /\ d.fd = FALSE
  BY <1>2, <1>3, <1>7, OkIs, Zenon
<1>8. CASE r \in Fails(d, t)
  BY <1>4, <1>8, FailsIs, Zenon
<1>9. CASE d.fd = TRUE /\ d.mode \in {"rw", mode} /\ r \in Ok(more)
  BY <1>5, <1>6, <1>9, OkIs, Zenon
<1>10. CASE d.fd = TRUE /\ r \in No(d)
  BY <1>10, NoIs, Zenon
<1> QED BY <1>1, <1>7, <1>8, <1>9, <1>10, Zenon

(* A user less; the last closes the descriptor. *)
LEMMA SunCloseIs ==
    ASSUME NEW d, DevTypes(d)
    PROVE  /\ DevTypes(SunClose(d)) /\ SunClose(d).refs = d.refs - 1
           /\ SunClose(d).fd = (IF d.refs = 1 THEN FALSE ELSE d.fd)
           /\ SunClose(d).mode = d.mode /\ SunClose(d).faults = d.faults
           /\ SunClose(d).out = d.out /\ SunClose(d).in = d.in
<1> DEFINE t == SunClose(d)
<1>1. d.fd \in BOOLEAN /\ d.refs \in Int
  BY DEF DevTypes
<1>2. DOMAIN t = DevFields /\ t.refs = d.refs - 1 /\ t.mode = d.mode /\ t.faults = d.faults
      /\ t.out = d.out /\ t.in = d.in
  BY DEF SunClose, DevTypes, DevFields
<1>3. t.fd = (IF d.refs = 1 THEN FALSE ELSE d.fd)
  <2>1. t.fd = (d.fd /\ d.refs # 1)
    BY DEF SunClose, DevTypes, DevFields
  <2> QED BY <1>1, <2>1, Zenon
<1> HIDE DEF t
<1>4. DevTypes(t)
  <2>1. t.fd \in BOOLEAN
    BY <1>1, <1>3, Zenon
  <2>3. t.refs \in Int
    BY <1>1, <1>2
  <2>2. t.out \in BOOLEAN /\ t.in \in BOOLEAN /\ t.faults \in 0 .. MaxFaults
        /\ t.mode \in {"r", "w", "rw"}
    BY <1>2 DEF DevTypes
  <2> QED BY <1>2, <2>1, <2>2, <2>3 DEF DevTypes
<1> QED BY <1>2, <1>3, <1>4 DEF t

(* Opening for playback: one more user, or the users are as they were. *)
LEMMA SunOpenOutKeeps ==
    ASSUME NEW d, NEW U, SunGood(d, U), "out" \notin U, NEW r \in SunOpenOut(d)
    PROVE  \/ r.ok = TRUE /\ SunGood(r.d, U \cup {"out"})
           \/ r.ok = FALSE /\ SunGood(r.d, U)
<1>1. DevTypes(d) /\ (d.faults = 0 => SunShares(d, U)) /\ d.faults \in Nat /\ d.refs \in Int
      /\ d.mode \in {"r", "w", "rw"} /\ d.out \in BOOLEAN
  BY SoundConstants DEF SunGood, DevTypes
<1>2. PICK s \in SunOpen(d, "w") : r = [s EXCEPT !.d.out = @ \/ s.ok]
  BY DEF SunOpenOut
<1>3. /\ DevTypes(s.d)
      /\ \/ /\ s.ok = TRUE /\ s.d.fd = TRUE /\ s.d.faults = d.faults
            /\ s.d.refs = d.refs + 1 /\ s.d.out = d.out /\ s.d.in = d.in
            /\ \/ d.fd = FALSE /\ s.d.mode \in {"rw", "w"}
               \/ d.fd = TRUE /\ s.d.mode = d.mode /\ d.mode \in {"rw", "w"}
         \/ s.ok = FALSE /\ s.d = d /\ d.fd = TRUE
         \/ s.ok = FALSE /\ s.d.faults > 0
  BY <1>1, <1>2, SunOpenIs, Zenon
<1>4. DOMAIN s = {"ok", "d"} /\ s.ok \in BOOLEAN
  <2>1. \A x, y : (x \in Ok(y) \/ x \in No(y)) => DOMAIN x = {"ok", "d"} /\ x.ok \in BOOLEAN
    <3>1. ASSUME NEW x, NEW y, x \in Ok(y) \/ x \in No(y)
          PROVE  DOMAIN x = {"ok", "d"} /\ x.ok \in BOOLEAN
      <4>1. x = [ok |-> TRUE, d |-> y] \/ x = [ok |-> FALSE, d |-> y]
        BY <3>1 DEF Ok, No
      <4>2. DOMAIN x = {"ok", "d"}
        BY <4>1
      <4>3. x.ok = TRUE \/ x.ok = FALSE
        BY <4>1
      <4> QED BY <4>2, <4>3, Zenon
    <3> QED BY <3>1
  <2>2. \E y : s \in Ok(y) \/ s \in No(y)
    BY <1>2 DEF SunOpen, Fails
  <2> QED BY <2>1, <2>2
<1> DEFINE t == [s.d EXCEPT !.out = @ \/ s.ok]
<1>5. r.ok = s.ok /\ r.d = t
  BY <1>2, <1>4
<1>6. /\ DOMAIN t = DevFields /\ t.fd = s.d.fd /\ t.mode = s.d.mode /\ t.refs = s.d.refs
      /\ t.in = s.d.in /\ t.faults = s.d.faults
  BY <1>3 DEF DevTypes, DevFields
<1>7. t.out \in BOOLEAN /\ t.out = (IF s.ok THEN TRUE ELSE s.d.out)
  <2>1. t.out = (s.d.out \/ s.ok) /\ s.d.out \in BOOLEAN
    BY <1>3 DEF DevTypes, DevFields
  <2> HIDE DEF t
  <2> QED BY <1>4, <2>1, Zenon
<1> HIDE DEF t
<1>8. DevTypes(t) /\ t.faults \in Nat
  <2>1. DevTypes(s.d)
    BY <1>3
  <2>2. DevTypes(t)
    BY <1>6, <1>7, <2>1, Zenon DEF DevTypes
  <2> QED BY <2>2, SoundConstants DEF DevTypes
<1>9. CASE s.ok = FALSE
  <2>1. SunShares(s.d, U) => SunShares(t, U)
    BY <1>6, <1>7, <1>9 DEF SunShares
  <2>2. s.d = d \/ t.faults > 0
    BY <1>3, <1>6, <1>9
  <2> QED BY <1>1, <1>5, <1>6, <1>8, <1>9, <2>1, <2>2 DEF SunGood
<1>10. CASE s.ok = TRUE
  <2>1. d.faults = 0 => SunShares(t, U \cup {"out"})
    BY <1>1, <1>3, <1>6, <1>7, <1>10 DEF SunShares
  <2> QED BY <1>1, <1>3, <1>5, <1>6, <1>8, <1>10, <2>1 DEF SunGood
<1> QED BY <1>4, <1>9, <1>10, Zenon

(* Opening for recording: one more user, or the users are as they were. *)
LEMMA SunOpenInKeeps ==
    ASSUME NEW d, NEW U, SunGood(d, U), "in" \notin U, NEW r \in SunOpenIn(d)
    PROVE  \/ r.ok = TRUE /\ SunGood(r.d, U \cup {"in"})
           \/ r.ok = FALSE /\ SunGood(r.d, U)
<1>1. DevTypes(d) /\ (d.faults = 0 => SunShares(d, U)) /\ d.faults \in Nat /\ d.refs \in Int
      /\ d.mode \in {"r", "w", "rw"}
  BY SoundConstants DEF SunGood, DevTypes
<1>2. PICK s \in SunOpen(d, "r") :
          r \in (IF s.ok THEN Ok([s.d EXCEPT !.in = TRUE]) \cup Fails(s.d, SunClose(s.d)) ELSE {s})
  BY DEF SunOpenIn
<1>3. /\ DevTypes(s.d)
      /\ \/ /\ s.ok = TRUE /\ s.d.fd = TRUE /\ s.d.faults = d.faults
            /\ s.d.refs = d.refs + 1 /\ s.d.out = d.out /\ s.d.in = d.in
            /\ \/ d.fd = FALSE /\ s.d.mode \in {"rw", "r"}
               \/ d.fd = TRUE /\ s.d.mode = d.mode /\ d.mode \in {"rw", "r"}
         \/ s.ok = FALSE /\ s.d = d /\ d.fd = TRUE
         \/ s.ok = FALSE /\ s.d.faults > 0
  BY <1>1, <1>2, SunOpenIs, Zenon
<1>4. s.d.faults \in Nat
  BY <1>3, SoundConstants DEF DevTypes
<1>5. CASE s.ok = FALSE
  BY <1>1, <1>2, <1>3, <1>4, <1>5 DEF SunGood
<1>6. CASE s.ok = TRUE
  <2> DEFINE t == [s.d EXCEPT !.in = TRUE]
  <2>1. r \in Ok(t) \/ r \in Fails(s.d, SunClose(s.d))
    BY <1>2, <1>6
  <2>2. /\ DOMAIN t = DevFields /\ t.fd = s.d.fd /\ t.mode = s.d.mode /\ t.refs = s.d.refs
        /\ t.in = TRUE /\ t.out = s.d.out /\ t.faults = s.d.faults
    BY <1>3 DEF DevTypes, DevFields
  <2> HIDE DEF t
  <2>3. DevTypes(t)
    BY <1>3, <2>2, Zenon DEF DevTypes
  <2>4. CASE r \in Ok(t)
    <3>1. d.faults = 0 => SunShares(t, U \cup {"in"})
      BY <1>1, <1>3, <1>6, <2>2 DEF SunShares
    <3> QED BY <1>3, <1>6, <2>2, <2>3, <2>4, <3>1, OkIs, Zenon DEF SunGood
  <2>5. CASE r \in Fails(s.d, SunClose(s.d))
    <3>1. DevTypes(SunClose(s.d)) /\ SunClose(s.d).faults = s.d.faults
      BY <1>3, SunCloseIs, Zenon
    <3>2. r.ok = FALSE /\ DevTypes(r.d) /\ r.d.faults > 0
      BY <1>3, <2>5, <3>1, FailsIs, Zenon
    <3>3. r.d.faults # 0
      BY <3>2, SoundConstants DEF DevTypes
    <3> QED BY <3>2, <3>3 DEF SunGood
  <2> QED BY <2>1, <2>4, <2>5, Zenon
<1> QED BY <1>3, <1>5, <1>6, Zenon

(* Closing playback leaves the recording its device. *)
LEMMA SunCloseOutKeeps ==
    ASSUME NEW d, NEW U, SunGood(d, U), "out" \in U, NEW c \in SunCloseOut(d)
    PROVE  SunGood(c, U \ {"out"})
<1> DEFINE t == SunClose(d)
<1>1. DevTypes(d) /\ (d.faults = 0 => SunShares(d, U)) /\ d.refs \in Int
  BY DEF SunGood, DevTypes
<1>2. /\ DevTypes(t) /\ t.refs = d.refs - 1 /\ t.fd = (IF d.refs = 1 THEN FALSE ELSE d.fd)
      /\ t.mode = d.mode /\ t.faults = d.faults /\ t.out = d.out /\ t.in = d.in
  BY <1>1, SunCloseIs, Zenon
<1>3. c = [t EXCEPT !.out = FALSE]
  BY DEF SunCloseOut
<1> HIDE DEF t
<1>4. /\ DOMAIN c = DevFields /\ c.fd = t.fd /\ c.mode = t.mode /\ c.refs = t.refs
      /\ c.in = t.in /\ c.out = FALSE /\ c.faults = t.faults
  BY <1>2, <1>3, Zenon DEF DevTypes, DevFields
<1>5. DevTypes(c)
  BY <1>2, <1>4, Zenon DEF DevTypes
<1>6. SunShares(d, U) => SunShares(c, U \ {"out"})
  BY <1>1, <1>2, <1>4 DEF SunShares
<1> QED BY <1>1, <1>2, <1>4, <1>5, <1>6 DEF SunGood

(* Closing the recording leaves playback its device. *)
LEMMA SunCloseInKeeps ==
    ASSUME NEW d, NEW U, SunGood(d, U), "in" \in U, NEW c \in SunCloseIn(d)
    PROVE  SunGood(c, U \ {"in"})
<1> DEFINE t == SunClose(d)
<1>1. DevTypes(d) /\ (d.faults = 0 => SunShares(d, U)) /\ d.refs \in Int
  BY DEF SunGood, DevTypes
<1>2. /\ DevTypes(t) /\ t.refs = d.refs - 1 /\ t.fd = (IF d.refs = 1 THEN FALSE ELSE d.fd)
      /\ t.mode = d.mode /\ t.faults = d.faults /\ t.out = d.out /\ t.in = d.in
  BY <1>1, SunCloseIs, Zenon
<1>3. c = [t EXCEPT !.in = FALSE]
  BY DEF SunCloseIn
<1> HIDE DEF t
<1>4. /\ DOMAIN c = DevFields /\ c.fd = t.fd /\ c.mode = t.mode /\ c.refs = t.refs
      /\ c.out = t.out /\ c.in = FALSE /\ c.faults = t.faults
  BY <1>2, <1>3, Zenon DEF DevTypes, DevFields
<1>5. DevTypes(c)
  BY <1>2, <1>4, Zenon DEF DevTypes
<1>6. SunShares(d, U) => SunShares(c, U \ {"in"})
  BY <1>1, <1>2, <1>4 DEF SunShares
<1> QED BY <1>1, <1>2, <1>4, <1>5, <1>6 DEF SunGood

(* Setting a format does not change who uses the device. *)
LEMMA SunSetFormatKeeps ==
    ASSUME NEW d, NEW U, SunGood(d, U), U \cap {"out", "in"} # {}, NEW f,
           NEW r \in SunSetFormat(d, f)
    PROVE  r.ok \in BOOLEAN /\ SunGood(r.d, U)
<1> DEFINE set == [d EXCEPT !.fmt = f]
           t == [set EXCEPT !.configured = TRUE]
<1>1. DevTypes(d) /\ (d.faults = 0 => SunShares(d, U)) /\ d.fd \in BOOLEAN /\ d.refs \in Int
      /\ d.faults \in Nat
  BY SoundConstants DEF SunGood, DevTypes
<1>2. \/ r \in Ok(d) \/ r \in No(d) \/ r \in Ok(t) \/ r \in Fails(d, SunClose(set))
      \/ d.fd = FALSE /\ r \in No(SunClose(set))
  BY <1>1 DEF SunSetFormat
<1>3. DevTypes(set) /\ set.faults = d.faults /\ set.fd = d.fd /\ set.mode = d.mode
      /\ set.refs = d.refs /\ set.out = d.out /\ set.in = d.in
  BY <1>1 DEF DevTypes, DevFields
<1> HIDE DEF set
<1>4. DevTypes(t) /\ t.faults = d.faults /\ t.fd = d.fd /\ t.mode = d.mode
      /\ t.refs = d.refs /\ t.out = d.out /\ t.in = d.in
  BY <1>3 DEF DevTypes, DevFields
<1>5. SunShares(d, U) => SunShares(t, U)
  <2> HIDE DEF t
  <2> QED BY <1>4 DEF SunShares
<1> HIDE DEF t
<1>6. DevTypes(SunClose(set)) /\ SunClose(set).faults = d.faults
  BY <1>3, SunCloseIs, Zenon
<1>7. CASE r \in Ok(d) \/ r \in No(d)
  BY <1>7, OkIs, NoIs, Zenon
<1>8. CASE r \in Ok(t)
  BY <1>1, <1>4, <1>5, <1>8, OkIs, Zenon DEF SunGood
<1>9. CASE r \in Fails(d, SunClose(set))
  <2>1. r.ok = FALSE /\ DevTypes(r.d) /\ r.d.faults > 0
    BY <1>1, <1>6, <1>9, FailsIs, Zenon
  <2>2. r.d.faults # 0
    BY <2>1, SoundConstants DEF DevTypes
  <2> QED BY <2>1, <2>2, Zenon DEF SunGood
<1>10. CASE d.fd = FALSE /\ r \in No(SunClose(set))
  <2>1. d.faults # 0
    BY <1>1, <1>10 DEF SunShares
  <2>2. r.ok = FALSE /\ r.d = SunClose(set)
    BY <1>10, NoIs, Zenon
  <2> QED BY <1>6, <2>1, <2>2, Zenon DEF SunGood
<1> QED BY <1>2, <1>7, <1>8, <1>9, <1>10, Zenon

(* A direction of its own is opened or closed. *)
LEMMA OutIs ==
    ASSUME NEW d, DevTypes(d), NEW b \in BOOLEAN
    PROVE  /\ DevTypes([d EXCEPT !.out = b]) /\ [d EXCEPT !.out = b].out = b
           /\ [d EXCEPT !.out = b].in = d.in /\ [d EXCEPT !.out = b].faults = d.faults
<1> DEFINE t == [d EXCEPT !.out = b]
<1>1. /\ DOMAIN t = DevFields /\ t.fd = d.fd /\ t.mode = d.mode /\ t.refs = d.refs
      /\ t.in = d.in /\ t.out = b /\ t.faults = d.faults
  BY DEF DevTypes, DevFields
<1> HIDE DEF t
<1>2. DevTypes(t)
  BY <1>1 DEF DevTypes
<1> QED BY <1>1, <1>2 DEF t

(* The same for recording. *)
LEMMA InIs ==
    ASSUME NEW d, DevTypes(d), NEW b \in BOOLEAN
    PROVE  /\ DevTypes([d EXCEPT !.in = b]) /\ [d EXCEPT !.in = b].in = b
           /\ [d EXCEPT !.in = b].out = d.out /\ [d EXCEPT !.in = b].faults = d.faults
<1> DEFINE t == [d EXCEPT !.in = b]
<1>1. /\ DOMAIN t = DevFields /\ t.fd = d.fd /\ t.mode = d.mode /\ t.refs = d.refs
      /\ t.out = d.out /\ t.in = b /\ t.faults = d.faults
  BY DEF DevTypes, DevFields
<1> HIDE DEF t
<1>2. DevTypes(t)
  BY <1>1 DEF DevTypes
<1> QED BY <1>1, <1>2 DEF t

(* What may be open after an operation that may fail. *)
LEMMA FailsGood ==
    ASSUME NEW d, NEW after, DevTypes(d), DevTypes(after), after.faults = d.faults,
           NEW r \in Fails(d, after)
    PROVE  r.ok = FALSE /\ DevTypes(r.d) /\ r.d.faults # 0
<1>1. r.ok = FALSE /\ DevTypes(r.d) /\ r.d.faults > 0
  BY FailsIs, Zenon
<1> QED BY <1>1, SoundConstants DEF DevTypes

AlsaGood(d, U) == DevTypes(d) /\ (d.faults = 0 => AlsaShares(d, U))

(* alsa has a handle for each direction. *)
LEMMA AlsaKeeps ==
    ASSUME NEW d, NEW U, AlsaGood(d, U)
    PROVE  /\ \A r \in AlsaOpenOut(d) : \/ r.ok = TRUE /\ AlsaGood(r.d, U \cup {"out"})
                                        \/ r.ok = FALSE /\ AlsaGood(r.d, U)
           /\ \A r \in AlsaOpenIn(d) : \/ r.ok = TRUE /\ AlsaGood(r.d, U \cup {"in"})
                                       \/ r.ok = FALSE /\ AlsaGood(r.d, U)
           /\ \A c \in AlsaCloseOut(d) : AlsaGood(c, U \ {"out"})
           /\ \A c \in AlsaCloseIn(d) : AlsaGood(c, U \ {"in"})
           /\ \A f : \A r \in AlsaSetFormat(d, f) : r.ok \in BOOLEAN /\ AlsaGood(r.d, U)
<1>1. DevTypes(d) /\ (d.faults = 0 => AlsaShares(d, U))
  BY DEF AlsaGood
<1>2. ASSUME NEW r \in Fails(d, d) PROVE r.ok = FALSE /\ AlsaGood(r.d, U)
  BY <1>1, <1>2, FailsGood, Zenon DEF AlsaGood
<1>3. ASSUME NEW b \in BOOLEAN
      PROVE  /\ AlsaGood([d EXCEPT !.out = b], IF b THEN U \cup {"out"} ELSE U \ {"out"})
             /\ AlsaGood([d EXCEPT !.in = b], IF b THEN U \cup {"in"} ELSE U \ {"in"})
  <2> DEFINE t == [d EXCEPT !.out = b]
             u == [d EXCEPT !.in = b]
  <2>1. DevTypes(t) /\ t.out = b /\ t.in = d.in /\ t.faults = d.faults
    BY <1>1, OutIs
  <2>2. DevTypes(u) /\ u.in = b /\ u.out = d.out /\ u.faults = d.faults
    BY <1>1, InIs
  <2> HIDE DEF t, u
  <2>3. AlsaGood(t, IF b THEN U \cup {"out"} ELSE U \ {"out"})
    BY <1>1, <2>1 DEF AlsaGood, AlsaShares
  <2>4. AlsaGood(u, IF b THEN U \cup {"in"} ELSE U \ {"in"})
    BY <1>1, <2>2 DEF AlsaGood, AlsaShares
  <2> QED BY <2>3, <2>4 DEF t, u
<1>4. /\ AlsaGood([d EXCEPT !.out = TRUE], U \cup {"out"})
      /\ AlsaGood([d EXCEPT !.in = TRUE], U \cup {"in"})
      /\ AlsaGood([d EXCEPT !.out = FALSE], U \ {"out"})
      /\ AlsaGood([d EXCEPT !.in = FALSE], U \ {"in"})
  BY <1>3, Zenon
<1>5. ASSUME NEW r \in AlsaOpenOut(d)
      PROVE  \/ r.ok = TRUE /\ AlsaGood(r.d, U \cup {"out"})
             \/ r.ok = FALSE /\ AlsaGood(r.d, U)
  BY <1>2, <1>4, <1>5, OkIs, Zenon DEF AlsaOpenOut
<1>6. ASSUME NEW r \in AlsaOpenIn(d)
      PROVE  \/ r.ok = TRUE /\ AlsaGood(r.d, U \cup {"in"})
             \/ r.ok = FALSE /\ AlsaGood(r.d, U)
  BY <1>2, <1>4, <1>6, OkIs, Zenon DEF AlsaOpenIn
<1>7. /\ \A c \in AlsaCloseOut(d) : AlsaGood(c, U \ {"out"})
      /\ \A c \in AlsaCloseIn(d) : AlsaGood(c, U \ {"in"})
  BY <1>4 DEF AlsaCloseOut, AlsaCloseIn
<1>8. ASSUME NEW f, NEW r \in AlsaSetFormat(d, f) PROVE r.ok \in BOOLEAN /\ AlsaGood(r.d, U)
  BY <1>2, <1>8, OkIs, Zenon DEF AlsaSetFormat
<1> QED BY <1>5, <1>6, <1>7, <1>8, Zenon

OutGood(d, U) == DevTypes(d) /\ (d.faults = 0 => (d.out = TRUE <=> "out" \in U))

(* sgi and libao only play. *)
LEMMA OutKeeps ==
    ASSUME NEW d, NEW U, OutGood(d, U)
    PROVE  /\ \A r \in SgiOpen(d) \cup LibaoOpen(d) :
                  \/ r.ok = TRUE /\ OutGood(r.d, U \cup {"out"})
                  \/ r.ok = FALSE /\ OutGood(r.d, U)
           /\ \A c \in SgiClose(d) \cup LibaoClose(d) : OutGood(c, U \ {"out"})
           /\ "out" \in U =>
                  \A f : \A r \in SgiSetFormat(d, f) \cup LibaoSetFormat(d, f) :
                      r.ok \in BOOLEAN /\ OutGood(r.d, U)
<1> DEFINE t == [d EXCEPT !.out = TRUE]
           u == [d EXCEPT !.out = FALSE]
<1>1. DevTypes(d) /\ (d.faults = 0 => (d.out = TRUE <=> "out" \in U))
  BY DEF OutGood
<1>2. DevTypes(t) /\ t.out = TRUE /\ t.faults = d.faults
  BY <1>1, OutIs, Zenon
<1>3. DevTypes(u) /\ u.out = FALSE /\ u.faults = d.faults
  BY <1>1, OutIs, Zenon
<1>4. SgiOpen(d) = Ok(t) \cup Fails(d, u) /\ LibaoOpen(d) = Ok(t) \cup Fails(d, u)
  BY DEF SgiOpen, LibaoOpen
<1>5. SgiClose(d) = {u} /\ LibaoClose(d) = {u}
  BY DEF SgiClose, LibaoClose
<1>6. \A f : /\ SgiSetFormat(d, f) = Ok(t) \cup Fails(d, u) \cup Fails(d, t)
             /\ LibaoSetFormat(d, f) = Ok(t) \cup Fails(d, u) \cup Fails(d, t)
  BY DEF SgiSetFormat, LibaoSetFormat
<1> HIDE DEF t, u
<1>7. ASSUME NEW r \in Fails(d, u) \cup Fails(d, t) PROVE r.ok = FALSE /\ OutGood(r.d, U)
  BY <1>1, <1>2, <1>3, <1>7, FailsGood, Zenon DEF OutGood
<1>8. OutGood(t, U \cup {"out"}) /\ OutGood(u, U \ {"out"})
  BY <1>2, <1>3 DEF OutGood
<1>9. "out" \in U => OutGood(t, U)
  BY <1>2 DEF OutGood
<1>10. ASSUME NEW r \in Ok(t) PROVE r.ok = TRUE /\ r.d = t
  BY <1>10, OkIs, Zenon
<1> QED BY <1>4, <1>5, <1>6, <1>7, <1>8, <1>9, <1>10, Zenon

-----------------------------------------------------------------------------
(* The driver of the build *)

(* Device d is open in the directions U. *)
DevGood(d, U) ==
    \/ built = "oss" /\ OssGood(d, U)
    \/ built = "sun" /\ SunGood(d, U)
    \/ built = "alsa" /\ AlsaGood(d, U)
    \/ built \in {"sgi", "libao"} /\ OutGood(d, U)

(* r opens direction x of a device open in the directions U, or fails. *)
Opens(r, U, x) ==
    \/ r.ok = TRUE /\ DevGood(r.d, U \cup {x})
    \/ r.ok = FALSE /\ DevGood(r.d, U)

(* Each driver opens for playback without taking the device from the recording. *)
LEMMA WaveOutOpenIs ==
    ASSUME NEW d, NEW U, DevGood(d, U), "out" \notin U, NEW r \in WaveOutOpen(d)
    PROVE  Opens(r, U, "out")
<1>1. CASE built = "oss" /\ OssGood(d, U)
  BY <1>1, OssOpenOutKeeps, Zenon DEF WaveOutOpen, Opens, DevGood
<1>2. CASE built = "sun" /\ SunGood(d, U)
  BY <1>2, SunOpenOutKeeps, Zenon DEF WaveOutOpen, Opens, DevGood
<1>3. CASE built = "alsa" /\ AlsaGood(d, U)
  BY <1>3, AlsaKeeps, Zenon DEF WaveOutOpen, Opens, DevGood
<1>4. CASE built \in {"sgi", "libao"} /\ OutGood(d, U)
  <2>1. r \in SgiOpen(d) \cup LibaoOpen(d)
    BY <1>4 DEF WaveOutOpen
  <2> QED BY <1>4, <2>1, OutKeeps, Zenon DEF Opens, DevGood
<1> QED BY <1>1, <1>2, <1>3, <1>4 DEF DevGood

(* Each driver closes playback without taking the device from the recording. *)
LEMMA WaveOutCloseIs ==
    ASSUME NEW d, NEW U, DevGood(d, U), "out" \in U, NEW c \in WaveOutClose(d)
    PROVE  DevGood(c, U \ {"out"})
<1>1. CASE built = "oss" /\ OssGood(d, U)
  BY <1>1, OssCloseOutKeeps DEF WaveOutClose, DevGood, OssCloseOut
<1>2. CASE built = "sun" /\ SunGood(d, U)
  BY <1>2, SunCloseOutKeeps DEF WaveOutClose, DevGood
<1>3. CASE built = "alsa" /\ AlsaGood(d, U)
  BY <1>3, AlsaKeeps, Zenon DEF WaveOutClose, DevGood
<1>4. CASE built \in {"sgi", "libao"} /\ OutGood(d, U)
  <2>1. c \in SgiClose(d) \cup LibaoClose(d)
    BY <1>4 DEF WaveOutClose
  <2> QED BY <1>4, <2>1, OutKeeps, Zenon DEF DevGood
<1> QED BY <1>1, <1>2, <1>3, <1>4 DEF DevGood

(* Each driver sets a format without changing who uses the device. *)
LEMMA WaveSetFormatIs ==
    ASSUME NEW d, NEW U, DevGood(d, U), "out" \in U \/ (built \in Recorders /\ "in" \in U), NEW f,
           NEW r \in WaveSetFormat(d, f)
    PROVE  r.ok \in BOOLEAN /\ DevGood(r.d, U)
<1>1. CASE built = "oss" /\ OssGood(d, U)
  BY <1>1, OssSetFormatKeeps DEF WaveSetFormat, DevGood
<1>2. CASE built = "sun" /\ SunGood(d, U)
  BY <1>2, SunSetFormatKeeps DEF WaveSetFormat, DevGood
<1>3. CASE built = "alsa" /\ AlsaGood(d, U)
  BY <1>3, AlsaKeeps, Zenon DEF WaveSetFormat, DevGood
<1>4. CASE built \in {"sgi", "libao"} /\ OutGood(d, U)
  <2>1. r \in SgiSetFormat(d, f) \cup LibaoSetFormat(d, f) /\ "out" \in U
    BY <1>4 DEF WaveSetFormat, Recorders
  <2> QED BY <1>4, <2>1, OutKeeps, Zenon DEF DevGood
<1> QED BY <1>1, <1>2, <1>3, <1>4 DEF DevGood

(* Each driver that records opens for it without taking the device from playback. *)
LEMMA WaveInOpenIs ==
    ASSUME NEW d, NEW U, DevGood(d, U), built \in Recorders, "in" \notin U, NEW r \in WaveInOpen(d)
    PROVE  Opens(r, U, "in")
<1>1. CASE built = "oss" /\ OssGood(d, U)
  BY <1>1, OssOpenInKeeps, Zenon DEF WaveInOpen, Opens, DevGood
<1>2. CASE built = "sun" /\ SunGood(d, U)
  BY <1>2, SunOpenInKeeps, Zenon DEF WaveInOpen, Opens, DevGood
<1>3. CASE built = "alsa" /\ AlsaGood(d, U)
  BY <1>3, AlsaKeeps, Zenon DEF WaveInOpen, Opens, DevGood
<1> QED BY <1>1, <1>2, <1>3 DEF DevGood, Recorders

(* Each driver that records closes it without taking the device from playback. *)
LEMMA WaveInCloseIs ==
    ASSUME NEW d, NEW U, DevGood(d, U), built \in Recorders, "in" \in U, NEW c \in WaveInClose(d)
    PROVE  DevGood(c, U \ {"in"})
<1>1. CASE built = "oss" /\ OssGood(d, U)
  BY <1>1, OssCloseInKeeps DEF WaveInClose, DevGood, OssCloseIn
<1>2. CASE built = "sun" /\ SunGood(d, U)
  BY <1>2, SunCloseInKeeps DEF WaveInClose, DevGood
<1>3. CASE built = "alsa" /\ AlsaGood(d, U)
  BY <1>3, AlsaKeeps, Zenon DEF WaveInClose, DevGood
<1> QED BY <1>1, <1>2, <1>3 DEF DevGood, Recorders

-----------------------------------------------------------------------------
(* The device follows what uses it *)

Users == {x \in {"out", "in"} : IF x = "out" THEN device_open ELSE g_input_open}

DeviceInv ==
    /\ built \in Drivers /\ current_driver \in {built, NoDriver}
    /\ device_open \in BOOLEAN /\ g_input_open \in BOOLEAN
    /\ DevGood(dev, Users)
    /\ device_open => rdpsnd_negotiated /\ current_driver # NoDriver
    /\ g_input_open => inFormats /\ built \in Recorders

(* The packets of a queue. *)
Packets == [id : 0 .. MaxWaves, left : 0 .. 2, due : 0 .. 1]
SlotsGood(q) == q.slots \in [Slots -> Packets]

SndQueueInv ==
    /\ SlotsGood(queue) /\ (~device_open => queue.lo = queue.hi)
    /\ current_format \in SndFormats \cup {NoFormat} /\ sndLink \in {"up", "down", "reset"}

(* A probe leaves the device as it was. *)
LEMMA ProbeIs ==
    ASSUME NEW d, NEW U, DevGood(d, U), "out" \notin U, NEW r \in Probe(d)
    PROVE  r.ok \in BOOLEAN /\ DevGood(r.d, U)
<1>1. PICK s \in WaveOutOpen(d) :
          r \in (IF s.ok THEN {[ok |-> TRUE, d |-> c] : c \in WaveOutClose(s.d)} ELSE {s})
  BY DEF Probe
<1>2. Opens(s, U, "out")
  BY <1>1, WaveOutOpenIs
<1>3. CASE s.ok = FALSE
  <2>1. DevGood(s.d, U) /\ r = s
    BY <1>1, <1>2, <1>3 DEF Opens
  <2> QED BY <1>3, <2>1, Zenon
<1>4. CASE s.ok = TRUE
  <2>1. DevGood(s.d, U \cup {"out"})
    BY <1>2, <1>4 DEF Opens
  <2>2. PICK c \in WaveOutClose(s.d) : r = [ok |-> TRUE, d |-> c]
    BY <1>1, <1>4
  <2>3. DevGood(c, (U \cup {"out"}) \ {"out"})
    BY <2>1, <2>2, WaveOutCloseIs
  <2>4. (U \cup {"out"}) \ {"out"} = U
    OBVIOUS
  <2>5. r.ok = TRUE /\ r.d = c
    BY <2>2
  <2> QED BY <2>3, <2>4, <2>5, Zenon
<1> QED BY <1>2, <1>3, <1>4, Zenon DEF Opens

(* Both directions are closed. *)
LEMMA ClosingsAre ==
    ASSUME DeviceInv, NEW c \in Closings(dev)
    PROVE  DevGood(c, {})
<1> DEFINE outs == IF device_open THEN WaveOutClose(dev) ELSE {dev}
<1>1. /\ DevGood(dev, Users) /\ device_open \in BOOLEAN /\ g_input_open \in BOOLEAN
      /\ g_input_open => built \in Recorders
  BY DEF DeviceInv
<1>2. ASSUME NEW o \in outs PROVE DevGood(o, Users \ {"out"})
  <2>1. CASE device_open
    <3>1. "out" \in Users
      BY <2>1 DEF Users
    <3> QED BY <1>1, <1>2, <2>1, <3>1, WaveOutCloseIs
  <2>2. CASE ~device_open
    <3>1. o = dev /\ Users \ {"out"} = Users
      BY <1>2, <2>2 DEF Users
    <3> QED BY <1>1, <3>1
  <2> QED BY <1>1, <2>1, <2>2
<1>3. CASE g_input_open
  <2>1. PICK o \in outs : c \in WaveInClose(o)
    BY <1>3 DEF Closings
  <2> HIDE DEF outs
  <2>2. "in" \in Users \ {"out"} /\ (Users \ {"out"}) \ {"in"} = {}
    BY <1>3 DEF Users
  <2>3. DevGood(c, (Users \ {"out"}) \ {"in"})
    BY <1>1, <1>2, <1>3, <2>1, <2>2, WaveInCloseIs
  <2> QED BY <2>2, <2>3
<1>4. CASE ~g_input_open
  <2>1. c \in outs
    BY <1>4 DEF Closings
  <2> HIDE DEF outs
  <2>2. Users \ {"out"} = {}
    BY <1>4 DEF Users
  <2> QED BY <1>2, <2>1, <2>2
<1> QED BY <1>1, <1>3, <1>4

(* A device that has failed once promises nothing. *)
LEMMA FaultGood ==
    ASSUME NEW U, DevGood(dev, U), dev.faults < MaxFaults
    PROVE  DevGood([dev EXCEPT !.faults = @ + 1], U)
<1> DEFINE t == [dev EXCEPT !.faults = @ + 1]
<1>1. DevTypes(dev)
  BY DEF DevGood, OssGood, SunGood, AlsaGood, OutGood
<1>2. t.faults # 0 /\ DevTypes(t)
  <2>1. /\ DOMAIN t = DevFields /\ t.fd = dev.fd /\ t.mode = dev.mode /\ t.refs = dev.refs
        /\ t.out = dev.out /\ t.in = dev.in /\ t.faults = dev.faults + 1
    BY <1>1 DEF DevTypes, DevFields
  <2> HIDE DEF t
  <2>2. t.faults \in 0 .. MaxFaults /\ t.faults # 0
    BY <1>1, <2>1, SoundConstants DEF DevTypes
  <2> QED BY <1>1, <2>1, <2>2 DEF DevTypes
<1> HIDE DEF t
<1>3. DevGood(t, U)
  BY <1>2 DEF DevGood, OssGood, SunGood, AlsaGood, OutGood
<1> QED BY <1>3 DEF t

(* DeviceInv with the next values, for a step that keeps the driver. *)
LEMMA DeviceRests ==
    ASSUME DeviceInv, UNCHANGED <<chanVars, device_open, inputVars>>, DevGood(dev', Users)
    PROVE  DeviceInv'
<1>1. Users' = Users
  BY DEF Users, inputVars
<1>2. UNCHANGED <<built, current_driver, rdpsnd_negotiated, device_open, g_input_open, inFormats>>
  BY DEF chanVars, inputVars
<1>3. DevGood(dev, Users)' = DevGood(dev', Users)
  BY <1>1, <1>2 DEF DevGood, OssGood, SunGood, AlsaGood, OutGood
<1> QED BY <1>2, <1>3 DEF DeviceInv

(* The device is open in the directions V after the step. *)
LEMMA DeviceMoves ==
    ASSUME NEW V, built' = built, DevGood(dev', V), Users' = V
    PROVE  DevGood(dev, Users)'
BY DEF DevGood, OssGood, SunGood, AlsaGood, OutGood

(* rdpsnd_process_negotiate closes what was open before it tries the drivers. *)
LEMMA NegotiateFollows == DeviceInv /\ ProcessNegotiate => DeviceInv'
<1> SUFFICES ASSUME DeviceInv, ProcessNegotiate PROVE DeviceInv'
  OBVIOUS
<1> DEFINE V == IF rdpsnd_negotiated THEN {} ELSE Users
<1>1. /\ built \in Drivers /\ built' = built /\ current_driver \in {built, NoDriver}
      /\ device_open \in BOOLEAN /\ g_input_open \in BOOLEAN
      /\ device_open => rdpsnd_negotiated /\ current_driver # NoDriver
      /\ g_input_open => inFormats /\ built \in Recorders
      /\ rdpsnd_negotiated' = TRUE
  BY DEF DeviceInv, ProcessNegotiate
<1>2. IF rdpsnd_negotiated
      THEN device_open' = FALSE /\ g_input_open' = FALSE /\ inFormats' = FALSE
      ELSE device_open' = device_open /\ g_input_open' = g_input_open /\ inFormats' = inFormats
  BY DEF ProcessNegotiate, ResetSound, inputVars
<1>3. Users' = V /\ "out" \notin V
  BY <1>1, <1>2 DEF Users
<1>4. PICK d \in (IF rdpsnd_negotiated THEN Closings(dev) ELSE {dev}) :
          IF autoFailed THEN dev' = d /\ UNCHANGED <<current_driver, autoFailed>>
          ELSE \E r \in Probe(d) :
                 /\ dev' = r.d
                 /\ current_driver' = IF r.ok THEN built ELSE current_driver
  BY DEF ProcessNegotiate
<1>5. DevGood(d, V)
  <2>1. CASE rdpsnd_negotiated
    BY <1>4, <2>1, ClosingsAre
  <2>2. CASE ~rdpsnd_negotiated
    BY <1>4, <2>2 DEF DeviceInv
  <2> QED BY <2>1, <2>2
<1> HIDE DEF V
<1>6. DevGood(dev', V) /\ current_driver' \in {current_driver, built}
  <2>1. CASE autoFailed
    BY <1>4, <1>5, <2>1
  <2>2. CASE ~autoFailed
    BY <1>3, <1>4, <1>5, <2>2, ProbeIs
  <2> QED BY <2>1, <2>2
<1>7. DevGood(dev, Users)'
  BY <1>1, <1>3, <1>6, DeviceMoves
<1>8. built # NoDriver
  BY <1>1, Zenon DEF Drivers, NoDriver
<1> QED BY <1>1, <1>2, <1>6, <1>7, <1>8, Zenon DEF DeviceInv

(* The device closes, and playing with it. *)
LEMMA CloseFollows ==
    ASSUME NEW d, DevGood(d, Users \cup {"out"}), CloseOn(d), built' = built,
           g_input_open' = g_input_open
    PROVE  DevGood(dev, Users)' /\ device_open' = FALSE
<1>1. dev' \in WaveOutClose(d) /\ device_open' = FALSE
  BY DEF CloseOn
<1>2. DevGood(dev', (Users \cup {"out"}) \ {"out"})
  BY <1>1, WaveOutCloseIs
<1>3. Users' = (Users \cup {"out"}) \ {"out"}
  BY <1>1 DEF Users
<1>4. DevGood(dev, Users)'
  BY <1>2, <1>3, DeviceMoves
<1> QED BY <1>1, <1>4

(* A wave opens the device, or finds it open. *)
LEMMA WaveFollows ==
    ASSUME DeviceInv, NEW f \in SndFormats, ProcessWave(f)
    PROVE  DeviceInv'
<1>1. /\ built \in Drivers /\ current_driver \in {built, NoDriver} /\ device_open \in BOOLEAN
      /\ g_input_open \in BOOLEAN /\ DevGood(dev, Users) /\ rdpsnd_negotiated
      /\ device_open => current_driver # NoDriver
      /\ g_input_open => inFormats /\ built \in Recorders
      /\ UNCHANGED <<built, current_driver, rdpsnd_negotiated, g_input_open, inFormats>>
  BY DEF DeviceInv, ProcessWave, chanVars, inputVars
<1>2. ASSUME device_open' \in BOOLEAN, device_open' => current_driver # NoDriver,
             DevGood(dev, Users)'
      PROVE  DeviceInv'
  BY <1>1, <1>2 DEF DeviceInv
<1>3. ASSUME NEW d, DevGood(d, Users \cup {"out"}), Take(nWaves', d, f),
             current_driver # NoDriver
      PROVE  DeviceInv'
  <2>1. dev' = d /\ device_open' = TRUE
    BY <1>3 DEF Take
  <2>2. Users' = Users \cup {"out"}
    BY <1>1, <2>1 DEF Users
  <2>3. DevGood(dev, Users)'
    BY <1>1, <1>3, <2>1, <2>2, DeviceMoves
  <2> QED BY <1>2, <1>3, <2>1, <2>3
<1>4. ASSUME NEW d, DevGood(d, Users), Refuse(d) PROVE DeviceInv'
  <2>1. dev' = d /\ device_open' = device_open
    BY <1>4 DEF Refuse
  <2>2. Users' = Users
    BY <1>1, <2>1 DEF Users
  <2>3. DevGood(dev, Users)'
    BY <1>1, <1>4, <2>1, <2>2, DeviceMoves
  <2> QED BY <1>1, <1>2, <2>1, <2>3
<1>5. ASSUME NEW d, DevGood(d, Users \cup {"out"}), CloseOn(d) PROVE DeviceInv'
  BY <1>1, <1>2, <1>5, CloseFollows, Zenon
<1>6. CASE device_open /\ f = current_format
  <2>1. Users \cup {"out"} = Users /\ Take(nWaves', dev, f)
    BY <1>6 DEF ProcessWave, Users
  <2> QED BY <1>1, <1>3, <1>6, <2>1
<1>7. CASE ~(device_open /\ f = current_format) /\ current_driver = NoDriver
  <2>1. Refuse(dev)
    BY <1>7 DEF ProcessWave
  <2> QED BY <1>1, <1>4, <2>1
<1>8. CASE ~(device_open /\ f = current_format) /\ current_driver # NoDriver
  <2>1. PICK r \in (IF device_open THEN Ok(dev) ELSE WaveOutOpen(dev)) :
            IF ~r.ok THEN Refuse(r.d)
            ELSE IF AssertsOpen(r.d)
            THEN /\ sndAborted' = TRUE
                 /\ UNCHANGED <<dev, device_open, current_format, queue, confirmedQ, netError>>
            ELSE \E s \in WaveSetFormat(r.d, f) :
                    IF s.ok THEN Take(nWaves', s.d, f) ELSE CloseOn(s.d)
    BY <1>8 DEF ProcessWave
  <2>2. \/ r.ok = TRUE /\ DevGood(r.d, Users \cup {"out"})
        \/ r.ok = FALSE /\ DevGood(r.d, Users)
    <3>1. CASE device_open
      <4>1. r \in Ok(dev) /\ Users \cup {"out"} = Users
        BY <2>1, <3>1 DEF Users
      <4> QED BY <1>1, <4>1, OkIs, Zenon
    <3>2. CASE ~device_open
      <4>1. r \in WaveOutOpen(dev) /\ "out" \notin Users
        BY <2>1, <3>2 DEF Users
      <4> QED BY <1>1, <4>1, WaveOutOpenIs, Zenon DEF Opens
    <3> QED BY <3>1, <3>2, Zenon
  <2>3. CASE r.ok = FALSE
    BY <1>4, <2>1, <2>2, <2>3
  <2>4. CASE r.ok = TRUE /\ AssertsOpen(r.d)
    <3>1. UNCHANGED <<dev, device_open>>
      BY <2>1, <2>4
    <3>2. Users' = Users
      BY <1>1, <3>1 DEF Users
    <3>3. DevGood(dev, Users)'
      BY <1>1, <3>1, <3>2, DeviceMoves
    <3> QED BY <1>1, <1>2, <3>1, <3>3
  <2>5. CASE r.ok = TRUE /\ ~AssertsOpen(r.d)
    <3>1. PICK s \in WaveSetFormat(r.d, f) : IF s.ok THEN Take(nWaves', s.d, f) ELSE CloseOn(s.d)
      BY <2>1, <2>5
    <3>2. "out" \in Users \cup {"out"} /\ DevGood(r.d, Users \cup {"out"})
      BY <2>2, <2>5
    <3>3. s.ok \in BOOLEAN /\ DevGood(s.d, Users \cup {"out"})
      BY <3>1, <3>2, WaveSetFormatIs
    <3> QED BY <1>3, <1>5, <1>8, <3>1, <3>3
  <2> QED BY <2>2, <2>3, <2>4, <2>5, Zenon
<1> QED BY <1>6, <1>7, <1>8

(* Recording is set up, or was not possible. *)
LEMMA InputFollows ==
    ASSUME DeviceInv, NEW f \in SndFormats, InputSetFormat(f)
    PROVE  DeviceInv'
<1>1. /\ built \in Drivers /\ current_driver \in {built, NoDriver} /\ device_open \in BOOLEAN
      /\ g_input_open \in BOOLEAN /\ DevGood(dev, Users) /\ built \in Recorders /\ inFormats
      /\ device_open => rdpsnd_negotiated /\ current_driver # NoDriver
      /\ UNCHANGED <<built, current_driver, rdpsnd_negotiated, device_open, inFormats>>
  BY DEF DeviceInv, InputSetFormat, chanVars
<1> DEFINE U == Users \ {"in"}
           V == U \cup {"in"}
<1>2. PICK d \in (IF g_input_open THEN WaveInClose(dev) ELSE {dev}) :
          \E r \in InputReopened(d, f) : dev' = r.d /\ g_input_open' = r.ok
  BY DEF InputSetFormat
<1>3. PICK r \in InputReopened(d, f) : dev' = r.d /\ g_input_open' = r.ok
  BY <1>2
<1>4. DevGood(d, U)
  <2>1. CASE g_input_open
    <3>1. "in" \in Users
      BY <2>1 DEF Users
    <3> QED BY <1>1, <1>2, <2>1, <3>1, WaveInCloseIs
  <2>2. CASE ~g_input_open
    <3>1. U = Users
      BY <2>2 DEF Users
    <3> QED BY <1>1, <1>2, <2>2, <3>1
  <2> QED BY <2>1, <2>2
<1>5. Users' = IF g_input_open' THEN V ELSE U
  BY <1>1 DEF Users
<1>6. "in" \notin U /\ "in" \in V /\ V \ {"in"} = U
  OBVIOUS
<1> HIDE DEF U, V
<1>7. ASSUME NEW o \in WaveInOpen(d)
      PROVE  \/ o.ok = TRUE /\ DevGood(o.d, V)
             \/ o.ok = FALSE /\ DevGood(o.d, U)
  BY <1>1, <1>4, <1>6, <1>7, WaveInOpenIs, Zenon DEF Opens, V
<1>8. ASSUME NEW e, DevGood(e, V), NEW s \in InputFormatted(e, f)
      PROVE  \/ s.ok = TRUE /\ DevGood(s.d, V)
             \/ s.ok = FALSE /\ DevGood(s.d, U)
  <2>1. PICK w \in WaveSetFormat(e, f) :
            s \in (IF w.ok THEN {w} ELSE {[ok |-> FALSE, d |-> c] : c \in WaveInClose(w.d)})
    BY <1>8 DEF InputFormatted
  <2>2. w.ok \in BOOLEAN /\ DevGood(w.d, V)
    BY <1>1, <1>6, <1>8, <2>1, WaveSetFormatIs
  <2>3. CASE w.ok = TRUE
    BY <2>1, <2>2, <2>3
  <2>4. CASE w.ok = FALSE
    <3>1. PICK c \in WaveInClose(w.d) : s = [ok |-> FALSE, d |-> c]
      BY <2>1, <2>4
    <3>2. DevGood(c, V \ {"in"})
      BY <1>1, <1>6, <2>2, <3>1, WaveInCloseIs
    <3>3. s.ok = FALSE /\ s.d = c
      BY <3>1
    <3> QED BY <1>6, <3>2, <3>3
  <2> QED BY <2>2, <2>3, <2>4, Zenon
<1>9. \/ r.ok = TRUE /\ DevGood(r.d, V)
      \/ r.ok = FALSE /\ DevGood(r.d, U)
  <2>1. PICK o \in WaveInOpen(d) : r \in (IF o.ok THEN InputFormatted(o.d, f) ELSE {o})
    BY <1>3 DEF InputReopened
  <2> QED BY <1>7, <1>8, <2>1, Zenon
<1>10. DevGood(dev, Users)'
  <2>1. CASE r.ok = TRUE
    <3>1. Users' = V /\ DevGood(dev', V)
      BY <1>3, <1>5, <1>9, <2>1
    <3> QED BY <1>1, <3>1, DeviceMoves
  <2>2. CASE r.ok = FALSE
    <3>1. Users' = U /\ DevGood(dev', U)
      BY <1>3, <1>5, <1>9, <2>2
    <3> QED BY <1>1, <3>1, DeviceMoves
  <2> QED BY <1>9, <2>1, <2>2, Zenon
<1>11. g_input_open' \in BOOLEAN
  BY <1>3, <1>9, Zenon
<1> QED BY <1>1, <1>10, <1>11 DEF DeviceInv

(* Looking for a driver when recording is set up. *)
LEMMA FormatsFollow == DeviceInv /\ InputProcessFormats => DeviceInv'
<1> SUFFICES ASSUME DeviceInv, InputProcessFormats PROVE DeviceInv'
  OBVIOUS
<1>1. /\ built \in Drivers /\ current_driver \in {built, NoDriver} /\ device_open \in BOOLEAN
      /\ g_input_open \in BOOLEAN /\ DevGood(dev, Users) /\ ~inFormats
      /\ device_open => rdpsnd_negotiated /\ current_driver # NoDriver
      /\ g_input_open => inFormats /\ built \in Recorders /\ inFormats' = TRUE
      /\ UNCHANGED <<built, rdpsnd_negotiated, device_open, g_input_open>>
  BY DEF DeviceInv, InputProcessFormats
<1>2. Users' = Users /\ (~device_open => "out" \notin Users) /\ built # NoDriver
  BY <1>1, Zenon DEF Users, Drivers, NoDriver
<1>3. DevGood(dev', Users) /\ current_driver' \in {built, NoDriver}
      /\ (device_open => current_driver' # NoDriver)
  <2>1. CASE UNCHANGED <<dev, current_driver>>
    BY <1>1, <2>1
  <2>2. CASE current_driver = NoDriver /\ ~autoFailed /\ AutoSelect
    <3>1. PICK r \in Probe(dev) : dev' = r.d /\ current_driver' = IF r.ok THEN built ELSE NoDriver
      BY <2>2 DEF AutoSelect
    <3>2. DevGood(r.d, Users)
      BY <1>1, <1>2, <2>2, <3>1, ProbeIs
    <3> QED BY <1>1, <2>2, <3>1, <3>2
  <2> QED BY <2>1, <2>2 DEF InputProcessFormats, AutoSelect
<1>4. DevGood(dev, Users)'
  BY <1>1, <1>2, <1>3, DeviceMoves
<1> QED BY <1>1, <1>3, <1>4 DEF DeviceInv

(* At the beginning nothing is open. *)
LEMMA DeviceInit == SoundInit => DeviceInv
<1> SUFFICES ASSUME SoundInit PROVE DeviceInv
  OBVIOUS
<1>1. /\ built \in Drivers /\ current_driver \in {built, NoDriver} /\ device_open = FALSE
      /\ g_input_open = FALSE
  BY DEF SoundInit
<1>2. PICK duplex \in BOOLEAN : dev = Closed(duplex)
  BY DEF SoundInit
<1>3. DevTypes(dev) /\ dev.fd = FALSE /\ dev.refs = 0 /\ dev.out = FALSE /\ dev.in = FALSE
  <2>1. /\ DOMAIN dev = DevFields /\ dev.fd = FALSE /\ dev.refs = 0 /\ dev.out = FALSE
        /\ dev.in = FALSE /\ dev.mode = "w" /\ dev.faults = 0
    BY <1>2 DEF Closed, DevFields
  <2>2. dev.faults \in 0 .. MaxFaults /\ dev.refs \in Int
    BY <2>1, SoundConstants
  <2>3. dev.fd \in BOOLEAN /\ dev.out \in BOOLEAN /\ dev.in \in BOOLEAN
    BY <2>1, Zenon
  <2> QED BY <2>1, <2>2, <2>3 DEF DevTypes
<1>4. Users = {}
  BY <1>1 DEF Users
<1>5. DevGood(dev, {})
  BY <1>1, <1>3 DEF DevGood, Drivers, OssGood, OssShares, SunGood, SunShares, AlsaGood, AlsaShares,
       OutGood
<1> QED BY <1>1, <1>4, <1>5, Zenon DEF DeviceInv

(* Every step keeps the device and its users together. *)
LEMMA DeviceStep == DeviceInv /\ [SoundNext]_sndVars => DeviceInv'
<1> SUFFICES ASSUME DeviceInv, [SoundNext]_sndVars PROVE DeviceInv'
  OBVIOUS
<1>1. DevGood(dev, Users)
  BY DEF DeviceInv
<1>2. CASE ProcessClose
  <2>1. device_open /\ CloseOn(dev) /\ UNCHANGED <<chanVars, inputVars>>
    BY <1>2 DEF ProcessClose
  <2>2. Users \cup {"out"} = Users
    BY <2>1 DEF Users
  <2>3. DevGood(dev, Users)' /\ device_open' = FALSE
    BY <1>1, <2>1, <2>2, CloseFollows, Zenon DEF chanVars, inputVars
  <2> QED BY <2>1, <2>3, Zenon DEF DeviceInv, chanVars, inputVars
<1>3. CASE PlayPart \/ PlayLast \/ PlayMany
  <2>1. dev' = dev /\ UNCHANGED <<chanVars, device_open, inputVars>>
    BY <1>3 DEF PlayPart, PlayLast, PlayMany, Playing
  <2> QED BY <1>1, <2>1, DeviceRests
<1>4. CASE PlayGiveUp \/ OssRecordFails
  <2>1. /\ dev.faults < MaxFaults /\ dev' = [dev EXCEPT !.faults = @ + 1]
        /\ UNCHANGED <<chanVars, device_open, inputVars>>
    BY <1>4 DEF PlayGiveUp, OssRecordFails, Playing
  <2> QED BY <1>1, <2>1, FaultGood, DeviceRests
<1>5. CASE OssCheckClosed \/ CheckPending \/ SoundTick \/ SoundLinkLost \/ SoundConnected
           \/ UNCHANGED sndVars
  <2>1. dev' = dev /\ UNCHANGED <<chanVars, device_open, inputVars>>
    BY <1>5 DEF OssCheckClosed, CheckPending, SoundTick, SoundLinkLost, SoundConnected, sndVars,
         devVars, chanVars, inputVars
  <2> QED BY <1>1, <2>1, DeviceRests
<1>6. CASE SoundResetState
  <2>1. /\ dev' \in Closings(dev) /\ built' = built /\ current_driver' = current_driver
        /\ device_open' = FALSE /\ g_input_open' = FALSE
    BY <1>6 DEF SoundResetState, ResetSound
  <2>2. DevGood(dev', {})
    BY <2>1, ClosingsAre
  <2>3. Users' = {}
    BY <2>1 DEF Users
  <2>4. DevGood(dev, Users)'
    BY <2>1, <2>2, <2>3, DeviceMoves
  <2> QED BY <2>1, <2>4, Zenon DEF DeviceInv
<1> QED BY <1>2, <1>3, <1>4, <1>5, <1>6, NegotiateFollows, FormatsFollow, WaveFollows, InputFollows
     DEF SoundNext

(* A packet that has been played, in part or whole, is a packet. *)
LEMMA PacketsAre ==
    /\ NoPacket \in Packets
    /\ \A w \in 1 .. MaxWaves : [id |-> w, left |-> 2, due |-> 0] \in Packets
    /\ \A p \in Packets : \A t \in 0 .. 1 : [p EXCEPT !.due = t] \in Packets
    /\ \A p \in Packets : [p EXCEPT !.due = 0] \in Packets
    /\ \A p \in Packets : p.left > 1 => [p EXCEPT !.left = @ - 1] \in Packets
<1>1. NoPacket \in Packets
  BY SoundConstants DEF NoPacket, Packets
<1>2. ASSUME NEW w \in 1 .. MaxWaves PROVE [id |-> w, left |-> 2, due |-> 0] \in Packets
  BY SoundConstants DEF Packets
<1>3. ASSUME NEW p \in Packets, NEW t \in 0 .. 1 PROVE [p EXCEPT !.due = t] \in Packets
  BY DEF Packets
<1>4. ASSUME NEW p \in Packets, p.left > 1 PROVE [p EXCEPT !.left = @ - 1] \in Packets
  BY <1>4 DEF Packets
<1>5. 0 \in 0 .. 1
  OBVIOUS
<1> QED BY <1>1, <1>2, <1>3, <1>4, <1>5, Zenon

(* What completes is freed. *)
LEMMA CompleteTyped ==
    ASSUME NEW q, QueueGood(q), SlotsGood(q)
    PROVE  SlotsGood(CompletePending(q))
<1> DEFINE r == CompletePending(q)
           n == Completable(q)
           f == [i \in Slots |-> IF Distance(q.pending, i) < n THEN NoPacket ELSE q.slots[i]]
<1>1. r.slots = f
  BY DEF CompletePending, QueueGood, QueueFields
<1> HIDE DEF n
<1>2. f \in [Slots -> Packets]
  BY PacketsAre DEF SlotsGood
<1> QED BY <1>1, <1>2 DEF SlotsGood

(* The packet that is played is not freed. *)
LEMMA FrontStays ==
    ASSUME NEW q, QueueGood(q)
    PROVE  CompletePending(q).slots[q.lo] = q.slots[q.lo]
<1> DEFINE n == Completable(q)
           f == [i \in Slots |-> IF Distance(q.pending, i) < n THEN NoPacket ELSE q.slots[i]]
<1>1. CompletePending(q).slots = f
  BY DEF CompletePending, QueueGood, QueueFields
<1>2. n \in 0 .. Distance(q.pending, q.lo) /\ Distance(q.pending, q.lo) \in 0 .. MAX_QUEUE - 1
      /\ q.lo \in Slots /\ MAX_QUEUE \in Nat
  BY CompletableIs, DistanceIs, SoundConstants DEF QueueGood
<1> HIDE DEF n
<1>3. ~(Distance(q.pending, q.lo) < n)
  BY <1>2
<1> QED BY <1>1, <1>2, <1>3

(* Completing one packet keeps the packets packets. *)
LEMMA QueueNextTyped ==
    ASSUME NEW q, QueueGood(q), SlotsGood(q), q.lo # q.hi, NEW due \in 0 .. 1
    PROVE  SlotsGood(QueueNext(q, due))
<1> DEFINE r == Played(q, due)
<1>1. QueueNext(q, due) = CompletePending(r)
  BY DEF QueueNext, Played
<1>2. QueueGood(r)
  <2>1. due \in Nat
    OBVIOUS
  <2> QED BY <2>1, PlayedTouches, TouchedIs
<1>3. r.slots = [q.slots EXCEPT ![q.lo].due = due]
  BY DEF Played, QueueGood, QueueFields
<1> HIDE DEF r
<1>4. SlotsGood(r)
  <2>1. q.slots[q.lo] \in Packets /\ q.lo \in Slots
    BY DEF SlotsGood, QueueGood
  <2>2. [q.slots[q.lo] EXCEPT !.due = due] \in Packets
    BY <2>1, PacketsAre, Zenon
  <2>3. r.slots = [q.slots EXCEPT ![q.lo] = [q.slots[q.lo] EXCEPT !.due = due]]
    BY <1>3
  <2> QED BY <2>1, <2>2, <2>3 DEF SlotsGood
<1> QED BY <1>1, <1>2, <1>4, CompleteTyped

(* Confirming everything keeps the packets packets. *)
LEMMA AckAllTyped ==
    ASSUME NEW q, QueueGood(q), SlotsGood(q)
    PROVE  SlotsGood(AckAll(q))
<1> DEFINE left == {(q.lo + k) % MAX_QUEUE : k \in 0 .. Distance(q.lo, q.hi) - 1}
           f == [i \in Slots |-> IF i \in left THEN [q.slots[i] EXCEPT !.due = 0] ELSE q.slots[i]]
           r == AllPlayed(q)
<1>1. AckAll(q) = CompletePending(r)
  BY DEF AckAll, AllPlayed
<1>2. QueueGood(r)
  BY AllPlayedTouches, TouchedIs
<1>3. r.slots = f
  BY DEF AllPlayed, QueueGood, QueueFields
<1> HIDE DEF r
<1>4. SlotsGood(r)
  <2> HIDE DEF left
  <2>1. ASSUME NEW i \in Slots PROVE f[i] \in Packets
    <3>1. q.slots[i] \in Packets
      BY DEF SlotsGood
    <3>2. [q.slots[i] EXCEPT !.due = 0] \in Packets
      BY <3>1, PacketsAre
    <3> QED BY <3>1, <3>2
  <2>2. f \in [Slots -> Packets]
    BY <2>1
  <2> QED BY <1>3, <2>2 DEF SlotsGood
<1> QED BY <1>1, <1>2, <1>4, CompleteTyped

(* A wave taken is a packet. *)
LEMMA QueueWriteTyped ==
    ASSUME NEW q, QueueGood(q), SlotsGood(q), NEW w \in 1 .. MaxWaves
    PROVE  SlotsGood(QueueWrite(q, w))
<1> DEFINE new == [id |-> w, left |-> 2, due |-> 0]
           r == QueueWrite(q, w)
<1>1. CASE Succ(q.hi) = q.pending
  BY <1>1 DEF QueueWrite
<1>2. CASE Succ(q.hi) # q.pending
  <2>1. r.slots = [q.slots EXCEPT ![q.hi] = new]
    BY <1>2 DEF QueueWrite, QueueGood, QueueFields
  <2>2. new \in Packets
    BY PacketsAre
  <2> HIDE DEF new
  <2> QED BY <2>1, <2>2, Zenon DEF SlotsGood
<1> QED BY <1>1, <1>2

(* What a step does to the queue and to the device's users. *)
LEMMA SlotsStep ==
    ASSUME SndInv, DeviceInv, SndQueueInv, [SoundNext]_sndVars
    PROVE  SndQueueInv'
<1>1. QueueGood(queue) /\ SlotsGood(queue) /\ (~device_open => queue.lo = queue.hi)
      /\ nWaves \in Nat /\ current_format \in SndFormats \cup {NoFormat}
      /\ sndLink \in {"up", "down", "reset"}
  BY DEF SndInv, SndQueueInv
<1>2. SlotsGood(AckAll(queue)) /\ AckAll(queue).lo = AckAll(queue).hi
  BY <1>1, AckAllIs, AckAllTyped
<1>3. SlotsGood(EmptyQueue) /\ EmptyQueue.lo = EmptyQueue.hi
  <2>1. NoPacket \in Packets
    BY PacketsAre
  <2>2. EmptyQueue.slots = [i \in Slots |-> NoPacket] /\ EmptyQueue.lo = EmptyQueue.hi
    BY DEF EmptyQueue
  <2> QED BY <2>1, <2>2 DEF SlotsGood
<1>4. ASSUME SlotsGood(queue'), device_open' \/ queue'.lo = queue'.hi,
             UNCHANGED current_format \/ current_format' \in SndFormats,
             UNCHANGED sndLink \/ sndLink' \in {"up", "down", "reset"}
      PROVE  SndQueueInv'
  <2>1. SlotsGood(queue)' = SlotsGood(queue')
    BY DEF SlotsGood, Packets
  <2> QED BY <1>1, <1>4, <2>1 DEF SndQueueInv
<1>5. ASSUME UNCHANGED <<queue, device_open, current_format>>,
             UNCHANGED sndLink \/ sndLink' \in {"up", "down", "reset"}
      PROVE  SndQueueInv'
  BY <1>1, <1>5 DEF SndQueueInv, SlotsGood, Packets
<1>6. CASE ProcessNegotiate
  <2>1. \/ queue' = EmptyQueue /\ UNCHANGED <<current_format, sndLink>>
        \/ UNCHANGED <<queue, device_open, current_format, sndLink>>
    BY <1>6 DEF ProcessNegotiate, ResetSound, linkVars
  <2> QED BY <1>3, <1>4, <1>5, <2>1
<1>7. ASSUME NEW d, CloseOn(d), UNCHANGED linkVars PROVE SndQueueInv'
  <2>1. queue' = AckAll(queue) /\ UNCHANGED <<current_format, sndLink>>
    BY <1>7 DEF CloseOn, Confirming, linkVars
  <2> QED BY <1>2, <1>4, <2>1
<1>8. ASSUME NEW f \in SndFormats, ProcessWave(f) PROVE SndQueueInv'
  <2>1. UNCHANGED linkVars /\ nWaves' \in 1 .. MaxWaves
    BY <1>1, <1>8, SoundConstants DEF ProcessWave
  <2>2. ASSUME NEW d, Take(nWaves', d, f) PROVE SndQueueInv'
    <3>1. queue' = QueueWrite(queue, nWaves') /\ device_open' = TRUE /\ current_format' = f
          /\ sndLink' = sndLink
      BY <2>1, <2>2 DEF Take, linkVars
    <3>2. SlotsGood(queue')
      BY <1>1, <2>1, <3>1, QueueWriteTyped
    <3> QED BY <1>4, <3>1, <3>2
  <2>3. ASSUME NEW d, Refuse(d) PROVE SndQueueInv'
    BY <1>5, <2>1, <2>3 DEF Refuse, linkVars
  <2>4. \/ \E d : Take(nWaves', d, f) \/ Refuse(d) \/ CloseOn(d)
        \/ UNCHANGED <<queue, device_open, current_format>>
    BY <1>8 DEF ProcessWave
  <2> QED BY <1>5, <1>7, <2>1, <2>2, <2>3, <2>4 DEF linkVars
<1>9. CASE ProcessClose
  BY <1>7, <1>9 DEF ProcessClose
<1>10. CASE \/ InputProcessFormats \/ (\E f \in SndFormats : InputSetFormat(f)) \/ OssCheckClosed
            \/ SoundLinkLost \/ SoundConnected \/ UNCHANGED sndVars
  BY <1>5, <1>10 DEF InputProcessFormats, InputSetFormat, OssCheckClosed, SoundLinkLost,
     SoundConnected, sndVars, linkVars
<1>11. CASE PlayPart \/ PlayLast \/ PlayGiveUp \/ PlayMany
  <2>1. device_open /\ queue.lo # queue.hi /\ UNCHANGED <<device_open, current_format, linkVars>>
    BY <1>11 DEF PlayPart, PlayLast, PlayGiveUp, PlayMany, Playing, QueueEmpty
  <2>2. SlotsGood(queue')
    <3>1. CASE PlayPart
      <4> DEFINE r == CompletePending(queue)
      <4>1. QueueGood(r) /\ SlotsGood(r) /\ queue.slots[queue.lo].left > 1
        BY <1>1, <3>1, CompleteIs, CompleteTyped DEF PlayPart
      <4>2. queue' = [r EXCEPT !.slots[queue.lo].left = @ - 1]
        BY <3>1 DEF PlayPart, Confirming
      <4>3. queue'.slots = [r.slots EXCEPT ![queue.lo].left = @ - 1]
        BY <4>1, <4>2 DEF QueueGood, QueueFields
      <4>4. r.slots[queue.lo] = queue.slots[queue.lo]
        BY <1>1, FrontStays
      <4> HIDE DEF r
      <4>5. r.slots[queue.lo] \in Packets /\ queue.lo \in Slots
        BY <1>1, <4>1 DEF SlotsGood, QueueGood
      <4>6. [r.slots[queue.lo] EXCEPT !.left = @ - 1] \in Packets
        BY <4>1, <4>4, <4>5, PacketsAre
      <4>7. queue'.slots = [r.slots EXCEPT ![queue.lo] = [r.slots[queue.lo] EXCEPT !.left = @ - 1]]
        BY <4>3
      <4> QED BY <4>1, <4>5, <4>6, <4>7 DEF SlotsGood
    <3>2. CASE PlayLast \/ PlayGiveUp
      <4>1. PICK due \in 0 .. 1 : queue' = QueueNext(queue, due)
        BY <3>2 DEF PlayLast, PlayGiveUp, Confirming
      <4> QED BY <1>1, <2>1, <4>1, QueueNextTyped
    <3>3. CASE PlayMany
      <4> DEFINE r == QueueNext(queue, 0)
      <4>1. queue' = QueueNext(r, 0) /\ Distance(queue.lo, queue.hi) > 1
        BY <3>3 DEF PlayMany, Confirming
      <4>2. QueueGood(r) /\ r.hi = queue.hi /\ r.lo = Succ(queue.lo)
        BY <1>1, <2>1, QueueNextIs
      <4>3. SlotsGood(r)
        BY <1>1, <2>1, QueueNextTyped
      <4>4. r.lo # r.hi
        BY <1>1, <4>1, <4>2, SuccIs DEF QueueGood
      <4> HIDE DEF r
      <4> QED BY <4>1, <4>2, <4>3, <4>4, QueueNextTyped
    <3> QED BY <1>11, <3>1, <3>2, <3>3
  <2> QED BY <1>4, <2>1, <2>2 DEF linkVars
<1>12. CASE OssRecordFails
  <2>1. device_open /\ UNCHANGED <<device_open, current_format, linkVars>>
    BY <1>12 DEF OssRecordFails
  <2>2. CASE QueueEmpty(queue)
    BY <1>5, <1>12, <2>1, <2>2 DEF OssRecordFails, linkVars
  <2>3. CASE ~QueueEmpty(queue)
    <3>1. queue' = QueueNext(queue, 0) /\ queue.lo # queue.hi
      BY <1>12, <2>3 DEF OssRecordFails, Confirming, QueueEmpty
    <3>2. SlotsGood(queue')
      BY <1>1, <3>1, QueueNextTyped
    <3> QED BY <1>4, <2>1, <3>2 DEF linkVars
  <2> QED BY <2>2, <2>3
<1>13. CASE CheckPending
  <2>1. queue' = CompletePending(queue) /\ UNCHANGED <<device_open, current_format, linkVars>>
    BY <1>13 DEF CheckPending, Confirming
  <2>2. SlotsGood(queue') /\ queue'.lo = queue.lo /\ queue'.hi = queue.hi
    BY <1>1, <2>1, CompleteIs, CompleteTyped
  <2> QED BY <1>1, <1>4, <2>1, <2>2 DEF linkVars
<1>14. CASE SoundTick
  <2> DEFINE f == [i \in Slots |-> [queue.slots[i] EXCEPT !.due = 0]]
  <2>1. queue' = [queue EXCEPT !.slots = f] /\ UNCHANGED <<device_open, current_format, linkVars>>
    BY <1>14 DEF SoundTick
  <2>2. queue'.slots = f /\ queue'.lo = queue.lo /\ queue'.hi = queue.hi
    BY <1>1, <2>1 DEF QueueGood, QueueFields
  <2>3. SlotsGood(queue')
    <3>1. ASSUME NEW i \in Slots PROVE f[i] \in Packets
      <4>1. queue.slots[i] \in Packets
        BY <1>1 DEF SlotsGood
      <4> QED BY <4>1, PacketsAre
    <3>2. f \in [Slots -> Packets]
      BY <3>1
    <3> QED BY <2>2, <3>2 DEF SlotsGood
  <2> QED BY <1>1, <1>4, <2>1, <2>2, <2>3 DEF linkVars
<1>15. CASE SoundResetState
  <2>1. queue' = EmptyQueue /\ UNCHANGED current_format /\ sndLink' = "reset"
    BY <1>15 DEF SoundResetState, ResetSound
  <2> QED BY <1>3, <1>4, <2>1
<1> QED BY <1>6, <1>8, <1>9, <1>10, <1>11, <1>12, <1>13, <1>14, <1>15 DEF SoundNext

(* The number of directions that are open. *)
LEMMA UsersCounted ==
    Cardinality(Users) = (IF "out" \in Users THEN 1 ELSE 0) + (IF "in" \in Users THEN 1 ELSE 0)
<1>1. /\ Cardinality({}) = 0 /\ Cardinality({"out"}) = 1 /\ Cardinality({"in"}) = 1
      /\ IsFiniteSet({"out"})
  BY FS_EmptySet, FS_Singleton, Zenon
<1>2. Cardinality({"out"} \cup {"in"}) = 2
  BY <1>1, FS_AddElement
<1>3. Users = (IF "out" \in Users THEN {"out"} ELSE {}) \cup (IF "in" \in Users THEN {"in"} ELSE {})
  BY DEF Users
<1>4. {} \cup {} = {} /\ {"out"} \cup {} = {"out"} /\ {} \cup {"in"} = {"in"}
  OBVIOUS
<1> HIDE DEF Users
<1> QED BY <1>1, <1>2, <1>3, <1>4

(* The invariants give the properties. *)
LEMMA SndGives ==
    SndInv /\ DeviceInv /\ SndQueueInv => SoundTypeOK /\ NoOrphanedWaves /\ DirectionsShareDevice
<1> SUFFICES ASSUME SndInv, DeviceInv, SndQueueInv
             PROVE  SoundTypeOK /\ NoOrphanedWaves /\ DirectionsShareDevice
  OBVIOUS
<1>1. /\ built \in Drivers /\ current_driver \in {built, NoDriver}
      /\ device_open \in BOOLEAN /\ g_input_open \in BOOLEAN /\ DevGood(dev, Users)
      /\ g_input_open => built \in Recorders
  BY DEF DeviceInv
<1>2. DevTypes(dev)
  BY <1>1 DEF DevGood, OssGood, SunGood, AlsaGood, OutGood
<1>3. SoundTypeOK
  <2>1. queue.slots \in [Slots -> [id : 0 .. MaxWaves, left : 0 .. 2, due : 0 .. 1]]
    BY DEF SndQueueInv, SlotsGood, Packets
  <2>2. queue.hi \in Slots /\ queue.lo \in Slots /\ queue.pending \in Slots
    BY DEF SndInv, QueueGood
  <2>3. /\ dev.mode \in {"r", "w", "rw"} /\ dev.refs \in Int /\ dev.faults \in 0 .. MaxFaults
    BY <1>2 DEF DevTypes
  <2> QED BY <1>1, <2>1, <2>2, <2>3 DEF SoundTypeOK, SndQueueInv
<1>4. NoOrphanedWaves
  BY DEF SndQueueInv, NoOrphanedWaves, QueueEmpty
<1>5. ASSUME dev.faults = 0
      PROVE  /\ device_open => CanPlay(dev)
             /\ g_input_open => IF built = "alsa" THEN dev.in
                                ELSE dev.fd /\ dev.mode \in {"r", "rw"}
             /\ built = "sun" => dev.refs = Cardinality(Users)
  <2>1. /\ "out" \in Users <=> device_open
        /\ "in" \in Users <=> g_input_open
    BY DEF Users
  <2>2. CASE built = "oss"
    <3>1. OssShares(dev, Users)
      BY <1>1, <1>5, <2>2 DEF DevGood, OssGood
    <3>2. CanPlay(dev) = OssWatches(dev)
      BY <2>2 DEF CanPlay
    <3> QED BY <2>1, <2>2, <3>1, <3>2, Zenon DEF OssShares, OssWatches
  <2>3. CASE built = "sun"
    <3>1. SunShares(dev, Users)
      BY <1>1, <1>5, <2>3 DEF DevGood, SunGood
    <3>2. CanPlay(dev) = SunWatches(dev)
      BY <2>3 DEF CanPlay
    <3>3. Cardinality(Users) = (IF "out" \in Users THEN 1 ELSE 0) + (IF "in" \in Users THEN 1 ELSE 0)
      BY UsersCounted
    <3> QED BY <2>1, <2>3, <3>1, <3>2, <3>3, Zenon DEF SunShares, SunWatches
  <2>4. CASE built = "alsa"
    <3>1. AlsaShares(dev, Users)
      BY <1>1, <1>5, <2>4 DEF DevGood, AlsaGood
    <3>2. CanPlay(dev) = AlsaWatches(dev)
      BY <2>4 DEF CanPlay
    <3> QED BY <2>1, <2>4, <3>1, <3>2 DEF AlsaShares, AlsaWatches
  <2>5. CASE built \in {"sgi", "libao"}
    <3>1. dev.out = TRUE <=> "out" \in Users
      BY <1>1, <1>5, <2>5 DEF DevGood, OutGood
    <3>2. CanPlay(dev) = dev.out
      BY <2>5 DEF CanPlay
    <3>3. ~g_input_open
      BY <1>1, <2>5 DEF Recorders
    <3> QED BY <2>1, <2>5, <3>1, <3>2, <3>3
  <2> QED BY <1>1, <2>2, <2>3, <2>4, <2>5 DEF Drivers
<1>6. DirectionsShareDevice
  BY <1>5 DEF DirectionsShareDevice, Users
<1> QED BY <1>3, <1>4, <1>6

(* At the beginning the queue holds no packets. *)
LEMMA QueueInitInv == SoundInit => SndQueueInv
<1> SUFFICES ASSUME SoundInit PROVE SndQueueInv
  OBVIOUS
<1>1. NoPacket \in Packets
  BY PacketsAre
<1>2. EmptyQueue.slots = [i \in Slots |-> NoPacket] /\ EmptyQueue.lo = EmptyQueue.hi
  BY DEF EmptyQueue
<1>3. queue = EmptyQueue /\ current_format = NoFormat /\ sndLink = "up"
  BY DEF SoundInit
<1> QED BY <1>1, <1>2, <1>3 DEF SndQueueInv, SlotsGood

-----------------------------------------------------------------------------
(* The streams of rdpsnd_pulse.c *)

PaFields == {"context", "ctl", "pipe", "stream", "started", "faults"}
PaMessages == {"avail", "error"} \X PaStreams
PaStates == {"null", "failed", "corked", "running"}

PaTypes(p) ==
    /\ DOMAIN p = PaFields /\ p.context \in BOOLEAN /\ p.ctl \in {"none", "pipe", "closed"}
    /\ p.pipe \in Seq(PaMessages) /\ p.stream \in [PaStreams -> PaStates]
    /\ p.started \in [PaStreams -> BOOLEAN] /\ p.faults \in 0 .. MaxPaFaults
    /\ p.context = FALSE => p.pipe = << >> /\ p.stream = [s \in PaStreams |-> "null"]

(* A report that stream s failed is on its way. *)
PaTold(p, s) == <<"error", s>> \in Range(p.pipe)

(* Stream s does what is asked of it, or a report of it is on the way. *)
PaFollows(p, s) ==
    \/ p.stream[s] = "null" \/ PaTold(p, s)
    \/ /\ p.stream[s] # "failed" /\ (p.started[s] = TRUE => p.stream[s] = "running")
       /\ s = "play" /\ p.started[s] = FALSE => p.stream[s] = "corked"

(* p is a state of the driver that is started as in a, and all but X follow. *)
PaGood(p, a, X) ==
    PaTypes(p) /\ p.started = a /\ \A s \in PaStreams \ X : PaFollows(p, s)

(* A message joins the others. *)
LEMMA TellIs ==
    ASSUME NEW p, PaTypes(p), p.context = TRUE, NEW s \in PaStreams, NEW kind \in {"avail", "error"}
    PROVE  /\ PaTypes(PaSendMsg(p, <<kind, s>>))
           /\ PaSendMsg(p, <<kind, s>>).started = p.started
           /\ PaSendMsg(p, <<kind, s>>).stream = p.stream
           /\ PaSendMsg(p, <<kind, s>>).context = p.context
           /\ kind = "error" => PaTold(PaSendMsg(p, <<kind, s>>), s)
           /\ \A x \in PaStreams : PaTold(p, x) => PaTold(PaSendMsg(p, <<kind, s>>), x)
<1> DEFINE m == <<kind, s>>
           t == PaSendMsg(p, m)
<1>1. m \in PaMessages /\ p.pipe \in Seq(PaMessages)
  BY DEF PaMessages, PaTypes
<1>2. /\ DOMAIN t = PaFields /\ t.context = p.context /\ t.ctl = p.ctl /\ t.stream = p.stream
      /\ t.started = p.started /\ t.faults = p.faults /\ t.pipe = Append(p.pipe, m)
  BY DEF PaTypes, PaFields, PaSendMsg
<1> HIDE DEF t
<1>3. m \in Range(Append(p.pipe, m)) /\ Range(p.pipe) \subseteq Range(Append(p.pipe, m))
  <2> HIDE DEF m
  <2>1. /\ Append(p.pipe, m) \in Seq(PaMessages) /\ Len(Append(p.pipe, m)) = Len(p.pipe) + 1
        /\ Append(p.pipe, m)[Len(p.pipe) + 1] = m /\ Len(p.pipe) \in Nat
        /\ \A i \in 1 .. Len(p.pipe) : Append(p.pipe, m)[i] = p.pipe[i]
    BY <1>1
  <2>2. DOMAIN Append(p.pipe, m) = 1 .. Len(p.pipe) + 1 /\ DOMAIN p.pipe = 1 .. Len(p.pipe)
    BY <1>1, <2>1
  <2> QED BY <2>1, <2>2 DEF Range
<1>4. PaTypes(t)
  <2>1. t.pipe \in Seq(PaMessages)
    BY <1>1, <1>2
  <2> QED BY <1>2, <2>1 DEF PaTypes
<1>5. kind = "error" => PaTold(t, s)
  BY <1>2, <1>3 DEF PaTold
<1>6. \A x \in PaStreams : PaTold(p, x) => PaTold(t, x)
  BY <1>2, <1>3 DEF PaTold
<1> QED BY <1>2, <1>4, <1>5, <1>6 DEF t

(* All streams but s follow, and the driver has its context. *)
PaBut(p, a, s) == PaGood(p, a, {s}) /\ p.context = TRUE
(* All streams follow. *)
PaAll(p, a) == PaGood(p, a, {})
PaReady(p, a) == PaAll(p, a) /\ p.context = TRUE

(* What a state without or with one stream in question says of the other. *)
LEMMA ButIs ==
    ASSUME NEW p, NEW a, NEW s \in PaStreams
    PROVE  /\ PaAll(p, a) => PaGood(p, a, {s})
           /\ PaGood(p, a, {s}) /\ PaFollows(p, s) => PaAll(p, a)
           /\ PaReady(p, a) => PaBut(p, a, s)
           /\ PaBut(p, a, s) => PaTypes(p) /\ p.started = a
           /\ PaAll(p, a) => PaTypes(p) /\ p.started = a
BY DEF PaBut, PaAll, PaReady, PaGood

(* A report that s failed settles s. *)
LEMMA TellSettles ==
    ASSUME NEW p, NEW a, NEW s \in PaStreams, PaBut(p, a, s)
    PROVE  PaReady(PaSendMsg(p, <<"error", s>>), a)
<1> DEFINE t == PaSendMsg(p, <<"error", s>>)
<1>1. PaTypes(p) /\ p.context = TRUE /\ p.started = a /\ \A x \in PaStreams \ {s} : PaFollows(p, x)
  BY DEF PaBut, PaGood
<1>2. /\ PaTypes(t) /\ t.started = p.started /\ t.stream = p.stream /\ t.context = p.context
      /\ PaTold(t, s) /\ \A x \in PaStreams : PaTold(p, x) => PaTold(t, x)
  BY <1>1, TellIs, Zenon
<1> HIDE DEF t
<1>3. ASSUME NEW x \in PaStreams PROVE PaFollows(t, x)
  BY <1>1, <1>2 DEF PaFollows
<1> QED BY <1>1, <1>2, <1>3 DEF PaReady, PaAll, PaGood, t

(* A failing operation counts. *)
LEMMA FaultIs ==
    ASSUME NEW p, PaTypes(p), NEW f \in PaFault(p)
    PROVE  /\ PaTypes(f) /\ f.started = p.started /\ f.stream = p.stream
           /\ f.context = p.context /\ f.pipe = p.pipe
<1>1. p.faults < MaxPaFaults /\ f = [p EXCEPT !.faults = @ + 1] /\ MaxPaFaults \in Nat
  BY PulseConstants DEF PaFault
<1>2. /\ DOMAIN f = PaFields /\ f.context = p.context /\ f.ctl = p.ctl /\ f.stream = p.stream
      /\ f.started = p.started /\ f.faults = p.faults + 1 /\ f.pipe = p.pipe
  BY <1>1 DEF PaTypes, PaFields
<1>3. p.faults \in 0 .. MaxPaFaults
  BY DEF PaTypes
<1>4. f.faults \in 0 .. MaxPaFaults
  BY <1>1, <1>2, <1>3
<1> QED BY <1>2, <1>4 DEF PaTypes

(* A failing operation leaves the streams as they follow. *)
LEMMA FaultKeeps ==
    ASSUME NEW p, NEW a, NEW X, PaGood(p, a, X), NEW f \in PaFault(p)
    PROVE  PaGood(f, a, X) /\ f.context = p.context /\ f.stream = p.stream
<1>1. PaTypes(p) /\ p.started = a /\ \A x \in PaStreams \ X : PaFollows(p, x)
  BY DEF PaGood
<1>2. /\ PaTypes(f) /\ f.started = p.started /\ f.stream = p.stream
      /\ f.context = p.context /\ f.pipe = p.pipe
  BY <1>1, FaultIs
<1>3. ASSUME NEW x \in PaStreams \ X PROVE PaFollows(f, x)
  BY <1>1, <1>2 DEF PaFollows, PaTold
<1> QED BY <1>1, <1>2, <1>3 DEF PaGood

(* A stream changes. *)
LEMMA StreamIs ==
    ASSUME NEW p, NEW a, NEW s \in PaStreams, PaBut(p, a, s), NEW state \in PaStates
    PROVE  /\ PaBut([p EXCEPT !.stream[s] = state], a, s)
           /\ [p EXCEPT !.stream[s] = state].stream[s] = state
<1> DEFINE t == [p EXCEPT !.stream[s] = state]
<1>1. PaTypes(p) /\ p.context = TRUE /\ p.started = a /\ \A x \in PaStreams \ {s} : PaFollows(p, x)
  BY DEF PaBut, PaGood
<1>2. DOMAIN p = PaFields /\ p.stream \in [PaStreams -> PaStates]
  BY <1>1 DEF PaTypes
<1>3. /\ DOMAIN t = PaFields /\ t.context = p.context /\ t.ctl = p.ctl /\ t.pipe = p.pipe
      /\ t.started = p.started /\ t.faults = p.faults /\ t.stream = [p.stream EXCEPT ![s] = state]
  BY <1>2 DEF PaFields
<1> HIDE DEF t
<1>4. /\ t.stream \in [PaStreams -> PaStates] /\ t.stream[s] = state
      /\ \A x \in PaStreams \ {s} : t.stream[x] = p.stream[x]
  BY <1>2, <1>3
<1>5. PaTypes(t)
  BY <1>1, <1>3, <1>4 DEF PaTypes
<1>6. ASSUME NEW x \in PaStreams \ {s} PROVE PaFollows(t, x)
  BY <1>1, <1>3, <1>4 DEF PaFollows, PaTold
<1>7. PaBut(t, a, s)
  BY <1>1, <1>3, <1>5, <1>6 DEF PaBut, PaGood
<1> QED BY <1>4, <1>7 DEF t

(* A stream that is as it should be settles s. *)
LEMMA StreamSettles ==
    ASSUME NEW p, NEW a, NEW s \in PaStreams, PaBut(p, a, s),
           \/ p.stream[s] = "null"
           \/ p.stream[s] = "running" /\ a[s] = TRUE
           \/ p.stream[s] = "corked" /\ a[s] = FALSE
           \/ p.stream[s] = "running" /\ s = "capture"
    PROVE  PaReady(p, a)
<1>1. p.started = a /\ PaGood(p, a, {s}) /\ p.context = TRUE
  BY DEF PaBut, PaGood
<1>2. PaFollows(p, s)
  BY <1>1 DEF PaFollows
<1> QED BY <1>1, <1>2, ButIs, Zenon DEF PaReady

(* A stream that fails is reported. *)
LEMMA StateCbIs ==
    ASSUME NEW p, NEW a, NEW s \in PaStreams, PaBut(p, a, s)
    PROVE  PaReady(StateCb(p, s), a)
<1>1. PaBut([p EXCEPT !.stream[s] = "failed"], a, s)
  BY StreamIs, Zenon DEF PaStates
<1> QED BY <1>1, TellSettles DEF StateCb

(* A stream that cannot be corked or flushed is reported. *)
LEMMA CorkFailsIs ==
    ASSUME NEW p, NEW a, NEW s \in PaStreams, PaBut(p, a, s)
    PROVE  PaReady(CorkFails(p, s), a) /\ (s = "play" => PaReady(FlushFails(p), a))
BY TellSettles DEF CorkFails, FlushFails

(* What the results of an operation are made of. *)
LEMMA PaOkIs ==
    ASSUME NEW p
    PROVE  /\ \A r \in PaOk(p) : r.ok = TRUE /\ r.p = p
           /\ \A r \in PaNo(p) : r.ok = FALSE /\ r.p = p
BY DEF PaOk, PaNo

PaOpened(r, s, state) == r.ok = TRUE => r.p.stream[s] = state

(* A stream is opened: whatever comes of it, the other stream is as it was. *)
LEMMA StreamOpenIs ==
    ASSUME NEW p, NEW a, NEW s \in PaStreams, PaBut(p, a, s), NEW state \in PaStates,
           NEW r \in PaStreamOpen(p, s, state)
    PROVE  PaBut(r.p, a, s) /\ r.ok \in BOOLEAN /\ PaOpened(r, s, state)
<1> DEFINE t == [p EXCEPT !.stream[s] = state]
           n(f) == [f EXCEPT !.stream[s] = "null"]
<1>1. \/ r \in PaOk(t)
      \/ \E f \in PaFault(p) : r \in PaNo(n(f)) \/ r \in PaNo(StateCb(f, s))
  BY Zenon DEF PaStreamOpen
<1>2. CASE r \in PaOk(t)
  <2>1. r.ok = TRUE /\ r.p = t
    BY <1>2, PaOkIs, Zenon
  <2>2. PaBut(t, a, s) /\ t.stream[s] = state
    BY StreamIs
  <2> QED BY <2>1, <2>2, Zenon DEF PaOpened
<1>3. CASE \E f \in PaFault(p) : r \in PaNo(n(f)) \/ r \in PaNo(StateCb(f, s))
  <2>1. PICK f \in PaFault(p) : r \in PaNo(n(f)) \/ r \in PaNo(StateCb(f, s))
    BY <1>3, Zenon
  <2>2. PaBut(f, a, s)
    BY <2>1, FaultKeeps DEF PaBut
  <2>3. PaBut(n(f), a, s)
    BY <2>2, StreamIs, Zenon DEF PaStates
  <2>4. PaBut(StateCb(f, s), a, s)
    BY <2>2, StateCbIs, ButIs, Zenon
  <2>5. r.ok = FALSE /\ (r.p = n(f) \/ r.p = StateCb(f, s))
    <3> HIDE DEF n
    <3> QED BY <2>1, PaOkIs, Zenon
  <2> QED BY <2>3, <2>4, <2>5, Zenon DEF PaOpened
<1> QED BY <1>1, <1>2, <1>3, Zenon

PaMade(r, s) ==
    r.ok = TRUE => \/ r.p.stream[s] = "corked"
                   \/ r.p.stream[s] = "running" /\ s = "capture"

(* A stream that is made is corked, or runs if it is the capture stream. *)
LEMMA SetAudioIs ==
    ASSUME NEW p, NEW a, NEW s \in PaStreams, PaBut(p, a, s), NEW r \in PaSetAudio(p, s)
    PROVE  PaBut(r.p, a, s) /\ r.ok \in BOOLEAN /\ PaMade(r, s)
<1> DEFINE q == PaStreamClose(p, s)
<1>1. PaBut(q, a, s)
  BY StreamIs, Zenon DEF PaStates, PaStreamClose
<1>2. \E state \in {"corked", "running"} :
          /\ r \in PaStreamOpen(q, s, state)
          /\ state = "corked" \/ s = "capture"
  <2>1. CASE s = "play"
    BY <2>1 DEF PaSetAudio, PlaybackSetAudio
  <2>2. CASE s = "capture"
    BY <2>2 DEF PaSetAudio, CaptureSetAudio
  <2> QED BY <2>1, <2>2 DEF PaStreams
<1> HIDE DEF q
<1>3. ASSUME NEW state \in PaStates, r \in PaStreamOpen(q, s, state)
      PROVE  PaBut(r.p, a, s) /\ r.ok \in BOOLEAN /\ PaOpened(r, s, state)
  BY <1>1, <1>3, StreamOpenIs
<1>4. "corked" \in PaStates /\ "running" \in PaStates
  BY DEF PaStates
<1>5. r \in PaStreamOpen(q, s, "corked") \/ (s = "capture" /\ r \in PaStreamOpen(q, s, "running"))
  BY <1>2
<1> QED BY <1>3, <1>4, <1>5, Zenon DEF PaOpened, PaMade

(* A result is settled, or leaves only stream s in question. *)
PaSettles(r, a, s) ==
    /\ r.ok \in BOOLEAN /\ (r.ok = TRUE => PaReady(r.p, a))
    /\ r.ok = FALSE => PaBut(r.p, a, s)

(* The results of one step settle the stream as their state does. *)
LEMMA SettlesIs ==
    ASSUME NEW q, NEW a, NEW s \in PaStreams, NEW r
    PROVE  /\ PaReady(q, a) /\ r \in PaOk(q) => PaSettles(r, a, s)
           /\ PaBut(q, a, s) /\ r \in PaNo(q) => PaSettles(r, a, s)
           /\ PaSettles(r, a, s) => PaBut(r.p, a, s)
BY PaOkIs, ButIs, Zenon DEF PaSettles

(* A stream that is started runs, is not there, or an error is reported. *)
LEMMA StartIs ==
    ASSUME NEW p, NEW a, NEW s \in PaStreams, PaBut(p, a, s), a[s] = TRUE,
           NEW r \in PaStart(p, s)
    PROVE  PaSettles(r, a, s)
<1> DEFINE t == [p EXCEPT !.stream[s] = "running"]
<1>1. \/ p.stream[s] = "null" /\ r \in PaOk(p)
      \/ r \in PaNo(p) \/ r \in PaOk(t)
      \/ \E f \in PaFault(p) : r \in PaNo(f) \/ r \in PaOk(CorkFails(f, s))
  <2>1. CASE s = "play"
    BY <2>1 DEF PaStart, PlaybackStart
  <2>2. CASE s = "capture"
    BY <2>2 DEF PaStart, CaptureStart
  <2> QED BY <2>1, <2>2 DEF PaStreams
<1>2. PaReady(t, a)
  <2>1. PaBut(t, a, s) /\ t.stream[s] = "running"
    BY StreamIs, Zenon DEF PaStates
  <2> HIDE DEF t
  <2> QED BY <2>1, StreamSettles, Zenon
<1>3. ASSUME NEW f \in PaFault(p), r \in PaNo(f) \/ r \in PaOk(CorkFails(f, s))
      PROVE  PaSettles(r, a, s)
  <2>1. PaBut(f, a, s)
    BY <1>3, FaultKeeps DEF PaBut
  <2>2. PaReady(CorkFails(f, s), a)
    BY <2>1, CorkFailsIs
  <2> QED BY <1>3, <2>1, <2>2, SettlesIs
<1>4. p.stream[s] = "null" => PaReady(p, a)
  BY StreamSettles, Zenon
<1> HIDE DEF t
<1> QED BY <1>1, <1>2, <1>3, <1>4, SettlesIs, Zenon

(* A stream that is stopped is corked, is not there, or an error is reported. *)
LEMMA StopIs ==
    ASSUME NEW p, NEW a, NEW s \in PaStreams, PaBut(p, a, s), a[s] = FALSE,
           NEW r \in PaStop(p, s)
    PROVE  PaSettles(r, a, s)
<1> DEFINE t == [p EXCEPT !.stream[s] = "corked"]
<1>1. \/ p.stream[s] = "null" /\ r \in PaOk(p)
      \/ r \in PaNo(p) \/ r \in PaOk(t)
      \/ \E f \in PaFault(p) : r \in PaNo(f) \/ r \in PaOk(CorkFails(f, s))
      \/ s = "play" /\ \E f \in PaFault(t) : r \in PaNo(f) \/ r \in PaOk(FlushFails(f))
  <2>1. CASE s = "play"
    <3> DEFINE u == [p EXCEPT !.stream["play"] = "corked"]
    <3>1. r \in PlaybackStop(p) /\ u = t
      BY <2>1 DEF PaStop
    <3>2. \/ p.stream["play"] = "null" /\ r \in PaOk(p)
          \/ r \in PaNo(p) \/ r \in PaOk(u)
          \/ \E f \in PaFault(p) : r \in PaNo(f) \/ r \in PaOk(CorkFails(f, "play"))
          \/ \E f \in PaFault(u) : r \in PaNo(f) \/ r \in PaOk(FlushFails(f))
      BY <3>1 DEF PlaybackStop
    <3> QED BY <2>1, <3>1, <3>2
  <2>2. CASE s = "capture"
    BY <2>2 DEF PaStop, CaptureStop
  <2> QED BY <2>1, <2>2 DEF PaStreams
<1>a. PaBut(t, a, s) /\ t.stream[s] = "corked"
  BY StreamIs, Zenon DEF PaStates
<1> HIDE DEF t
<1>2. PaReady(t, a)
  BY <1>a, StreamSettles, Zenon
<1>3. ASSUME NEW f \in PaFault(p), r \in PaNo(f) \/ r \in PaOk(CorkFails(f, s))
      PROVE  PaSettles(r, a, s)
  <2>1. PaBut(f, a, s)
    BY <1>3, FaultKeeps DEF PaBut
  <2>2. PaReady(CorkFails(f, s), a)
    BY <2>1, CorkFailsIs
  <2> QED BY <1>3, <2>1, <2>2, SettlesIs, Zenon
<1>4. ASSUME s = "play", NEW f \in PaFault(t), r \in PaNo(f) \/ r \in PaOk(FlushFails(f))
      PROVE  PaSettles(r, a, s)
  <2>1. PaBut(f, a, s)
    BY <1>a, <1>4, FaultKeeps DEF PaBut
  <2>2. PaReady(FlushFails(f), a)
    BY <1>4, <2>1, CorkFailsIs
  <2> QED BY <1>4, <2>1, <2>2, SettlesIs, Zenon
<1>5. p.stream[s] = "null" => PaReady(p, a)
  BY StreamSettles, Zenon
<1> QED BY <1>1, <1>2, <1>3, <1>4, <1>5, SettlesIs, Zenon

(* A stream is built again. *)
LEMMA RebuildIs ==
    ASSUME NEW p, NEW a \in [PaStreams -> BOOLEAN], NEW s \in PaStreams, PaBut(p, a, s),
           NEW r \in PaRebuild(p, s)
    PROVE  PaSettles(r, a, s)
<1>1. PICK o \in PaSetAudio(p, s) :
          r \in (IF o.ok THEN (IF o.p.started[s] THEN PaStart(o.p, s) ELSE PaOk(o.p)) ELSE {o})
  BY DEF PaRebuild, PaThen
<1>2. PaBut(o.p, a, s) /\ o.ok \in BOOLEAN /\ PaMade(o, s)
  BY SetAudioIs
<1>3. o.p.started = a /\ a[s] \in BOOLEAN
  BY <1>2 DEF PaBut, PaGood
<1>4. \/ o.ok = FALSE /\ r = o
      \/ o.ok = TRUE /\ a[s] = TRUE /\ r \in PaStart(o.p, s)
      \/ o.ok = TRUE /\ a[s] = FALSE /\ r \in PaOk(o.p)
  BY <1>1, <1>2, <1>3
<1>5. CASE o.ok = FALSE /\ r = o
  BY <1>2, <1>5 DEF PaSettles
<1>6. CASE o.ok = TRUE /\ a[s] = TRUE /\ r \in PaStart(o.p, s)
  BY <1>2, <1>6, StartIs, Zenon
<1>7. CASE o.ok = TRUE /\ a[s] = FALSE /\ r \in PaOk(o.p)
  <2>1. PaReady(o.p, a)
    BY <1>2, <1>7, StreamSettles, Zenon DEF PaMade
  <2> QED BY <1>7, <2>1, SettlesIs
<1> QED BY <1>4, <1>5, <1>6, <1>7, Zenon

(* Everything is given up: no streams, no context, no reports. *)
PaOff(p, a) == PaAll(p, a) /\ p.context = FALSE

(* pulse_deinit gives up the streams, the context and the reports. *)
LEMMA DeinitIs ==
    ASSUME NEW p, NEW a, PaTypes(p), p.started = a
    PROVE  PaOff(PaDeinit(p), a)
<1> DEFINE c == PaStreamClose(p, "capture")
           n == PaStreamClose(c, "play")
           t == ContextDeinit(n)
<1>1. DOMAIN p = PaFields /\ p.stream \in [PaStreams -> PaStates]
  BY DEF PaTypes
<1>2. /\ DOMAIN c = PaFields /\ c.context = p.context /\ c.ctl = p.ctl /\ c.pipe = p.pipe
      /\ c.started = p.started /\ c.faults = p.faults
      /\ c.stream = [p.stream EXCEPT !["capture"] = "null"]
  BY <1>1 DEF PaFields, PaStreamClose
<1>3. c.stream \in [PaStreams -> PaStates] /\ c.stream["capture"] = "null"
  BY <1>1, <1>2 DEF PaStreams, PaStates
<1> HIDE DEF c
<1>4. /\ DOMAIN n = PaFields /\ n.context = c.context /\ n.ctl = c.ctl /\ n.pipe = c.pipe
      /\ n.started = c.started /\ n.faults = c.faults
      /\ n.stream = [c.stream EXCEPT !["play"] = "null"]
  BY <1>2 DEF PaFields, PaStreamClose
<1>5. n.stream \in [PaStreams -> PaStates] /\ \A s \in PaStreams : n.stream[s] = "null"
  BY <1>3, <1>4 DEF PaStreams, PaStates
<1> HIDE DEF n
<1>6. /\ DOMAIN t = PaFields /\ t.context = FALSE /\ t.pipe = << >> /\ t.stream = n.stream
      /\ t.started = n.started /\ t.faults = n.faults
      /\ t.ctl = IF n.ctl = "none" THEN "none" ELSE "closed"
  BY <1>4 DEF PaFields, ContextDeinit
<1> HIDE DEF t
<1>7. t.stream = [s \in PaStreams |-> "null"]
  BY <1>5, <1>6
<1>8. t.started = a /\ a \in [PaStreams -> BOOLEAN]
  BY <1>2, <1>4, <1>6 DEF PaTypes
<1>9. t.faults \in 0 .. MaxPaFaults
  BY <1>2, <1>4, <1>6 DEF PaTypes
<1>10. t.ctl \in {"none", "pipe", "closed"}
  BY <1>6
<1>11. t.pipe \in Seq(PaMessages) /\ t.stream \in [PaStreams -> PaStates]
  BY <1>5, <1>6
<1>12. PaTypes(t)
  BY <1>6, <1>7, <1>8, <1>9, <1>10, <1>11, Zenon DEF PaTypes
<1>13. \A s \in PaStreams : PaFollows(t, s)
  BY <1>5, <1>6 DEF PaFollows
<1> QED BY <1>6, <1>8, <1>12, <1>13 DEF PaOff, PaAll, PaGood, t, n, c, PaDeinit

(* The context is made, or all is given up. *)
LEMMA ContextInitIs ==
    ASSUME NEW p, NEW a, PaOff(p, a), NEW r \in ContextInit(p)
    PROVE  /\ r.ok \in BOOLEAN /\ (r.ok = TRUE => PaReady(r.p, a))
           /\ r.ok = FALSE => PaTypes(r.p) /\ r.p.started = a
<1>a. /\ PaTypes(p) /\ p.context = FALSE /\ p.started = a
      /\ \A s \in PaStreams : p.stream[s] = "null"
  BY DEF PaOff, PaAll, PaGood, PaTypes
<1> DEFINE t == [p EXCEPT !.context = TRUE, !.ctl = "pipe", !.pipe = << >>]
           c(f) == [f EXCEPT !.ctl = "pipe"]
<1>1. r \in PaOk(t) \/ \E f \in PaFault(p) : r \in PaNo(f) \/ r \in PaNo(c(f))
  BY DEF ContextInit
<1>2. PaReady(t, a)
  <2>1. /\ DOMAIN t = PaFields /\ t.context = TRUE /\ t.ctl = "pipe" /\ t.pipe = << >>
        /\ t.stream = p.stream /\ t.started = p.started /\ t.faults = p.faults
    BY <1>a DEF PaTypes, PaFields
  <2> HIDE DEF t
  <2>2. t.pipe \in Seq(PaMessages)
    BY <2>1
  <2>3. PaTypes(t)
    BY <1>a, <2>1, <2>2, Zenon DEF PaTypes
  <2>4. \A s \in PaStreams : PaFollows(t, s)
    BY <1>a, <2>1 DEF PaFollows
  <2> QED BY <1>a, <2>1, <2>3, <2>4 DEF PaReady, PaAll, PaGood
<1>3. ASSUME NEW f \in PaFault(p) PROVE PaTypes(c(f)) /\ c(f).started = a /\ PaTypes(f) /\ f.started = a
  <2>1. PaTypes(f) /\ f.started = a
    BY <1>a, FaultIs
  <2> DEFINE g == c(f)
  <2>2. /\ DOMAIN g = PaFields /\ g.context = f.context /\ g.ctl = "pipe" /\ g.pipe = f.pipe
        /\ g.stream = f.stream /\ g.started = f.started /\ g.faults = f.faults
    BY <2>1 DEF PaTypes, PaFields
  <2> HIDE DEF g
  <2>3. PaTypes(g)
    BY <2>1, <2>2 DEF PaTypes
  <2> QED BY <2>1, <2>2, <2>3 DEF g
<1> HIDE DEF t, c
<1>4. CASE r \in PaOk(t)
  BY <1>2, <1>4, PaOkIs, Zenon
<1>5. ASSUME NEW f \in PaFault(p), r \in PaNo(f) \/ r \in PaNo(c(f))
      PROVE  r.ok = FALSE /\ PaTypes(r.p) /\ r.p.started = a
  <2>1. r.ok = FALSE /\ (r.p = f \/ r.p = c(f))
    BY <1>5, PaOkIs, Zenon
  <2> QED BY <1>3, <2>1
<1> QED BY <1>1, <1>4, <1>5, Zenon

(* pulse_init makes the context, or everything is given up. *)
LEMMA PaInitIs ==
    ASSUME NEW p, NEW a, PaOff(p, a), NEW r \in PaInit(p)
    PROVE  r.ok \in BOOLEAN /\ PaAll(r.p, a) /\ (r.ok = TRUE => PaReady(r.p, a))
<1>1. PICK o : /\ o \in ContextInit(p) \/ \E f \in PaFault(p) : o \in PaNo(f)
               /\ r \in (IF o.ok THEN {o} ELSE PaNo(PaDeinit(o.p)))
  BY DEF PaInit
<1>2. ASSUME NEW f \in PaFault(p), o \in PaNo(f)
      PROVE  o.ok = FALSE /\ PaTypes(o.p) /\ o.p.started = a
  <2>1. PaTypes(p) /\ p.started = a
    BY DEF PaOff, PaAll, PaGood
  <2>2. PaTypes(f) /\ f.started = a
    BY <2>1, FaultIs
  <2> QED BY <1>2, <2>2, PaOkIs, Zenon
<1>3. /\ o.ok \in BOOLEAN /\ (o.ok = TRUE => PaReady(o.p, a))
      /\ o.ok = FALSE => PaTypes(o.p) /\ o.p.started = a
  BY <1>1, <1>2, ContextInitIs, Zenon
<1>4. \/ o.ok = TRUE /\ r = o
      \/ o.ok = FALSE /\ r \in PaNo(PaDeinit(o.p))
  BY <1>1, <1>3
<1>5. CASE o.ok = FALSE /\ r \in PaNo(PaDeinit(o.p))
  <2>1. PaOff(PaDeinit(o.p), a)
    BY <1>3, <1>5, DeinitIs
  <2>2. r.ok = FALSE /\ r.p = PaDeinit(o.p)
    BY <1>5, PaOkIs, Zenon
  <2> QED BY <2>1, <2>2, Zenon DEF PaOff
<1> QED BY <1>3, <1>4, <1>5, Zenon DEF PaReady

(* A result is settled, or ends in a state that is to be given up. *)
PaEnds(r, a) ==
    /\ r.ok \in BOOLEAN /\ (r.ok = TRUE => PaReady(r.p, a))
    /\ r.ok = FALSE => PaTypes(r.p) /\ r.p.started = a

(* What settles a stream ends well, or in a state that can be given up. *)
LEMMA SettlesEnds ==
    ASSUME NEW a, NEW s \in PaStreams, NEW r, PaSettles(r, a, s)
    PROVE  PaEnds(r, a)
BY ButIs, Zenon DEF PaSettles, PaEnds

(* A stream that was there is built again, the other stays. *)
LEMMA RebuildOneIs ==
    ASSUME NEW p, NEW a \in [PaStreams -> BOOLEAN], NEW s \in PaStreams, PaReady(p, a),
           NEW r \in PaRebuild(p, s) \cup PaOk(p)
    PROVE  PaEnds(r, a)
<1>1. PaBut(p, a, s)
  BY ButIs, Zenon
<1>2. r \in PaRebuild(p, s) => PaSettles(r, a, s)
  BY <1>1, RebuildIs
<1>3. r \in PaOk(p) => PaSettles(r, a, s)
  BY SettlesIs
<1> QED BY <1>2, <1>3, SettlesEnds

(* Building everything again ends with all streams following, or is to be given up. *)
LEMMA RebuildAllIs ==
    ASSUME NEW p, NEW a \in [PaStreams -> BOOLEAN], PaTypes(p), p.started = a, NEW there,
           NEW r \in PaRebuildAll(p, there)
    PROVE  PaEnds(r, a)
<1> DEFINE one(q, s) == PaRebuild(q, s) \cup PaOk(q)
<1>0. PICK i \in PaInit(PaDeinit(p)) :
      \E o \in (IF i.ok THEN (IF "play" \in there THEN PaRebuild(i.p, "play") ELSE PaOk(i.p)) ELSE {i}) :
          r \in (IF o.ok THEN (IF "capture" \in there THEN PaRebuild(o.p, "capture") ELSE PaOk(o.p)) ELSE {o})
  BY DEF PaRebuildAll, PaThen
<1>1. PICK o : /\ o \in (IF i.ok THEN one(i.p, "play") ELSE {i})
               /\ r \in (IF o.ok THEN one(o.p, "capture") ELSE {o})
  BY <1>0
<1>2. PaEnds(i, a)
  <2>1. PaOff(PaDeinit(p), a)
    BY DeinitIs
  <2>2. i.ok \in BOOLEAN /\ PaAll(i.p, a) /\ (i.ok = TRUE => PaReady(i.p, a))
    BY <2>1, PaInitIs, Zenon
  <2>3. PaTypes(i.p) /\ i.p.started = a
    BY <2>2 DEF PaAll, PaGood
  <2> QED BY <2>2, <2>3 DEF PaEnds
<1>3. ASSUME NEW s \in PaStreams, NEW x, NEW y, PaEnds(x, a),
             y \in (IF x.ok THEN one(x.p, s) ELSE {x})
      PROVE  PaEnds(y, a)
  <2>1. x.ok \in BOOLEAN /\ (x.ok = TRUE => PaReady(x.p, a))
    BY <1>3 DEF PaEnds
  <2>2. \/ x.ok = TRUE /\ y \in PaRebuild(x.p, s) \cup PaOk(x.p)
        \/ x.ok = FALSE /\ y = x
    BY <1>3, <2>1
  <2>3. CASE x.ok = TRUE /\ y \in PaRebuild(x.p, s) \cup PaOk(x.p)
    BY <2>1, <2>3, RebuildOneIs
  <2> QED BY <1>3, <2>2, <2>3, Zenon
<1> HIDE DEF one
<1>4. "play" \in PaStreams /\ "capture" \in PaStreams
  BY DEF PaStreams
<1>5. PaEnds(o, a)
  BY <1>1, <1>2, <1>3, <1>4
<1> QED BY <1>1, <1>3, <1>4, <1>5

(* After a recovery every stream follows, or nothing is left. *)
PaRecovered(r, a) ==
    r.ok \in BOOLEAN /\ PaAll(r.p, a) /\ (r.ok = TRUE => PaReady(r.p, a))

(* pulse_recover: the stream is built again, then everything, then all is given up. *)
LEMMA RecoverIs ==
    ASSUME NEW p, NEW a \in [PaStreams -> BOOLEAN], NEW s \in PaStreams, PaBut(p, a, s),
           NEW r \in PaRecover(p, s)
    PROVE  PaRecovered(r, a)
<1> DEFINE there == {x \in PaStreams : p.stream[x] # "null"}
<1>1. PICK o \in PaRebuild(p, s) :
          r \in (IF o.ok THEN {o}
                 ELSE UNION {IF b.ok THEN {b} ELSE PaNo(PaDeinit(b.p)) : b \in PaRebuildAll(o.p, there)})
  BY DEF PaRecover
<1> HIDE DEF there
<1>2. PaSettles(o, a, s)
  BY RebuildIs
<1>3. CASE o.ok = TRUE
  BY <1>1, <1>2, <1>3 DEF PaSettles, PaRecovered, PaReady
<1>4. CASE o.ok = FALSE
  <2>1. PICK b \in PaRebuildAll(o.p, there) : r \in (IF b.ok THEN {b} ELSE PaNo(PaDeinit(b.p)))
    BY <1>1, <1>4
  <2>2. PaBut(o.p, a, s)
    BY <1>2, <1>4 DEF PaSettles
  <2>3. PaTypes(o.p) /\ o.p.started = a
    BY <2>2, ButIs, Zenon
  <2>4. PaEnds(b, a)
    BY <2>3, RebuildAllIs
  <2>5. CASE b.ok = TRUE
    BY <2>1, <2>4, <2>5 DEF PaEnds, PaRecovered, PaReady
  <2>6. CASE b.ok = FALSE
    <3>1. PaOff(PaDeinit(b.p), a)
      BY <2>4, <2>6, DeinitIs DEF PaEnds
    <3>2. r.ok = FALSE /\ r.p = PaDeinit(b.p)
      BY <2>1, <2>6, PaOkIs, Zenon
    <3> QED BY <3>1, <3>2, Zenon DEF PaOff, PaRecovered
  <2> QED BY <2>4, <2>5, <2>6, Zenon DEF PaEnds
<1> QED BY <1>2, <1>3, <1>4, Zenon DEF PaSettles

(* An operation that recovers from its failures. *)
LEMMA OrRecoverIs ==
    ASSUME NEW a \in [PaStreams -> BOOLEAN], NEW s \in PaStreams, NEW results,
           \A o \in results : PaBut(o.p, a, s) /\ o.ok \in BOOLEAN,
           NEW r \in OrRecover(results, s)
    PROVE  PaRecovered(r, a) \/ (r \in results /\ r.ok = TRUE)
<1>1. PICK o \in results : r \in (IF o.ok THEN {o} ELSE PaRecover(o.p, s))
  BY DEF OrRecover
<1>2. PaBut(o.p, a, s) /\ o.ok \in BOOLEAN
  OBVIOUS
<1>3. o.ok = TRUE => r = o
  BY <1>1
<1>4. o.ok = FALSE => r \in PaRecover(o.p, s)
  BY <1>1
<1> QED BY <1>2, <1>3, <1>4, RecoverIs

(* An operation that settles its stream or recovers leaves all streams following. *)
LEMMA OrRecoverSettles ==
    ASSUME NEW a \in [PaStreams -> BOOLEAN], NEW s \in PaStreams, NEW results,
           \A o \in results : PaSettles(o, a, s),
           NEW r \in OrRecover(results, s)
    PROVE  PaRecovered(r, a)
<1>1. \A o \in results : PaBut(o.p, a, s) /\ o.ok \in BOOLEAN
  BY SettlesIs, Zenon DEF PaSettles
<1>2. PaRecovered(r, a) \/ (r \in results /\ r.ok = TRUE)
  BY <1>1, OrRecoverIs, Zenon
<1>3. ASSUME r \in results, r.ok = TRUE PROVE PaRecovered(r, a)
  BY <1>3 DEF PaSettles, PaRecovered, PaReady
<1> QED BY <1>2, <1>3, Zenon

(* The started flag of a stream is set. *)
LEMMA StartedIs ==
    ASSUME NEW p, NEW a, NEW s \in PaStreams, PaGood(p, a, {s}), NEW v \in BOOLEAN
    PROVE  /\ PaGood([p EXCEPT !.started[s] = v], [a EXCEPT ![s] = v], {s})
           /\ [p EXCEPT !.started[s] = v].context = p.context
           /\ [p EXCEPT !.started[s] = v].stream = p.stream
<1> DEFINE t == [p EXCEPT !.started[s] = v]
           b == [a EXCEPT ![s] = v]
<1>1. PaTypes(p) /\ p.started = a /\ \A x \in PaStreams \ {s} : PaFollows(p, x)
  BY DEF PaGood
<1>2. DOMAIN p = PaFields /\ p.started \in [PaStreams -> BOOLEAN]
  BY <1>1 DEF PaTypes
<1>3. /\ DOMAIN t = PaFields /\ t.context = p.context /\ t.ctl = p.ctl /\ t.pipe = p.pipe
      /\ t.stream = p.stream /\ t.faults = p.faults /\ t.started = b
  BY <1>1, <1>2 DEF PaFields
<1>4. b \in [PaStreams -> BOOLEAN] /\ \A x \in PaStreams \ {s} : b[x] = a[x]
  BY <1>1, <1>2
<1> HIDE DEF t, b
<1>5. PaTypes(t)
  BY <1>1, <1>3, <1>4 DEF PaTypes
<1>6. ASSUME NEW x \in PaStreams \ {s} PROVE PaFollows(t, x)
  BY <1>1, <1>3, <1>4 DEF PaFollows, PaTold
<1>7. PaGood(t, b, {s})
  BY <1>3, <1>5, <1>6 DEF PaGood
<1> QED BY <1>3, <1>7 DEF t, b

(* pulse_open_out and pulse_set_format_out, and those of the input *)
LEMMA PulseOpenIs ==
    ASSUME NEW p, NEW a, PaAll(p, a), NEW r \in PulseOpen(p)
    PROVE  r.ok \in BOOLEAN /\ PaAll(r.p, a) /\ (r.ok = TRUE => PaReady(r.p, a))
<1>1. p.context \in BOOLEAN
  BY DEF PaAll, PaGood, PaTypes
<1>2. CASE p.context = TRUE
  BY <1>2, PaOkIs, Zenon DEF PulseOpen, PaReady
<1>3. CASE p.context = FALSE
  BY <1>3, PaInitIs, Zenon DEF PulseOpen, PaOff
<1> QED BY <1>1, <1>2, <1>3, Zenon

(* Setting a format starts the stream, or leaves it to be closed. *)
LEMMA SetFormatIs ==
    ASSUME NEW p, NEW a \in [PaStreams -> BOOLEAN], NEW s \in PaStreams, PaReady(p, a),
           NEW same, NEW r \in PaSetFormat(p, s, same)
    PROVE  /\ r.ok \in BOOLEAN /\ (r.ok = TRUE => PaAll(r.p, [a EXCEPT ![s] = TRUE]))
           /\ PaAll(r.p, a) \/ PaAll(r.p, [a EXCEPT ![s] = TRUE])
<1> DEFINE b == [a EXCEPT ![s] = TRUE]
           on(q) == [q EXCEPT !.started[s] = TRUE]
<1>1. PICK f \in PaOk(p) \cup OrRecover(PaSetAudio(p, s), s) :
          r \in (IF f.ok THEN OrRecover(PaStart(on(f.p), s), s) ELSE {f})
  BY Zenon DEF PaSetFormat, PaThen
<1>2. PaBut(p, a, s)
  BY ButIs, Zenon
<1>3. /\ f.ok \in BOOLEAN /\ (f.ok = TRUE => PaBut(f.p, a, s))
      /\ f.ok = FALSE => PaAll(f.p, a)
  <2>1. CASE f \in PaOk(p)
    BY <1>2, <2>1, PaOkIs, Zenon
  <2>2. CASE f \in OrRecover(PaSetAudio(p, s), s)
    <3>1. \A o \in PaSetAudio(p, s) : PaBut(o.p, a, s) /\ o.ok \in BOOLEAN
      BY <1>2, SetAudioIs
    <3>2. PaRecovered(f, a) \/ (f \in PaSetAudio(p, s) /\ f.ok = TRUE)
      BY <2>2, <3>1, OrRecoverIs, Zenon
    <3>3. PaRecovered(f, a) => f.ok \in BOOLEAN /\ PaAll(f.p, a) /\ (f.ok = TRUE => PaBut(f.p, a, s))
      BY ButIs, Zenon DEF PaRecovered
    <3> QED BY <3>1, <3>2, <3>3
  <2> QED BY <2>1, <2>2, Zenon
<1>4. CASE f.ok = FALSE
  BY <1>1, <1>3, <1>4
<1>5. CASE f.ok = TRUE
  <2>1. PaBut(f.p, a, s)
    BY <1>3, <1>5
  <2>2. PaGood(on(f.p), b, {s}) /\ on(f.p).context = TRUE
    <3>1. PaGood(f.p, a, {s}) /\ f.p.context = TRUE
      BY <2>1 DEF PaBut
    <3>2. ASSUME NEW q, PaGood(q, a, {s})
          PROVE  PaGood(on(q), b, {s}) /\ on(q).context = q.context
      BY <3>2, StartedIs, Zenon
    <3> HIDE DEF on, b
    <3> QED BY <3>1, <3>2
  <2>3. b \in [PaStreams -> BOOLEAN] /\ b[s] = TRUE
    OBVIOUS
  <2>4. r \in OrRecover(PaStart(on(f.p), s), s)
    BY <1>1, <1>5
  <2> HIDE DEF b, on
  <2>5. PaBut(on(f.p), b, s)
    BY <2>2 DEF PaBut
  <2>6. \A o \in PaStart(on(f.p), s) : PaSettles(o, b, s)
    BY <2>3, <2>5, StartIs, Zenon
  <2>7. PaRecovered(r, b)
    BY <2>3, <2>4, <2>6, OrRecoverSettles
  <2> QED BY <2>7 DEF PaRecovered, b
<1> QED BY <1>3, <1>4, <1>5, Zenon

(* pulse_close_out and pulse_close_in *)
LEMMA PaCloseIs ==
    ASSUME NEW p, NEW a \in [PaStreams -> BOOLEAN], NEW s \in PaStreams, PaAll(p, a),
           NEW r \in PulseCloseResults(p, s)
    PROVE  PaAll(r.p, [a EXCEPT ![s] = FALSE])
<1> DEFINE b == [a EXCEPT ![s] = FALSE]
           t == [p EXCEPT !.started[s] = FALSE]
<1>1. PaGood(p, a, {s}) /\ p.context \in BOOLEAN
  BY ButIs DEF PaAll, PaGood, PaTypes
<1>2. PaGood(t, b, {s}) /\ t.context = p.context /\ t.stream = p.stream
  BY <1>1, StartedIs, Zenon
<1>3. b \in [PaStreams -> BOOLEAN] /\ b[s] = FALSE
  OBVIOUS
<1>4. r \in OrRecover(PaStop(t, s), s)
  BY DEF PulseCloseResults
<1> HIDE DEF b, t
<1>5. CASE p.context = TRUE
  <2>1. PaBut(t, b, s)
    BY <1>2, <1>5 DEF PaBut
  <2>2. \A o \in PaStop(t, s) : PaSettles(o, b, s)
    BY <1>3, <2>1, StopIs, Zenon
  <2>3. PaRecovered(r, b)
    BY <1>3, <1>4, <2>2, OrRecoverSettles
  <2> QED BY <2>3 DEF PaRecovered, b
<1>6. CASE p.context = FALSE
  <2>1. t.stream[s] = "null"
    BY <1>1, <1>2, <1>6 DEF PaGood, PaTypes
  <2>2. PaStop(t, s) = PaOk(t)
    BY <2>1 DEF PaStop, PlaybackStop, CaptureStop, PaStreams
  <2>3. PICK o \in PaOk(t) : r \in (IF o.ok THEN {o} ELSE PaRecover(o.p, s))
    BY <1>4, <2>2 DEF OrRecover
  <2>4. r.p = t
    <3>1. o.ok = TRUE /\ o.p = t
      BY PaOkIs, Zenon
    <3> QED BY <2>3, <3>1
  <2>5. PaAll(t, b)
    BY <1>2, <2>1, ButIs, Zenon DEF PaFollows
  <2> QED BY <2>4, <2>5 DEF b
<1> QED BY <1>1, <1>5, <1>6, Zenon

(* pulse_play and pulse_record *)
LEMMA PaTransferIs ==
    ASSUME NEW p, NEW a, NEW s \in PaStreams, PaReady(p, a), NEW r \in PaTransfer(p, s)
    PROVE  PaSettles(r, a, s)
<1>1. r \in PaOk(p) \/ r \in PaNo(p) \/ \E f \in PaFault(p) : r \in PaNo(f)
  BY DEF PaTransfer
<1>2. PaBut(p, a, s)
  BY ButIs, Zenon
<1>3. ASSUME NEW f \in PaFault(p) PROVE PaBut(f, a, s)
  BY <1>2, FaultKeeps DEF PaBut
<1> QED BY <1>1, <1>2, <1>3, SettlesIs

(* The first report is taken from the pipe. *)
LEMMA TakeIs ==
    ASSUME NEW p, NEW a, PaAll(p, a), p.pipe # << >>
    PROVE  /\ Head(p.pipe) \in PaMessages
           /\ PaBut([p EXCEPT !.pipe = Tail(@)], a, Head(p.pipe)[2])
           /\ Head(p.pipe)[1] = "avail" => PaReady([p EXCEPT !.pipe = Tail(@)], a)
<1> DEFINE m == Head(p.pipe)
           t == [p EXCEPT !.pipe = Tail(@)]
<1>1. PaTypes(p) /\ p.started = a /\ \A x \in PaStreams : PaFollows(p, x)
  BY DEF PaAll, PaGood
<1>2. p.pipe \in Seq(PaMessages) /\ p.context = TRUE /\ DOMAIN p = PaFields
  BY <1>1 DEF PaTypes
<1>3. /\ DOMAIN t = PaFields /\ t.context = p.context /\ t.ctl = p.ctl /\ t.stream = p.stream
      /\ t.started = p.started /\ t.faults = p.faults /\ t.pipe = Tail(p.pipe)
  BY <1>2 DEF PaFields
<1> HIDE DEF t
<1>4. m \in PaMessages /\ Tail(p.pipe) \in Seq(PaMessages)
  BY <1>2
<1>5. \A x \in Range(p.pipe) : x = m \/ x \in Range(Tail(p.pipe))
  <2> SUFFICES ASSUME NEW x \in Range(p.pipe), x # m PROVE x \in Range(Tail(p.pipe))
    OBVIOUS
  <2>1. PICK i \in 1 .. Len(p.pipe) : p.pipe[i] = x
    BY <1>2 DEF Range
  <2>2. i # 1 /\ i \in Nat /\ Len(p.pipe) \in Nat
    BY <1>2, <2>1
  <2>3. i - 1 \in 1 .. Len(p.pipe) - 1
    BY <2>1, <2>2
  <2>4. Tail(p.pipe)[i - 1] = x /\ DOMAIN Tail(p.pipe) = 1 .. Len(p.pipe) - 1
    <3>1. Len(Tail(p.pipe)) = Len(p.pipe) - 1 /\ Tail(p.pipe)[i - 1] = p.pipe[i - 1 + 1]
      BY <1>2, <2>2, <2>3
    <3>2. i - 1 + 1 = i
      BY <2>2
    <3>3. DOMAIN Tail(p.pipe) = 1 .. Len(Tail(p.pipe))
      BY <1>4
    <3> QED BY <2>1, <3>1, <3>2, <3>3
  <2> QED BY <2>3, <2>4 DEF Range
<1>6. PaTypes(t)
  BY <1>1, <1>2, <1>3, <1>4 DEF PaTypes
<1>7. \A x \in PaStreams : m # <<"error", x>> => PaFollows(t, x)
  BY <1>1, <1>3, <1>5 DEF PaFollows, PaTold
<1>8. m[2] \in PaStreams /\ m = <<m[1], m[2]>> /\ \A x \in PaStreams : x # m[2] => m # <<"error", x>>
  BY <1>4 DEF PaMessages
<1>9. PaBut(t, a, m[2])
  BY <1>1, <1>2, <1>3, <1>6, <1>7, <1>8 DEF PaBut, PaGood
<1>10. m[1] = "avail" => \A x \in PaStreams : m # <<"error", x>>
  BY <1>8
<1>11. m[1] = "avail" => PaReady(t, a)
  BY <1>1, <1>2, <1>3, <1>6, <1>7, <1>10 DEF PaReady, PaAll, PaGood
<1> QED BY <1>4, <1>9, <1>11 DEF t

(* The streams are started as rdpsnd uses them, and follow. *)
PulseInv == PaAll(pulse, inUse) /\ inUse \in [PaStreams -> BOOLEAN]

(* At the beginning no stream is used and none is there. *)
LEMMA PulseInitInv == PulseInit => PulseInv
<1> SUFFICES ASSUME PulseInit PROVE PulseInv
  OBVIOUS
<1>1. /\ DOMAIN pulse = PaFields /\ pulse.context = FALSE /\ pulse.ctl = "none" /\ pulse.pipe = << >>
      /\ pulse.stream = [s \in PaStreams |-> "null"] /\ pulse.started = [s \in PaStreams |-> FALSE]
      /\ pulse.faults = 0 /\ inUse = [s \in PaStreams |-> FALSE]
  BY DEF PulseInit, PaFields
<1>2. pulse.faults \in 0 .. MaxPaFaults /\ pulse.pipe \in Seq(PaMessages)
  BY <1>1, PulseConstants
<1>3. PaTypes(pulse)
  BY <1>1, <1>2, Zenon DEF PaTypes, PaStates
<1>4. \A s \in PaStreams : PaFollows(pulse, s)
  BY <1>1 DEF PaFollows
<1> QED BY <1>1, <1>3, <1>4 DEF PulseInv, PaAll, PaGood

(* Every step of the driver, its library and rdpsnd keeps the streams following. *)
LEMMA PulseStep == PulseInv /\ [PulseNext]_pulseVars => PulseInv'
<1> SUFFICES ASSUME PulseInv, [PulseNext]_pulseVars PROVE PulseInv'
  OBVIOUS
<1>1. PaAll(pulse, inUse) /\ inUse \in [PaStreams -> BOOLEAN] /\ PaTypes(pulse)
  BY ButIs DEF PulseInv, PaAll, PaGood
<1>2. SUFFICES PaAll(pulse', inUse') /\ inUse' \in [PaStreams -> BOOLEAN]
  BY DEF PulseInv
<1>3. ASSUME NEW s \in PaStreams, pulse.stream[s] # "null" PROVE PaBut(pulse, inUse, s)
  <2>1. pulse.context = TRUE
    BY <1>1, <1>3 DEF PaTypes
  <2> QED BY <1>1, <2>1, ButIs, Zenon DEF PaBut
<1>4. CASE UNCHANGED pulseVars
  BY <1>1, <1>4 DEF pulseVars
<1>5. ASSUME NEW s \in PaStreams, DataCb(s) PROVE PaAll(pulse', inUse') /\ inUse' = inUse
  <2>1. pulse.stream[s] = "running" /\ pulse' = PaSendMsg(pulse, <<"avail", s>>) /\ inUse' = inUse
    BY <1>5 DEF DataCb
  <2>2. pulse.context = TRUE
    BY <1>3, <2>1, Zenon DEF PaBut
  <2> DEFINE t == PaSendMsg(pulse, <<"avail", s>>)
  <2>3. /\ PaTypes(t) /\ t.started = pulse.started /\ t.stream = pulse.stream
        /\ \A x \in PaStreams : PaTold(pulse, x) => PaTold(t, x)
    BY <1>1, <2>2, TellIs, Zenon
  <2> HIDE DEF t
  <2>4. ASSUME NEW x \in PaStreams PROVE PaFollows(t, x)
    BY <1>1, <2>3 DEF PaAll, PaGood, PaFollows
  <2>5. PaAll(t, inUse)
    BY <1>1, <2>3, <2>4 DEF PaAll, PaGood
  <2> QED BY <2>1, <2>5 DEF t
<1>6. ASSUME NEW s \in PaStreams, StreamFails(s) PROVE PaAll(pulse', inUse') /\ inUse' = inUse
  <2>1. PICK f \in PaFault(pulse) : pulse' = StateCb(f, s)
    BY <1>6 DEF StreamFails
  <2>2. pulse.stream[s] # "null" /\ inUse' = inUse
    BY <1>6 DEF StreamFails
  <2>3. PaBut(f, inUse, s)
    BY <1>3, <2>2, FaultKeeps, Zenon DEF PaBut
  <2>4. PaReady(StateCb(f, s), inUse)
    BY <2>3, StateCbIs
  <2> QED BY <2>1, <2>2, <2>4 DEF PaReady
<1>7. ASSUME NEW s \in PaStreams, OpenStream(s)
      PROVE  PaAll(pulse', inUse') /\ inUse' \in [PaStreams -> BOOLEAN]
  <2>1. PICK r \in PulseOpen(pulse) :
            IF ~r.ok THEN pulse' = r.p /\ UNCHANGED inUse
            ELSE \E same \in BOOLEAN : \E f \in PaSetFormat(r.p, s, same) :
                 IF f.ok THEN pulse' = f.p /\ inUse' = [inUse EXCEPT ![s] = TRUE]
                 ELSE /\ \E c \in PulseCloseResults(f.p, s) : pulse' = c.p
                      /\ inUse' = [inUse EXCEPT ![s] = FALSE]
    BY <1>7 DEF OpenStream
  <2>2. r.ok \in BOOLEAN /\ PaAll(r.p, inUse) /\ (r.ok = TRUE => PaReady(r.p, inUse))
    BY <1>1, PulseOpenIs, Zenon
  <2>3. CASE r.ok = FALSE
    BY <1>1, <2>1, <2>2, <2>3
  <2>4. CASE r.ok = TRUE
    <3>1. PICK same \in BOOLEAN : \E f \in PaSetFormat(r.p, s, same) :
              IF f.ok THEN pulse' = f.p /\ inUse' = [inUse EXCEPT ![s] = TRUE]
              ELSE /\ \E c \in PulseCloseResults(f.p, s) : pulse' = c.p
                   /\ inUse' = [inUse EXCEPT ![s] = FALSE]
      BY <2>1, <2>4
    <3>2. PICK f \in PaSetFormat(r.p, s, same) :
              IF f.ok THEN pulse' = f.p /\ inUse' = [inUse EXCEPT ![s] = TRUE]
              ELSE /\ \E c \in PulseCloseResults(f.p, s) : pulse' = c.p
                   /\ inUse' = [inUse EXCEPT ![s] = FALSE]
      BY <3>1
    <3> DEFINE b == [inUse EXCEPT ![s] = TRUE]
    <3>3. /\ f.ok \in BOOLEAN /\ (f.ok = TRUE => PaAll(f.p, b))
          /\ PaAll(f.p, inUse) \/ PaAll(f.p, b)
      BY <1>1, <2>2, <2>4, SetFormatIs, Zenon
    <3>4. CASE f.ok = TRUE
      BY <1>1, <3>2, <3>3, <3>4, Zenon
    <3>5. CASE f.ok = FALSE
      <4>1. PICK c \in PulseCloseResults(f.p, s) : pulse' = c.p
        BY <3>2, <3>5
      <4>2. inUse' = [inUse EXCEPT ![s] = FALSE]
        BY <3>2, <3>5
      <4>3. b \in [PaStreams -> BOOLEAN] /\ [b EXCEPT ![s] = FALSE] = [inUse EXCEPT ![s] = FALSE]
        BY <1>1
      <4> HIDE DEF b
      <4>4. PaAll(f.p, inUse) => PaAll(c.p, [inUse EXCEPT ![s] = FALSE])
        BY <1>1, PaCloseIs, Zenon
      <4>5. PaAll(f.p, b) => PaAll(c.p, [b EXCEPT ![s] = FALSE])
        BY <4>3, PaCloseIs, Zenon
      <4> QED BY <1>1, <3>3, <4>1, <4>2, <4>3, <4>4, <4>5
    <3> QED BY <3>3, <3>4, <3>5, Zenon
  <2> QED BY <2>2, <2>3, <2>4, Zenon
<1>8. ASSUME NEW s \in PaStreams, CloseStream(s)
      PROVE  PaAll(pulse', inUse') /\ inUse' \in [PaStreams -> BOOLEAN]
  <2>1. PICK r \in PulseCloseResults(pulse, s) : pulse' = r.p
    BY <1>8 DEF CloseStream
  <2>2. inUse' = [inUse EXCEPT ![s] = FALSE]
    BY <1>8 DEF CloseStream
  <2>3. PaAll(r.p, [inUse EXCEPT ![s] = FALSE])
    BY <1>1, PaCloseIs, Zenon
  <2> QED BY <1>1, <2>1, <2>2, <2>3
<1>9. ASSUME PulseCheckFds PROVE PaAll(pulse', inUse') /\ inUse' = inUse
  <2> DEFINE m == Head(pulse.pipe)
             t == [pulse EXCEPT !.pipe = Tail(@)]
  <2>1. /\ \E r \in IF m[1] = "avail" THEN OrRecover(PaTransfer(t, m[2]), m[2]) ELSE PaRecover(t, m[2]) :
               pulse' = r.p
        /\ pulse.pipe # << >> /\ inUse' = inUse
    BY <1>9 DEF PulseCheckFds
  <2>2. m \in PaMessages /\ PaBut(t, inUse, m[2]) /\ (m[1] = "avail" => PaReady(t, inUse))
    BY <1>1, <2>1, TakeIs, Zenon
  <2>3. m[2] \in PaStreams
    BY <2>2 DEF PaMessages
  <2> HIDE DEF m, t
  <2>4. CASE m[1] = "avail"
    <3>1. PICK r \in OrRecover(PaTransfer(t, m[2]), m[2]) : pulse' = r.p
      BY <2>1, <2>4
    <3>2. \A o \in PaTransfer(t, m[2]) : PaSettles(o, inUse, m[2])
      BY <2>2, <2>3, <2>4, PaTransferIs
    <3>3. PaRecovered(r, inUse)
      BY <1>1, <2>3, <3>2, OrRecoverSettles
    <3> QED BY <2>1, <3>1, <3>3 DEF PaRecovered
  <2>5. CASE m[1] # "avail"
    <3>1. PICK r \in PaRecover(t, m[2]) : pulse' = r.p
      BY <2>1, <2>5
    <3>2. PaRecovered(r, inUse)
      BY <1>1, <2>2, <2>3, RecoverIs
    <3> QED BY <2>1, <3>1, <3>2 DEF PaRecovered
  <2> QED BY <2>4, <2>5
<1> QED BY <1>1, <1>4, <1>5, <1>6, <1>7, <1>8, <1>9 DEF PulseNext

(* The invariant has the properties of the pulse driver as parts. *)
LEMMA PulseGives == PulseInv => PulseTypeOK /\ FailureIsReported /\ StreamsFollowUse
<1> SUFFICES ASSUME PulseInv PROVE PulseTypeOK /\ FailureIsReported /\ StreamsFollowUse
  OBVIOUS
<1>1. /\ PaTypes(pulse) /\ pulse.started = inUse /\ inUse \in [PaStreams -> BOOLEAN]
      /\ \A s \in PaStreams : PaFollows(pulse, s)
  BY DEF PulseInv, PaAll, PaGood
<1>2. PulseTypeOK
  BY <1>1 DEF PulseTypeOK, PaTypes, PaStates
<1>3. FailureIsReported
  BY <1>1 DEF FailureIsReported, PaReported, PaFollows, PaTold
<1>4. StreamsFollowUse
  BY <1>1, Zenon DEF StreamsFollowUse, PaReported, PaFollows, PaTold
<1> QED BY <1>2, <1>3, <1>4

-----------------------------------------------------------------------------
(* Fast-path updates (rdp5.c, mppc.c) *)

(* What a history, where the next byte goes, and whether all was well may be. *)
History(B) == [hist : [1 .. DICT_SIZE -> B], pos : 0 .. DICT_SIZE, ok : BOOLEAN]

(* The client has what the compressor wrote. *)
HasAll(mine, theirs) == \A i \in 1 .. DICT_SIZE : theirs[i] \in {mine[i], Unwritten}

(* The part of a history that len bytes written at start fill. *)
InPart(i, start, len) == i > start /\ i <= start + len

(* f is what a match at k copies to p + 1 and behind in history h.            *)
CopyOf(f, h, p, k, len) ==
    \A n \in 1 .. len :
        f[n] = IF k < p /\ k + n > p THEN f[k + n - p] ELSE h[k + n]

(* e is d with f written to it. *)
Wrote(e, d, f, len) ==
    /\ e.hist = [i \in 1 .. DICT_SIZE |-> e.hist[i]]
    /\ \A n \in 1 .. len : e.hist[d.pos + n] = f[n]
    /\ \A i \in 1 .. DICT_SIZE : ~InPart(i, d.pos, len) => e.hist[i] = d.hist[i]
    /\ e.pos = d.pos + len /\ e.ok = d.ok
    /\ e = [hist |-> e.hist, pos |-> e.pos, ok |-> e.ok]

(* What a copy writes is where it was, or one of the bytes it wrote before;   *)
(* the rest stays. *)
LEMMA CopiedIs ==
    ASSUME NEW B, NEW d \in History(B), NEW k \in Nat, NEW len \in Nat,
           d.pos + len <= DICT_SIZE, k + len <= DICT_SIZE
    PROVE  \E f : /\ CopyOf(f, d.hist, d.pos, k, len)
                  /\ Wrote(Copied(d, k, len), d, f, len)
<1> DEFINE f == CHOOSE g : g = [n \in 1 .. len |->
                                    IF k < d.pos /\ k + n > d.pos
                                    THEN g[k + n - d.pos] ELSE d.hist[k + n]]
           h == [i \in 1 .. DICT_SIZE |->
                    IF i > d.pos /\ i <= d.pos + len THEN f[i - d.pos] ELSE d.hist[i]]
           e == Copied(d, k, len)
<1>1. d.pos \in Nat /\ DICT_SIZE \in Nat
  BY FastPathConstants DEF History
<1>2. d = [hist |-> d.hist, pos |-> d.pos, ok |-> d.ok]
  BY DEF History
<1>3. e = [d EXCEPT !.hist = h, !.pos = @ + len]
  BY DEF Copied
<1>4. f = [n \in 1 .. len |-> IF k < d.pos /\ k + n > d.pos
                              THEN f[k + n - d.pos] ELSE d.hist[k + n]]
  <2> HIDE DEF h, e
  <2> DEFINE Byte(g, n) == IF k < d.pos /\ k + n > d.pos
                           THEN g[k + n - d.pos] ELSE d.hist[k + n]
             S == {m \in Nat : \E g : g = [n \in 1 .. m |-> Byte(g, n)]}
  <2>1. 0 \in S
    <3> DEFINE g == [n \in 1 .. 0 |-> d]
    <3>1. g = [n \in 1 .. 0 |-> Byte(g, n)]
      OBVIOUS
    <3> QED BY <3>1, Zenon
  <2>2. ASSUME NEW m \in Nat, m \in S PROVE m + 1 \in S
    <3>1. PICK g : g = [n \in 1 .. m |-> Byte(g, n)]
      BY <2>2
    <3> DEFINE w == [n \in 1 .. m + 1 |-> IF n = m + 1 THEN Byte(g, n) ELSE g[n]]
    <3>2. ASSUME NEW n \in 1 .. m + 1 PROVE w[n] = Byte(w, n)
      <4>1. n # m + 1 => g[n] = Byte(g, n)
        <5>1. n # m + 1 => n \in 1 .. m
          BY <2>2
        <5> HIDE DEF Byte
        <5> QED BY <3>1, <5>1, Zenon
      <4>2. CASE k < d.pos /\ k + n > d.pos
        <5>1. k + n - d.pos \in 1 .. m + 1 /\ k + n - d.pos # m + 1
          BY <1>1, <4>2
        <5>2. Byte(w, n) = Byte(g, n)
          BY <4>2, <5>1
        <5> QED BY <4>1, <5>2
      <4>3. CASE ~(k < d.pos /\ k + n > d.pos)
        <5>1. Byte(w, n) = d.hist[k + n] /\ Byte(g, n) = d.hist[k + n]
          BY <4>3
        <5> QED BY <4>1, <5>1
      <4> QED BY <4>2, <4>3
    <3>3. w = [n \in 1 .. m + 1 |-> w[n]]
      OBVIOUS
    <3> HIDE DEF w
    <3>4. w = [n \in 1 .. m + 1 |-> Byte(w, n)]
      BY <3>2, <3>3
    <3> QED BY <3>4
  <2> HIDE DEF S
  <2>3. len \in S
    BY <2>1, <2>2, Induct
  <2>4. \E g : g = [n \in 1 .. len |-> Byte(g, n)]
    BY <2>3 DEF S
  <2> QED BY <2>4, Zenon
<1> HIDE DEF f
<1>5. \A n \in 1 .. len : f[n] = IF k < d.pos /\ k + n > d.pos
                                 THEN f[k + n - d.pos] ELSE d.hist[k + n]
  BY <1>4, Zenon
<1> HIDE DEF e
<1>6. /\ e.hist = h /\ e.pos = d.pos + len /\ e.ok = d.ok
      /\ e = [hist |-> e.hist, pos |-> e.pos, ok |-> e.ok]
  <2> HIDE DEF h
  <2> QED BY <1>2, <1>3, Zenon
<1>7. ASSUME NEW n \in 1 .. len PROVE h[d.pos + n] = f[n]
  <2>1. d.pos + n \in 1 .. DICT_SIZE /\ d.pos + n - d.pos = n
    BY <1>1
  <2> QED BY <1>1, <2>1
<1>8. ASSUME NEW i \in 1 .. DICT_SIZE, ~InPart(i, d.pos, len) PROVE h[i] = d.hist[i]
  BY <1>8 DEF InPart
<1>9. DOMAIN h = 1 .. DICT_SIZE /\ h = [i \in 1 .. DICT_SIZE |-> h[i]]
  OBVIOUS
<1> HIDE DEF h
<1>10. Wrote(e, d, f, len)
  BY <1>6, <1>7, <1>8, <1>9 DEF Wrote
<1>11. CopyOf(f, d.hist, d.pos, k, len)
  BY <1>5 DEF CopyOf
<1> QED BY <1>10, <1>11 DEF e

(* Two copies of the same bytes in two histories: what holds of every pair of *)
(* bytes before holds of the copies. *)
LEMMA CopyKeeps ==
    ASSUME NEW R, NEW p \in Nat, NEW k \in Nat, NEW len \in Nat,
           k + len <= DICT_SIZE, NEW g, NEW h, NEW f, NEW q,
           \A i \in 1 .. DICT_SIZE : <<g[i], h[i]>> \in R,
           CopyOf(f, g, p, k, len), CopyOf(q, h, p, k, len)
    PROVE  \A n \in 1 .. len : <<f[n], q[n]>> \in R
<1> DEFINE T == {n \in 1 .. len : <<f[n], q[n]>> \notin R}
<1> SUFFICES ASSUME T # {} PROVE FALSE
  OBVIOUS
<1>1. T \in SUBSET Nat
  OBVIOUS
<1>2. PICK n \in T : \A m \in T : n <= m
  BY <1>1, LeastNumber, Zenon
<1>3. n \in 1 .. len /\ <<f[n], q[n]>> \notin R
  BY <1>2
<1>4. CASE k < p /\ k + n > p
  <2> DEFINE m == k + n - p
  <2>1. m \in 1 .. len /\ m < n
    BY <1>3, <1>4
  <2>2. f[n] = f[m] /\ q[n] = q[m]
    BY <1>3, <1>4 DEF CopyOf
  <2> HIDE DEF m
  <2>3. m \in T
    BY <1>3, <2>1, <2>2
  <2> QED BY <1>2, <1>3, <2>1, <2>3
<1>5. CASE ~(k < p /\ k + n > p)
  <2>1. k + n \in 1 .. DICT_SIZE
    BY <1>3, FastPathConstants
  <2>2. f[n] = g[k + n] /\ q[n] = h[k + n]
    BY <1>3, <1>5 DEF CopyOf
  <2> QED BY <1>3, <2>1, <2>2
<1> QED BY <1>4, <1>5

(* A source that a match may name stands in the history. *)
LEMMA SourceIs ==
    ASSUME NEW p \in 0 .. DICT_SIZE, NEW off \in 0 .. DICT_SIZE
    PROVE  (p + DICT_SIZE - off) % DICT_SIZE \in 0 .. DICT_SIZE - 1
<1>1. DICT_SIZE \in Nat \ {0} /\ p + DICT_SIZE - off \in Nat
  BY FastPathConstants
<1> DEFINE q == p + DICT_SIZE - off
<1> HIDE DEF q
<1>2. q \in Nat => q % DICT_SIZE \in 0 .. DICT_SIZE - 1
  BY <1>1
<1> QED BY <1>1, <1>2 DEF q

(* A match that fits writes its part of the history, whatever it is.          *)
LEMMA MatchIs ==
    ASSUME NEW B, NEW d \in History(B), NEW off \in 0 .. DICT_SIZE, NEW len \in Nat
    PROVE  LET e == Match(d, off, len)
           IN  /\ e \in History(B) /\ d.pos <= e.pos
               /\ e.ok = TRUE =>
                      /\ d.ok = TRUE /\ e.pos = d.pos + len
                      /\ \A i \in 1 .. DICT_SIZE :
                             ~InPart(i, d.pos, len) => e.hist[i] = d.hist[i]
<1> DEFINE k == (d.pos + DICT_SIZE - off) % DICT_SIZE
           e == Match(d, off, len)
           fails == ~d.ok \/ d.pos + len >= DICT_SIZE \/ k + len > DICT_SIZE
<1>1. /\ d.pos \in 0 .. DICT_SIZE /\ d.ok \in BOOLEAN /\ d.hist \in [1 .. DICT_SIZE -> B]
      /\ d = [hist |-> d.hist, pos |-> d.pos, ok |-> d.ok]
  BY DEF History
<1>2. k \in 0 .. DICT_SIZE - 1 /\ DICT_SIZE \in Nat \ {0}
  BY <1>1, SourceIs, FastPathConstants
<1>3. /\ fails => e = [d EXCEPT !.ok = FALSE]
      /\ ~fails => e = Copied(d, k, len)
  BY DEF Match
<1> HIDE DEF e, k
<1>4. CASE fails
  <2>1. e = [d EXCEPT !.ok = FALSE]
    BY <1>3, <1>4
  <2> HIDE DEF fails
  <2>2. e.hist = d.hist /\ e.pos = d.pos /\ e.ok = FALSE
        /\ e = [hist |-> e.hist, pos |-> e.pos, ok |-> e.ok]
    BY <1>1, <2>1, Zenon
  <2>3. d.pos <= e.pos /\ e.pos \in 0 .. DICT_SIZE
    BY <1>1, <2>2
  <2>4. e \in History(B)
    BY <1>1, <2>2, <2>3, Zenon DEF History
  <2> QED BY <2>2, <2>3, <2>4 DEF e
<1>5. CASE ~fails
  <2>1. e = Copied(d, k, len)
    BY <1>3, <1>5
  <2>2. d.ok = TRUE
    BY <1>1, <1>5
  <2>3. d.pos + len < DICT_SIZE /\ k + len <= DICT_SIZE
    <3>1. ~(d.pos + len >= DICT_SIZE) /\ ~(k + len > DICT_SIZE)
      BY <1>5
    <3> QED BY <1>1, <1>2, <3>1
  <2> HIDE DEF fails
  <2>4. k \in Nat /\ d.pos + len <= DICT_SIZE
    BY <1>1, <1>2, <2>3
  <2>5. PICK f : CopyOf(f, d.hist, d.pos, k, len) /\ Wrote(e, d, f, len)
    BY <2>1, <2>3, <2>4, CopiedIs
  <2>6. \A n \in 1 .. len : <<f[n], f[n]>> \in B \X B
    <3> DEFINE R == B \X B
    <3>1. \A i \in 1 .. DICT_SIZE : <<d.hist[i], d.hist[i]>> \in R
      BY <1>1, Zenon
    <3> DEFINE p == d.pos
               g == d.hist
    <3>2. p \in Nat /\ CopyOf(f, g, p, k, len) /\ k + len <= DICT_SIZE /\ k \in Nat
      BY <1>1, <2>3, <2>4, <2>5
    <3>3. \A i \in 1 .. DICT_SIZE : <<g[i], g[i]>> \in R
      BY <3>1
    <3> HIDE DEF R, p, g
    <3>4. \A n \in 1 .. len : <<f[n], f[n]>> \in R
      BY <3>2, <3>3, CopyKeeps, Zenon
    <3> QED BY <3>4 DEF R
  <2>7. ASSUME NEW i \in 1 .. DICT_SIZE PROVE e.hist[i] \in B
    <3>1. CASE InPart(i, d.pos, len)
      <4> DEFINE n == i - d.pos
      <4>1. n \in 1 .. len /\ d.pos + n = i
        BY <1>1, <3>1 DEF InPart
      <4> HIDE DEF n
      <4> QED BY <2>5, <2>6, <4>1, Zenon DEF Wrote
    <3>2. CASE ~InPart(i, d.pos, len)
      BY <1>1, <2>5, <3>2, Zenon DEF Wrote
    <3> QED BY <3>1, <3>2
  <2>8. e.hist \in [1 .. DICT_SIZE -> B]
    BY <2>5, <2>7 DEF Wrote
  <2>9. e.pos \in 0 .. DICT_SIZE /\ d.pos <= e.pos
    BY <1>1, <1>2, <2>3, <2>5 DEF Wrote
  <2>10. e.ok \in BOOLEAN
    BY <2>2, <2>5, Zenon DEF Wrote
  <2>11. e \in History(B)
    BY <2>5, <2>8, <2>9, <2>10 DEF History, Wrote
  <2> QED BY <2>2, <2>5, <2>9, <2>11 DEF e, Wrote
<1> QED BY <1>4, <1>5, Zenon

(* A match that the compressor may use gives the client the same bytes, in a  *)
(* history that has all of the compressor's.                                  *)
LEMMA MatchAgrees ==
    ASSUME NEW d \in History(Bytes \cup {Unwritten}), NEW c \in History(Bytes),
           c.pos = d.pos, c.ok = TRUE, HasAll(c.hist, d.hist),
           NEW off \in 0 .. DICT_SIZE, NEW len \in Nat, Match(d, off, len).ok = TRUE
    PROVE  /\ Match(c, off, len).ok = TRUE
           /\ HasAll(Match(c, off, len).hist, Match(d, off, len).hist)
<1> DEFINE p == d.pos
           k == (p + DICT_SIZE - off) % DICT_SIZE
           R == {r \in Bytes \X (Bytes \cup {Unwritten}) : r[2] \in {r[1], Unwritten}}
           fits == d.pos + len < DICT_SIZE /\ k + len <= DICT_SIZE
<1>1. /\ p \in 0 .. DICT_SIZE /\ d.ok \in BOOLEAN
      /\ d.hist \in [1 .. DICT_SIZE -> Bytes \cup {Unwritten}]
      /\ c.hist \in [1 .. DICT_SIZE -> Bytes]
      /\ d = [hist |-> d.hist, pos |-> d.pos, ok |-> d.ok]
  BY DEF History
<1>2. k \in 0 .. DICT_SIZE - 1 /\ DICT_SIZE \in Nat \ {0}
  BY <1>1, SourceIs, FastPathConstants
<1>3. ~(~d.ok \/ d.pos + len >= DICT_SIZE \/ k + len > DICT_SIZE)
  <2> SUFFICES ASSUME ~d.ok \/ d.pos + len >= DICT_SIZE \/ k + len > DICT_SIZE
               PROVE  FALSE
    OBVIOUS
  <2>1. Match(d, off, len) = [d EXCEPT !.ok = FALSE]
    BY DEF Match
  <2>2. Match(d, off, len).ok = FALSE
    BY <1>1, <2>1
  <2> QED BY <2>2
<1>4. p + len < DICT_SIZE /\ k + len <= DICT_SIZE
  <2>1. ~(d.pos + len >= DICT_SIZE) /\ ~(k + len > DICT_SIZE)
    BY <1>3
  <2> HIDE DEF k
  <2> QED BY <1>1, <1>2, <2>1
<1>5. Match(d, off, len) = Copied(d, k, len)
  BY <1>3 DEF Match
<1>6. Match(c, off, len) = Copied(c, k, len)
  <2>1. ~(~c.ok \/ c.pos + len >= DICT_SIZE \/ k + len > DICT_SIZE)
    BY <1>3
  <2>2. k = (c.pos + DICT_SIZE - off) % DICT_SIZE
    OBVIOUS
  <2> HIDE DEF k
  <2> QED BY <2>1, <2>2 DEF Match
<1> HIDE DEF k
<1>7. k \in Nat /\ p \in Nat /\ p + len <= DICT_SIZE
  BY <1>1, <1>2, <1>4
<1> DEFINE e == Copied(d, k, len)
           x == Copied(c, k, len)
<1>8. PICK f : CopyOf(f, d.hist, p, k, len) /\ Wrote(e, d, f, len)
  BY <1>4, <1>7, CopiedIs, Zenon
<1>9. PICK q : CopyOf(q, c.hist, p, k, len) /\ Wrote(x, c, q, len)
  BY <1>4, <1>7, CopiedIs, Zenon
<1>10. c.pos = p /\ d.pos = p
  OBVIOUS
<1> HIDE DEF e, x, p
<1>11. \A i \in 1 .. DICT_SIZE : <<c.hist[i], d.hist[i]>> \in R
  BY <1>1, Zenon DEF HasAll
<1>12. \A n \in 1 .. len : <<q[n], f[n]>> \in R
  <2> HIDE DEF R
  <2> QED BY <1>4, <1>7, <1>8, <1>9, <1>11, CopyKeeps, Zenon
<1>13. ASSUME NEW i \in 1 .. DICT_SIZE PROVE e.hist[i] \in {x.hist[i], Unwritten}
  <2>1. CASE InPart(i, p, len)
    <3> DEFINE n == i - p
    <3>1. n \in 1 .. len /\ p + n = i
      BY <1>7, <2>1 DEF InPart
    <3> HIDE DEF n
    <3>2. f[n] \in {q[n], Unwritten}
      BY <1>12, <3>1, Zenon
    <3> QED BY <1>8, <1>9, <1>10, <3>1, <3>2 DEF Wrote
  <2>2. CASE ~InPart(i, p, len)
    BY <1>8, <1>9, <1>10, <2>2 DEF HasAll, Wrote
  <2> QED BY <2>1, <2>2
<1>14. x.ok = TRUE
  BY <1>9 DEF Wrote
<1> QED BY <1>5, <1>6, <1>13, <1>14 DEF HasAll, e, x

(* A literal is the next byte of the history, if there is room for one.       *)
LEMMA LiteralIs ==
    ASSUME NEW d \in History(Bytes), NEW b \in Bytes
    PROVE  LET e == Literal(d, b)
           IN  /\ e \in History(Bytes) /\ d.pos <= e.pos
               /\ d.ok = TRUE /\ d.pos < DICT_SIZE =>
                      /\ e.ok = TRUE /\ e.pos = d.pos + 1 /\ e.hist[d.pos + 1] = b
                      /\ \A i \in 1 .. DICT_SIZE : i # d.pos + 1 => e.hist[i] = d.hist[i]
<1> DEFINE e == Literal(d, b)
           fails == ~d.ok \/ d.pos >= DICT_SIZE
<1>1. /\ d.pos \in 0 .. DICT_SIZE /\ d.ok \in BOOLEAN /\ d.hist \in [1 .. DICT_SIZE -> Bytes]
      /\ d = [hist |-> d.hist, pos |-> d.pos, ok |-> d.ok]
  BY DEF History
<1>2. DICT_SIZE \in Nat
  BY FastPathConstants
<1>3. /\ fails => e = [d EXCEPT !.ok = FALSE]
      /\ ~fails => e = [d EXCEPT !.hist[d.pos + 1] = b, !.pos = @ + 1]
  BY DEF Literal
<1> HIDE DEF e
<1>4. CASE fails
  <2>1. e = [d EXCEPT !.ok = FALSE]
    BY <1>3, <1>4
  <2>2. ~(d.ok = TRUE /\ d.pos < DICT_SIZE)
    <3>1. d.pos >= DICT_SIZE => ~(d.pos < DICT_SIZE)
      BY <1>1, <1>2
    <3> QED BY <1>4, <3>1
  <2> HIDE DEF fails
  <2>3. /\ e.hist = d.hist /\ e.pos = d.pos /\ e.ok = FALSE
        /\ e = [hist |-> e.hist, pos |-> e.pos, ok |-> e.ok]
    BY <1>1, <2>1, Zenon
  <2>4. d.pos <= e.pos
    BY <1>1, <1>2, <2>3
  <2>5. e \in History(Bytes)
    BY <1>1, <2>3, Zenon DEF History
  <2> QED BY <2>2, <2>4, <2>5 DEF e
<1>5. CASE ~fails
  <2>1. e = [d EXCEPT !.hist[d.pos + 1] = b, !.pos = @ + 1]
    BY <1>3, <1>5
  <2>2. d.ok = TRUE
    BY <1>1, <1>5
  <2>3. d.pos + 1 \in 1 .. DICT_SIZE
    BY <1>1, <1>2, <1>5
  <2> HIDE DEF fails
  <2>4. /\ e.hist = [d.hist EXCEPT ![d.pos + 1] = b] /\ e.pos = d.pos + 1 /\ e.ok = d.ok
        /\ e = [hist |-> e.hist, pos |-> e.pos, ok |-> e.ok]
    BY <1>1, <2>1, Zenon
  <2>5. /\ e.hist \in [1 .. DICT_SIZE -> Bytes] /\ e.hist[d.pos + 1] = b
        /\ \A i \in 1 .. DICT_SIZE : i # d.pos + 1 => e.hist[i] = d.hist[i]
    BY <1>1, <2>3, <2>4, Zenon
  <2>6. e.pos \in 0 .. DICT_SIZE /\ d.pos <= e.pos
    BY <1>1, <1>2, <2>3, <2>4
  <2>7. e \in History(Bytes)
    BY <1>1, <2>4, <2>5, <2>6, Zenon DEF History
  <2> QED BY <2>2, <2>4, <2>5, <2>6, <2>7 DEF e
<1> QED BY <1>4, <1>5, Zenon

(* What mppc_expand reads from the bits. *)
Tokens == [len : Nat, off : 0 .. DICT_SIZE, byte : Bytes]

(* A token moves on in the history, or fails. *)
LEMMA TokenIs ==
    ASSUME NEW d \in History(Bytes), NEW t \in Tokens
    PROVE  Token(d, t) \in History(Bytes) /\ d.pos <= Token(d, t).pos
<1>1. t.len \in Nat /\ t.off \in 0 .. DICT_SIZE /\ t.byte \in Bytes
  BY DEF Tokens
<1>2. CASE t.len = 0
  <2>1. Token(d, t) = Literal(d, t.byte)
    BY <1>2 DEF Token
  <2> QED BY <1>1, <2>1, LiteralIs, Zenon
<1>3. CASE t.len # 0
  <2>1. Token(d, t) = Match(d, t.off, t.len)
    BY <1>3 DEF Token
  <2> DEFINE o == t.off
             l == t.len
             B == Bytes
  <2>2. o \in 0 .. DICT_SIZE /\ l \in Nat /\ d \in History(B)
    BY <1>1
  <2> HIDE DEF o, l, B
  <2>3. Match(d, o, l) \in History(B) /\ d.pos <= Match(d, o, l).pos
    BY <2>2, MatchIs
  <2> QED BY <2>1, <2>3 DEF o, l, B
<1> QED BY <1>2, <1>3

(* What running an expansion's tokens goes through, one history a token. *)
IsTrail(f, d, tokens, N) ==
    f = [n \in 0 .. N |-> IF n = 0 THEN d ELSE Token(f[n - 1], tokens[n])]

(* The function by which Expanded is defined exists.                          *)
LEMMA ExpansionExists ==
    ASSUME NEW d, NEW tokens, NEW N \in Nat
    PROVE  \E f : IsTrail(f, d, tokens, N)
<1> DEFINE Step(f, n) == IF n = 0 THEN d ELSE Token(f[n - 1], tokens[n])
           S == {n \in Nat : \E f : IsTrail(f, d, tokens, n)}
<1>1. 0 \in S
  <2> DEFINE f == [k \in 0 .. 0 |-> d]
  <2>1. f = [k \in 0 .. 0 |-> Step(f, k)]
    OBVIOUS
  <2>2. IsTrail(f, d, tokens, 0)
    BY <2>1 DEF IsTrail
  <2> QED BY <2>2
<1>2. ASSUME NEW n \in Nat, n \in S PROVE n + 1 \in S
  <2>a. PICK f : IsTrail(f, d, tokens, n)
    BY <1>2
  <2>1. f = [k \in 0 .. n |-> Step(f, k)]
    BY <2>a DEF IsTrail
  <2> DEFINE g == [k \in 0 .. n + 1 |-> IF k = n + 1 THEN Token(f[n], tokens[n + 1]) ELSE f[k]]
  <2>2. ASSUME NEW k \in 0 .. n + 1 PROVE g[k] = Step(g, k)
    <3>1. CASE k = n + 1
      <4>1. k - 1 = n /\ k # 0 /\ n \in 0 .. n + 1 /\ n # n + 1
        BY <3>1
      <4>2. g[k - 1] = f[n]
        BY <4>1
      <4> QED BY <3>1, <4>1, <4>2
    <3>2. CASE k # n + 1
      <4>1. k \in 0 .. n /\ (k # 0 => k - 1 \in 0 .. n)
        BY <3>2
      <4>2. g[k] = f[k] /\ (k # 0 => g[k - 1] = f[k - 1])
        BY <3>2, <4>1
      <4>3. f[k] = Step(f, k)
        BY <2>1, <4>1
      <4> QED BY <4>2, <4>3
    <3> QED BY <3>1, <3>2
  <2>3. g = [k \in 0 .. n + 1 |-> g[k]]
    OBVIOUS
  <2> HIDE DEF g
  <2>4. g = [k \in 0 .. n + 1 |-> Step(g, k)]
    BY <2>2, <2>3, Zenon
  <2>5. IsTrail(g, d, tokens, n + 1)
    BY <2>4 DEF IsTrail
  <2> QED BY <2>5
<1> HIDE DEF S
<1>3. N \in S
  BY <1>1, <1>2, Induct
<1> QED BY <1>3 DEF S

(* An expansion goes from token to token. *)
LEMMA ExpandedIs ==
    ASSUME NEW d, NEW tokens, Len(tokens) \in Nat
    PROVE  \E f : /\ f[0] = d /\ Expanded(d, tokens) = f[Len(tokens)]
                  /\ \A n \in 1 .. Len(tokens) : f[n] = Token(f[n - 1], tokens[n])
<1> DEFINE f == CHOOSE g : g = [n \in 0 .. Len(tokens) |->
                                    IF n = 0 THEN d ELSE Token(g[n - 1], tokens[n])]
<1>1. Expanded(d, tokens) = f[Len(tokens)]
  BY DEF Expanded
<1>2. f = [n \in 0 .. Len(tokens) |-> IF n = 0 THEN d ELSE Token(f[n - 1], tokens[n])]
  <2>1. \E g : IsTrail(g, d, tokens, Len(tokens))
    BY ExpansionExists, Zenon
  <2>2. f = CHOOSE g : IsTrail(g, d, tokens, Len(tokens))
    BY DEF IsTrail
  <2> HIDE DEF f
  <2>3. IsTrail(f, d, tokens, Len(tokens))
    BY <2>1, <2>2
  <2> QED BY <2>3, Zenon DEF IsTrail
<1> HIDE DEF f
<1>3. f[0] = d
  BY <1>2
<1>4. ASSUME NEW n \in 1 .. Len(tokens) PROVE f[n] = Token(f[n - 1], tokens[n])
  <2>1. n \in 0 .. Len(tokens) /\ n # 0
    OBVIOUS
  <2> QED BY <1>2, <2>1
<1> QED BY <1>1, <1>3, <1>4

(* Whatever the tokens are, what comes out is a history that went on.         *)
LEMMA ExpandedTyped ==
    ASSUME NEW d \in History(Bytes), NEW tokens \in Seq(Tokens)
    PROVE  Expanded(d, tokens) \in History(Bytes) /\ d.pos <= Expanded(d, tokens).pos
<1>1. Len(tokens) \in Nat /\ \A n \in 1 .. Len(tokens) : tokens[n] \in Tokens
  OBVIOUS
<1>2. PICK f : /\ f[0] = d /\ Expanded(d, tokens) = f[Len(tokens)]
               /\ \A n \in 1 .. Len(tokens) : f[n] = Token(f[n - 1], tokens[n])
  BY <1>1, ExpandedIs
<1> DEFINE S == {n \in Nat : n <= Len(tokens) => f[n] \in History(Bytes) /\ d.pos <= f[n].pos}
<1>3. d.pos \in Nat
  BY FastPathConstants DEF History
<1>4. 0 \in S
  BY <1>2, <1>3
<1>5. ASSUME NEW n \in Nat, n \in S PROVE n + 1 \in S
  <2> SUFFICES ASSUME n + 1 <= Len(tokens)
               PROVE  f[n + 1] \in History(Bytes) /\ d.pos <= f[n + 1].pos
    OBVIOUS
  <2> DEFINE k == n + 1
  <2>1. k \in 1 .. Len(tokens) /\ k - 1 = n /\ n <= Len(tokens)
    BY <1>1
  <2> HIDE DEF k
  <2>2. f[k] = Token(f[n], tokens[k])
    BY <1>2, <2>1
  <2>3. f[n] \in History(Bytes) /\ d.pos <= f[n].pos
    BY <1>5, <2>1
  <2> DEFINE c == f[n]
             e == f[k]
  <2>4. e \in History(Bytes) /\ c.pos <= e.pos
    BY <1>1, <2>1, <2>2, <2>3, TokenIs, Zenon
  <2> HIDE DEF c, e
  <2>5. c \in History(Bytes) /\ d.pos <= c.pos
    BY <2>3 DEF c
  <2>6. c.pos \in Nat /\ e.pos \in Nat
    BY <2>4, <2>5, FastPathConstants DEF History
  <2>7. d.pos <= e.pos
    BY <1>3, <2>4, <2>5, <2>6
  <2> QED BY <2>4, <2>7 DEF e, k
<1> HIDE DEF S
<1>6. Len(tokens) \in S
  BY <1>1, <1>4, <1>5, Induct
<1> QED BY <1>1, <1>2, <1>6 DEF S

(* Literals come out as they were put in. *)
LEMMA LiteralsExpand ==
    ASSUME NEW d \in History(Bytes), d.ok = TRUE, NEW data \in Seq(Bytes),
           d.pos + Len(data) <= DICT_SIZE
    PROVE  LET e == Expanded(d, AsLiterals(data))
           IN  /\ e \in History(Bytes) /\ e.ok = TRUE /\ e.pos = d.pos + Len(data)
               /\ \A j \in 1 .. Len(data) : e.hist[d.pos + j] = data[j]
               /\ \A i \in 1 .. DICT_SIZE :
                      ~InPart(i, d.pos, Len(data)) => e.hist[i] = d.hist[i]
<1> DEFINE tokens == AsLiterals(data)
           p == d.pos
<1>1. /\ Len(data) \in Nat /\ Len(tokens) = Len(data)
      /\ \A n \in 1 .. Len(data) : tokens[n] = [len |-> 0, off |-> 0, byte |-> data[n]]
      /\ \A n \in 1 .. Len(data) : data[n] \in Bytes
  BY DEF AsLiterals
<1>2. p \in Nat /\ DICT_SIZE \in Nat
  BY FastPathConstants DEF History
<1> HIDE DEF tokens
<1>a. Len(tokens) \in Nat
  BY <1>1
<1>3. PICK f : /\ f[0] = d /\ Expanded(d, tokens) = f[Len(tokens)]
               /\ \A n \in 1 .. Len(tokens) : f[n] = Token(f[n - 1], tokens[n])
  BY <1>a, ExpandedIs
<1> DEFINE Good(n, e) ==
               /\ e \in History(Bytes) /\ e.ok = TRUE /\ e.pos = p + n
               /\ \A j \in 1 .. n : e.hist[p + j] = data[j]
               /\ \A i \in 1 .. DICT_SIZE : ~InPart(i, p, n) => e.hist[i] = d.hist[i]
           S == {n \in Nat : n <= Len(data) => Good(n, f[n])}
<1>4. 0 \in S
  <2>1. Good(0, d)
    BY <1>2
  <2> QED BY <1>3, <2>1
<1>5. ASSUME NEW n \in Nat, n \in S PROVE n + 1 \in S
  <2> HIDE DEF Good
  <2> SUFFICES ASSUME n + 1 <= Len(data) PROVE Good(n + 1, f[n + 1])
    OBVIOUS
  <2> USE DEF Good
  <2> DEFINE k == n + 1
             c == f[n]
             e == f[k]
  <2>1. k \in 1 .. Len(data) /\ k - 1 = n /\ n <= Len(data) /\ k = n + 1
    BY <1>1
  <2>2. Good(n, c)
    BY <1>5, <2>1
  <2>3. e = Token(c, tokens[k])
    BY <1>1, <1>3, <2>1
  <2> HIDE DEF k, c, e
  <2>4. e = Literal(c, data[k])
    <3> DEFINE t == tokens[k]
    <3>1. t.len = 0 /\ t.byte = data[k]
      <4>1. t = [len |-> 0, off |-> 0, byte |-> data[k]]
        BY ONLY <1>1, <2>1
      <4> QED BY ONLY <4>1
    <3> HIDE DEF t
    <3>2. e = Token(c, t)
      BY <2>3 DEF t
    <3> QED BY <3>1, <3>2 DEF Token
  <2>5. c.pos < DICT_SIZE /\ c.pos + 1 = p + k
    BY <1>1, <1>2, <2>1, <2>2
  <2>6. /\ e \in History(Bytes) /\ e.ok = TRUE /\ e.pos = c.pos + 1
        /\ e.hist[c.pos + 1] = data[k]
        /\ \A i \in 1 .. DICT_SIZE : i # c.pos + 1 => e.hist[i] = c.hist[i]
    <3>1. c \in History(Bytes) /\ c.ok = TRUE /\ data[k] \in Bytes
      BY <1>1, <2>1, <2>2
    <3> DEFINE b == data[k]
    <3>2. e = Literal(c, b) /\ b \in Bytes
      BY <2>4, <3>1
    <3> HIDE DEF b
    <3>3. /\ e \in History(Bytes) /\ e.ok = TRUE /\ e.pos = c.pos + 1
          /\ e.hist[c.pos + 1] = b
          /\ \A i \in 1 .. DICT_SIZE : i # c.pos + 1 => e.hist[i] = c.hist[i]
      <4> DEFINE w == Literal(c, b)
      <4>1. c \in History(Bytes) /\ b \in Bytes
        BY <3>1, <3>2
      <4>2. /\ w \in History(Bytes) /\ c.pos <= w.pos
            /\ c.ok = TRUE /\ c.pos < DICT_SIZE =>
                   /\ w.ok = TRUE /\ w.pos = c.pos + 1 /\ w.hist[c.pos + 1] = b
                   /\ \A i \in 1 .. DICT_SIZE : i # c.pos + 1 => w.hist[i] = c.hist[i]
        BY ONLY <4>1, LiteralIs, Zenon
      <4>3. e = w /\ c.ok = TRUE /\ c.pos < DICT_SIZE
        BY <2>5, <3>1, <3>2
      <4> HIDE DEF w
      <4> QED BY <4>2, <4>3
    <3> QED BY <3>3 DEF b
  <2>7. ASSUME NEW j \in 1 .. k PROVE e.hist[p + j] = data[j]
    <3>1. CASE j = k
      BY <2>5, <2>6, <3>1
    <3>2. CASE j # k
      <4>1. j \in 1 .. n /\ p + j \in 1 .. DICT_SIZE /\ p + j # c.pos + 1
        BY <1>1, <1>2, <2>1, <2>5, <3>2
      <4> QED BY <2>2, <2>6, <4>1
    <3> QED BY <3>1, <3>2
  <2>8. ASSUME NEW i \in 1 .. DICT_SIZE, ~InPart(i, p, k) PROVE e.hist[i] = d.hist[i]
    <3>1. i # c.pos + 1 /\ ~InPart(i, p, n)
      BY <1>2, <2>1, <2>5, <2>8 DEF InPart
    <3> QED BY <2>2, <2>6, <3>1
  <2>9. e.pos = p + k
    BY <2>5, <2>6
  <2> QED BY <2>6, <2>7, <2>8, <2>9 DEF k, e
<1> HIDE DEF S
<1>6. Len(data) \in S
  BY <1>1, <1>4, <1>5, Induct
<1>7. Good(Len(data), Expanded(d, tokens))
  BY <1>1, <1>3, <1>6 DEF S
<1> QED BY <1>7 DEF tokens

(* A single match is that match. *)
LEMMA MatchExpands ==
    ASSUME NEW d, NEW len \in Nat \ {0}, NEW off
    PROVE  Expanded(d, AsMatch(len, off)) = Match(d, off, len)
<1> DEFINE tokens == AsMatch(len, off)
<1>1. Len(tokens) = 1 /\ tokens[1] = [len |-> len, off |-> off, byte |-> 0]
  BY DEF AsMatch
<1> HIDE DEF tokens
<1>2. PICK f : /\ f[0] = d /\ Expanded(d, tokens) = f[Len(tokens)]
               /\ \A n \in 1 .. Len(tokens) : f[n] = Token(f[n - 1], tokens[n])
  BY <1>1, ExpandedIs
<1>3. f[1] = Token(d, tokens[1])
  BY <1>1, <1>2
<1>4. Token(d, tokens[1]) = Match(d, off, len)
  BY <1>1 DEF Token
<1> QED BY <1>1, <1>2, <1>3, <1>4 DEF tokens

(* The len bytes of a history from p on. *)
Part(h, p, len) == SubSeq(h, p + 1, p + len)

(* e is c with data behind start. *)
Decoded(e, c, start, data) ==
    /\ e \in History(Bytes) /\ e.ok = TRUE /\ e.pos = start + Len(data)
    /\ \A j \in 1 .. Len(data) : e.hist[start + j] = data[j]
    /\ \A i \in 1 .. DICT_SIZE : ~InPart(i, start, Len(data)) => e.hist[i] = c.hist[i]

(* What a part of a history reads. *)
LEMMA PartRead ==
    ASSUME NEW h, NEW p \in Nat, NEW n \in Nat, p + n <= DICT_SIZE
    PROVE  /\ Len(Part(h, p, n)) = n
           /\ \A j \in 1 .. n : Part(h, p, n)[j] = h[p + j]
           /\ (\A i \in 1 .. DICT_SIZE : h[i] \in Bytes) => Part(h, p, n) \in Seq(Bytes)
<1> DEFINE a == p + 1
           z == p + n
           B == {h[i] : i \in 1 .. DICT_SIZE}
<1>1. DICT_SIZE \in Nat
  BY FastPathConstants
<1>2. a \in Int /\ z \in Int /\ \A i \in a .. z : i \in 1 .. DICT_SIZE
  BY <1>1
<1>3. /\ (IF a <= z THEN z - a + 1 ELSE 0) = n /\ z - a + 1 = n
      /\ \A j \in 1 .. n : a + j - 1 = p + j
  OBVIOUS
<1>4. Part(h, p, n) = SubSeq(h, a, z)
  BY DEF Part
<1> HIDE DEF a, z
<1>5. /\ Len(SubSeq(h, a, z)) = IF a <= z THEN z - a + 1 ELSE 0
      /\ \A j \in 1 .. z - a + 1 : SubSeq(h, a, z)[j] = h[a + j - 1]
  <2>1. \A i \in a .. z : h[i] \in B
    BY <1>2
  <2> HIDE DEF B
  <2> QED BY <1>2, <2>1, SubSeqProperties
<1>6. ASSUME \A i \in 1 .. DICT_SIZE : h[i] \in Bytes
      PROVE  SubSeq(h, a, z) \in Seq(Bytes)
  <2>1. \A i \in a .. z : h[i] \in Bytes
    BY <1>2, <1>6
  <2> QED BY <1>2, <2>1, SubSeqProperties
<1>7. \A j \in 1 .. n : SubSeq(h, a, z)[j] = h[p + j]
  BY <1>3, <1>5, Zenon
<1> QED BY <1>3, <1>4, <1>5, <1>6, <1>7, Zenon

(* The same, a byte at a time.                                                *)
LEMMA PartAt ==
    ASSUME NEW h, NEW p \in Nat, NEW n \in Nat, p + n <= DICT_SIZE, NEW j \in 1 .. n
    PROVE  Part(h, p, n)[j] = h[p + j]
BY PartRead, Zenon

(* A match that fits changes the history where it copies to only.             *)
MatchMoved(e, d, len) ==
    e.ok = TRUE =>
        /\ d.ok = TRUE /\ e.pos = d.pos + len
        /\ \A i \in 1 .. DICT_SIZE : ~InPart(i, d.pos, len) => e.hist[i] = d.hist[i]

LEMMA MatchMoves ==
    ASSUME NEW B, NEW d \in History(B), NEW off \in 0 .. DICT_SIZE, NEW len \in Nat
    PROVE  MatchMoved(Match(d, off, len), d, len)
<1> DEFINE e == Match(d, off, len)
<1>1. e.ok = TRUE =>
          /\ d.ok = TRUE /\ e.pos = d.pos + len
          /\ \A i \in 1 .. DICT_SIZE : ~InPart(i, d.pos, len) => e.hist[i] = d.hist[i]
  BY MatchIs, Zenon
<1> QED BY <1>1, Zenon DEF MatchMoved

(* However the compressor sends data, a history that has all of its own       *)
(* expands it to the same bytes, in the place where the compressor has them.  *)
LEMMA Decodes ==
    ASSUME NEW start \in 0 .. DICT_SIZE,
           NEW from \in [1 .. DICT_SIZE -> Bytes \cup {Unwritten}],
           NEW c \in History(Bytes), c.pos = start, c.ok = TRUE, HasAll(c.hist, from),
           NEW data \in FpPieces, start + Len(data) <= DICT_SIZE,
           NEW tokens \in Encodings(data, start, from)
    PROVE  Decoded(Expanded(c, tokens), c, start, data)
<1> DEFINE len == Len(data)
           d == [hist |-> from, pos |-> start, ok |-> TRUE]
<1>1. data \in Seq(Bytes) /\ len \in Nat \ {0} /\ \A j \in 1 .. len : data[j] \in Bytes
  BY FastPathConstants
<1>2. CASE tokens = AsLiterals(data)
  <2> DEFINE lits == AsLiterals(data)
             e == Expanded(c, lits)
  <2>1. c \in History(Bytes) /\ c.ok = TRUE /\ data \in Seq(Bytes) /\ c.pos + Len(data) <= DICT_SIZE
    BY <1>1
  <2>2. /\ e \in History(Bytes) /\ e.ok = TRUE /\ e.pos = c.pos + Len(data)
        /\ \A j \in 1 .. Len(data) : e.hist[c.pos + j] = data[j]
        /\ \A i \in 1 .. DICT_SIZE : ~InPart(i, c.pos, Len(data)) => e.hist[i] = c.hist[i]
    BY <2>1, LiteralsExpand
  <2> HIDE DEF lits, e
  <2>3. Decoded(e, c, start, data)
    BY <2>2, Zenon DEF Decoded
  <2> QED BY <1>2, <2>3 DEF lits, e
<1>3. CASE tokens # AsLiterals(data)
  <2>1. PICK off \in 1 .. DICT_SIZE :
            /\ tokens = AsMatch(len, off) /\ Match(d, off, len).ok
            /\ SubSeq(Match(d, off, len).hist, start + 1, Match(d, off, len).pos) = data
    BY <1>3, Zenon DEF Encodings
  <2>2. d \in History(Bytes \cup {Unwritten}) /\ d.pos = start /\ d.hist = from
    BY DEF History
  <2> DEFINE m == Match(d, off, len)
             e == Match(c, off, len)
  <2>3. off \in 0 .. DICT_SIZE /\ len \in Nat
    BY <1>1
  <2>4. Expanded(c, tokens) = e
    BY <1>1, <2>1, MatchExpands
  <2> HIDE DEF d, len
  <2>5. m \in History(Bytes \cup {Unwritten})
    BY <2>2, <2>3, MatchIs, Zenon
  <2>6. m.ok = TRUE
    BY <2>1, <2>5 DEF History
  <2>7. m.pos = start + len
    <3>1. m.ok = TRUE =>
              /\ d.ok = TRUE /\ m.pos = d.pos + len
              /\ \A i \in 1 .. DICT_SIZE : ~InPart(i, d.pos, len) => m.hist[i] = d.hist[i]
      <4> DEFINE B == Bytes \cup {Unwritten}
      <4>1. d \in History(B)
        BY <2>2, Zenon
      <4> HIDE DEF B
      <4>2. MatchMoved(m, d, len)
        BY <2>3, <4>1, MatchMoves, Zenon
      <4> HIDE DEF m
      <4> QED BY <4>2, Zenon DEF MatchMoved
    <3> HIDE DEF m
    <3> QED BY <2>2, <2>6, <3>1
  <2>8. e.ok = TRUE /\ HasAll(e.hist, m.hist)
    BY <2>2, <2>3, <2>6, MatchAgrees, Zenon
  <2>9. /\ e \in History(Bytes) /\ e.pos = start + len
        /\ \A i \in 1 .. DICT_SIZE : ~InPart(i, start, len) => e.hist[i] = c.hist[i]
    <3>1. /\ e \in History(Bytes)
          /\ e.ok = TRUE =>
              /\ c.ok = TRUE /\ e.pos = c.pos + len
              /\ \A i \in 1 .. DICT_SIZE : ~InPart(i, c.pos, len) => e.hist[i] = c.hist[i]
      BY <2>3, MatchIs, ZenonT(30)
    <3> HIDE DEF e
    <3> QED BY <2>8, <3>1
  <2>10. Part(m.hist, start, len) = data
    BY <2>1, <2>7 DEF Part
  <2> HIDE DEF m, e
  <2>11. ASSUME NEW j \in 1 .. len PROVE e.hist[start + j] = data[j]
    <3>1. start + len <= DICT_SIZE /\ start \in Nat
      BY DEF len
    <3>2. \A n \in 1 .. len : Part(m.hist, start, len)[n] = m.hist[start + n]
      BY <2>3, <3>1, PartRead
    <3>3. data[j] = m.hist[start + j]
      BY <2>10, <3>2, Zenon
    <3>4. start + j \in 1 .. DICT_SIZE
      BY <2>3, <3>1, FastPathConstants
    <3>5. m.hist[start + j] \in {e.hist[start + j], Unwritten}
      BY <2>8, <3>4 DEF HasAll
    <3>6. data[j] # Unwritten
      <4>1. data[j] \in Bytes
        BY <1>1 DEF len
      <4>2. Unwritten \notin Bytes
        BY DEF Bytes, Unwritten
      <4> QED BY <4>1, <4>2
    <3> QED BY <3>3, <3>5, <3>6
  <2> QED BY <2>4, <2>8, <2>9, <2>11 DEF Decoded, len
<1> QED BY <1>2, <1>3

(* x is what mppc_expand gives for data. *)
Delivered(x, flags, start, data) ==
    /\ x.data = data /\ x.roff = start + Len(data)
    /\ \A j \in 1 .. Len(data) : x.hist[start + j] = data[j]
    /\ \A i \in 1 .. DICT_SIZE :
           ~InPart(i, start, Len(data)) => x.hist[i] = HistoryStart(flags).hist[i]

(* So mppc_expand gives the data that was sent. *)
LEMMA MppcExpands ==
    ASSUME NEW flags, NEW start \in 0 .. DICT_SIZE,
           NEW from \in [1 .. DICT_SIZE -> Bytes \cup {Unwritten}],
           HistoryStart(flags) \in History(Bytes), HistoryStart(flags).pos = start,
           HistoryStart(flags).ok = TRUE, HasAll(HistoryStart(flags).hist, from),
           NEW data \in FpPieces, start + Len(data) <= DICT_SIZE,
           NEW tokens \in Encodings(data, start, from)
    PROVE  Delivered(MppcExpand(tokens, flags), flags, start, data)
<1> DEFINE x == MppcExpand(tokens, flags)
           len == Len(data)
<1>1. data \in Seq(Bytes) /\ len \in Nat
  BY FastPathConstants
<1>2. PICK c : c = HistoryStart(flags)
  OBVIOUS
<1>3. PICK e : e = Expanded(c, tokens)
  OBVIOUS
<1>4. Decoded(e, c, start, data)
  <2>1. c \in History(Bytes) /\ c.pos = start /\ c.ok = TRUE /\ HasAll(c.hist, from)
    BY <1>2
  <2> QED BY <1>3, <2>1, Decodes, Zenon
<1>5. e.ok => /\ x.hist = e.hist /\ x.roff = e.pos
              /\ x.data = SubSeq(e.hist, start + 1, e.pos)
  BY <1>2, <1>3, Zenon DEF MppcExpand
<1> HIDE DEF x, len
<1>6. e.hist \in [1 .. DICT_SIZE -> Bytes] /\ start \in Nat /\ start + len <= DICT_SIZE
  BY <1>4 DEF Decoded, History, len
<1> DEFINE s == Part(e.hist, start, len)
<1>7. s \in Seq(Bytes) /\ Len(s) = len /\ \A j \in 1 .. len : s[j] = e.hist[start + j]
  <2>1. len \in Nat /\ start \in Nat /\ start + len <= DICT_SIZE
    BY <1>1, <1>6
  <2>2. Len(s) = len /\ \A j \in 1 .. len : s[j] = e.hist[start + j]
    <3> HIDE DEF s
    <3>1. PICK h : h = e.hist
      OBVIOUS
    <3>2. Len(Part(h, start, len)) = len
      BY <2>1, PartRead, Zenon
    <3>3. ASSUME NEW j \in 1 .. len PROVE Part(h, start, len)[j] = h[start + j]
      BY <2>1, PartAt
    <3>4. s = Part(h, start, len)
      BY <3>1 DEF s
    <3> QED BY <3>1, <3>2, <3>3, <3>4
  <2>3. \A i \in 1 .. DICT_SIZE : e.hist[i] \in Bytes
    BY <1>6, Zenon
  <2>4. s \in Seq(Bytes)
    BY <2>1, <2>3, PartRead, Zenon
  <2> QED BY <2>2, <2>4
<1> HIDE DEF s
<1>8. s = data
  <2>1. Len(s) = Len(data) /\ \A j \in 1 .. Len(s) : s[j] = data[j]
    BY <1>4, <1>7 DEF Decoded, len
  <2> QED BY <1>1, <1>7, <2>1, SeqEqual
<1>9. x.data = data /\ x.hist = e.hist /\ x.roff = start + len
  BY <1>4, <1>5, <1>8, Zenon DEF Decoded, Part, s, len
<1> QED BY <1>2, <1>4, <1>6, <1>9 DEF Decoded, Delivered, x, len

Fragments == {"single", "first", "next", "last"}
Flags == {"none", "reset", "flush"}

(* The update that the server is sending. *)
FpTyped ==
    /\ FastPathTypeOK /\ processed \in BOOLEAN /\ misread \in BOOLEAN
    /\ update \in [code : FpCodes \cup {0}, frags : 0 .. MaxFragments, sent : Seq(Bytes)]
    /\ update # Idle => update.code \in FpCodes

(* The history has all the bytes the compressor may refer to, at its offset,  *)
(* and the buffer of the update that is being sent has what was sent of it.   *)
FpRead ==
    /\ processed = TRUE
    /\ HasAll(hist, srvHist)
    /\ srvOff < DICT_SIZE => roff = srvOff
    /\ update # Idle => assembled[update.code] = update.sent

FpInv == FpTyped /\ (misread = FALSE => FpRead)

(* At the beginning nothing has been sent. *)
LEMMA FpInitInv == FastPathInit => FpInv
<1> SUFFICES ASSUME FastPathInit PROVE FpInv
  OBVIOUS
<1>1. DICT_SIZE \in Nat \ {0} /\ MaxUpdates \in Nat /\ MaxFragments \in Nat
  BY FastPathConstants
<1>2. Idle \in [code : FpCodes \cup {0}, frags : 0 .. MaxFragments, sent : Seq(Bytes)]
  BY <1>1 DEF Idle
<1>3. /\ Cleared \in [1 .. DICT_SIZE -> Bytes] /\ HasAll(Cleared, Unknown)
      /\ Unknown \in [1 .. DICT_SIZE -> Bytes \cup {Unwritten}]
  BY DEF Cleared, Unknown, HasAll, Bytes
<1>4. assembled \in [FpCodes -> Seq(Bytes)]
  BY DEF FastPathInit
<1>5. update.code \in FpCodes \cup {0} /\ update.frags \in 0 .. MaxFragments /\ update.sent \in Seq(Bytes)
  BY <1>2 DEF FastPathInit
<1>6. FastPathTypeOK
  BY <1>1, <1>3, <1>4, <1>5 DEF FastPathTypeOK, FastPathInit
<1>7. FpTyped
  BY <1>2, <1>6, Zenon DEF FpTyped, FastPathInit
<1>8. FpRead
  BY <1>1, <1>3 DEF FpRead, FastPathInit
<1> QED BY <1>7, <1>8 DEF FpInv

(* What the server does with each fragment. *)
LEMMA ContinueIs ==
    ASSUME FpTyped, NEW code \in FpCodes, NEW frag \in Fragments, NEW data \in Seq(Bytes),
           Continue(code, frag, data)
    PROVE  /\ frag \in {"single", "first"} => update = Idle
           /\ frag \in {"next", "last"} => update # Idle /\ update.code = code
           /\ frag \in {"single", "last"} => update' = Idle
           /\ frag \in {"first", "next"} =>
                  update'.code = code /\ update'.sent = update.sent \o data
           /\ update' \in [code : FpCodes \cup {0}, frags : 0 .. MaxFragments,
                           sent : Seq(Bytes)]
           /\ update' # Idle => update'.code \in FpCodes
           /\ nUpdates' \in 0 .. MaxUpdates
<1>1. /\ MaxUpdates \in Nat /\ MaxFragments \in Nat \ {0}
      /\ nUpdates \in 0 .. MaxUpdates /\ update.frags \in 0 .. MaxFragments
      /\ update.sent \in Seq(Bytes)
  BY FastPathConstants DEF FpTyped, FastPathTypeOK
<1>2. Idle \in [code : FpCodes \cup {0}, frags : 0 .. MaxFragments, sent : Seq(Bytes)]
      /\ Idle.frags = 0
  BY <1>1 DEF Idle
<1>3. /\ frag \in {"single", "first"} =>
             update = Idle /\ nUpdates < MaxUpdates /\ nUpdates' = nUpdates + 1
      /\ frag \in {"next", "last"} =>
             update # Idle /\ update.code = code /\ nUpdates' = nUpdates
      /\ frag = "next" => update.frags < MaxFragments - 1
      /\ frag \in {"single", "last"} => update' = Idle
      /\ frag \in {"first", "next"} =>
             update' = [code |-> code, frags |-> update.frags + 1,
                        sent |-> update.sent \o data]
  BY DEF Continue, Fragments
<1>4. nUpdates' \in 0 .. MaxUpdates
  BY <1>1, <1>3 DEF Fragments
<1>5. CASE frag \in {"single", "last"}
  BY <1>2, <1>3, <1>4, <1>5
<1>6. CASE frag \in {"first", "next"}
  <2>1. update.frags + 1 \in 0 .. MaxFragments
    <3>1. CASE frag = "first"
      BY <1>1, <1>2, <1>3, <3>1
    <3>2. CASE frag = "next"
      BY <1>1, <1>3, <3>2
    <3> QED BY <1>6, <3>1, <3>2
  <2>2. update.sent \o data \in Seq(Bytes)
    BY <1>1
  <2>3. /\ update'.code = code /\ update'.sent = update.sent \o data
        /\ update' \in [code : FpCodes \cup {0}, frags : 0 .. MaxFragments,
                        sent : Seq(Bytes)]
    <3>1. update' = [code |-> code, frags |-> update.frags + 1,
                     sent |-> update.sent \o data]
      BY <1>3, <1>6
    <3>2. code \in FpCodes \cup {0}
      OBVIOUS
    <3> QED BY <2>1, <2>2, <3>1, <3>2
  <2> QED BY <1>3, <1>4, <1>6, <2>3
<1> QED BY <1>5, <1>6 DEF Fragments

(* What is done with the data of a fragment. *)
LEMMA FpUpdateIs ==
    ASSUME FpTyped, NEW code \in FpCodes, NEW frag \in Fragments, NEW data \in Seq(Bytes),
           NEW x \in Seq(Bytes), Continue(code, frag, data),
           FpUpdate(code, frag, x, update.sent \o data)
    PROVE  /\ assembled' \in [FpCodes -> Seq(Bytes)] /\ processed' \in BOOLEAN
           /\ x = data /\ (update # Idle => assembled[update.code] = update.sent) =>
                  /\ processed' = TRUE
                  /\ update' # Idle => assembled'[update'.code] = update'.sent
<1>1. assembled \in [FpCodes -> Seq(Bytes)]
  BY DEF FpTyped, FastPathTypeOK
<1>2. CASE frag = "single"
  <2>1. update = Idle /\ update' = Idle
    BY <1>2, ContinueIs
  <2>2. processed' = (x = update.sent \o data) /\ assembled' = assembled
    BY <1>2 DEF FpUpdate
  <2>3. update.sent \o data = data
    BY <2>1 DEF Idle
  <2> QED BY <1>1, <2>1, <2>2, <2>3, Zenon
<1>3. CASE frag # "single"
  <2> DEFINE old == IF frag = "first" THEN x ELSE assembled[code] \o x
  <2>1. old \in Seq(Bytes)
    BY <1>1
  <2>2. /\ assembled' = [assembled EXCEPT ![code] = old]
        /\ processed' = (frag = "last" => assembled'[code] = update.sent \o data)
    BY <1>3, Zenon DEF FpUpdate, Assembled
  <2>3. /\ frag = "first" => old = x
        /\ frag # "first" => old = assembled[code] \o x
    OBVIOUS
  <2> HIDE DEF old
  <2>4. assembled' \in [FpCodes -> Seq(Bytes)] /\ assembled'[code] = old
    BY <1>1, <2>1, <2>2
  <2>5. ASSUME x = data, update # Idle => assembled[update.code] = update.sent
        PROVE  old = update.sent \o data
    <3>1. CASE frag = "first"
      <4>1. update = Idle
        BY <3>1, ContinueIs
      <4>2. update.sent \o data = data
        BY <4>1 DEF Idle
      <4> QED BY <2>3, <2>5, <3>1, <4>2
    <3>2. CASE frag # "first"
      <4>1. update # Idle /\ update.code = code
        BY <1>3, <3>2, ContinueIs DEF Fragments
      <4> QED BY <2>3, <2>5, <3>2, <4>1, Zenon
    <3> QED BY <3>1, <3>2
  <2>6. processed' \in BOOLEAN
    BY <2>2
  <2>7. ASSUME x = data, update # Idle => assembled[update.code] = update.sent
        PROVE  /\ processed' = TRUE
               /\ update' # Idle => assembled'[update'.code] = update'.sent
    <3>1. assembled'[code] = update.sent \o data
      BY <2>4, <2>5, <2>7
    <3>2. processed' = TRUE
      BY <2>2, <3>1, Zenon
    <3>3. CASE frag = "last"
      <4>1. update' = Idle
        BY <3>3, ContinueIs
      <4> QED BY <3>2, <4>1
    <3>4. CASE frag # "last"
      <4>1. update'.code = code /\ update'.sent = update.sent \o data
        BY <1>3, <3>4, ContinueIs DEF Fragments
      <4> QED BY <3>1, <3>2, <4>1
    <3> QED BY <3>3, <3>4, Zenon
  <2> QED BY <2>4, <2>6, <2>7, Zenon
<1> QED BY <1>2, <1>3, Zenon

(* mppc_expand starts in the history, at the offset or at the front.          *)
LEMMA HistoryStartIs ==
    ASSUME FpTyped, NEW flags \in Flags
    PROVE  LET c == HistoryStart(flags)
           IN  /\ c \in History(Bytes) /\ c.ok = TRUE
               /\ flags = "flush" => c.hist = Cleared
               /\ flags # "flush" => c.hist = hist
               /\ flags = "none" => c.pos = roff
               /\ flags # "none" => c.pos = 0
<1>1. /\ DICT_SIZE \in Nat /\ roff \in 0 .. DICT_SIZE
      /\ hist \in [1 .. DICT_SIZE -> Bytes] /\ Cleared \in [1 .. DICT_SIZE -> Bytes]
  BY FastPathConstants DEF FpTyped, FastPathTypeOK, Cleared, Bytes
<1> QED BY <1>1 DEF HistoryStart, History, Flags

(* What mppc_expand leaves is a history, whatever it read.                    *)
LEMMA MppcTyped ==
    ASSUME FpTyped, NEW flags \in Flags, NEW tokens \in Seq(Tokens)
    PROVE  LET x == MppcExpand(tokens, flags)
           IN  /\ x.hist \in [1 .. DICT_SIZE -> Bytes] /\ x.roff \in 0 .. DICT_SIZE
               /\ x.data \in Seq(Bytes)
<1>1. PICK c : c = HistoryStart(flags)
  OBVIOUS
<1>2. PICK e : e = Expanded(c, tokens)
  OBVIOUS
<1>3. c \in History(Bytes)
  BY <1>1, HistoryStartIs, Zenon
<1>4. e \in History(Bytes) /\ c.pos <= e.pos
  BY <1>2, <1>3, ExpandedTyped
<1> DEFINE x == MppcExpand(tokens, flags)
<1>5. /\ x.hist = e.hist /\ x.roff = (IF e.ok THEN e.pos ELSE c.pos)
      /\ x.data = IF e.ok THEN SubSeq(e.hist, c.pos + 1, e.pos) ELSE << >>
  BY <1>1, <1>2 DEF MppcExpand
<1> HIDE DEF x
<1>6. /\ c.pos \in 0 .. DICT_SIZE /\ e.pos \in 0 .. DICT_SIZE /\ e.ok \in BOOLEAN
      /\ e.hist \in [1 .. DICT_SIZE -> Bytes]
  BY <1>3, <1>4 DEF History
<1>7. DICT_SIZE \in Nat
  BY FastPathConstants
<1>8. x.roff \in 0 .. DICT_SIZE
  BY <1>5, <1>6
<1>9. SubSeq(e.hist, c.pos + 1, e.pos) \in Seq(Bytes)
  <2>1. PICK len : len = e.pos - c.pos
    OBVIOUS
  <2>2. PICK p : p = c.pos
    OBVIOUS
  <2>3. PICK h : h = e.hist
    OBVIOUS
  <2>4. len \in Nat /\ p \in Nat /\ p + len = e.pos /\ p + len <= DICT_SIZE
    BY <1>4, <1>6, <1>7, <2>1, <2>2
  <2>5. \A i \in 1 .. DICT_SIZE : h[i] \in Bytes
    BY <1>6, <2>3, Zenon
  <2>6. Part(h, p, len) \in Seq(Bytes)
    BY <2>4, <2>5, PartRead, Zenon
  <2> QED BY <2>2, <2>3, <2>4, <2>6 DEF Part
<1>10. x.data \in Seq(Bytes)
  BY <1>5, <1>9
<1> QED BY <1>5, <1>6, <1>8, <1>10 DEF x

(* Tokens of either kind are tokens. *)
LEMMA EncodedIs ==
    ASSUME NEW data \in FpPieces
    PROVE  /\ AsLiterals(data) \in Seq(Tokens)
           /\ \A off \in 1 .. DICT_SIZE : AsMatch(Len(data), off) \in Seq(Tokens)
<1>1. /\ data \in Seq(Bytes) /\ Len(data) \in Nat
      /\ \A n \in 1 .. Len(data) : data[n] \in Bytes
      /\ 0 \in 0 .. DICT_SIZE /\ 0 \in Bytes
  <2>1. data \in Seq(Bytes)
    BY FastPathConstants
  <2>2. 0 \in 0 .. DICT_SIZE /\ 0 \in Bytes
    BY FastPathConstants DEF Bytes
  <2> QED BY <2>1, <2>2
<1>2. \A n \in 1 .. Len(data) : [len |-> 0, off |-> 0, byte |-> data[n]] \in Tokens
  BY <1>1 DEF Tokens
<1>3. AsLiterals(data) \in Seq(Tokens)
  BY <1>1, <1>2 DEF AsLiterals
<1>4. ASSUME NEW off \in 1 .. DICT_SIZE PROVE AsMatch(Len(data), off) \in Seq(Tokens)
  <2>1. [len |-> Len(data), off |-> off, byte |-> 0] \in Tokens
    BY <1>1 DEF Tokens
  <2> QED BY <2>1 DEF AsMatch
<1> QED BY <1>3, <1>4

(* The data that a plain update adds is what was sent. *)
LEMMA PlainKeeps ==
    ASSUME FpInv, NEW code \in FpCodes, NEW frag \in Fragments, NEW data \in FpPieces,
           PlainUpdate(code, frag, data)
    PROVE  FpInv'
<1>1. /\ data \in Seq(Bytes) /\ FpTyped /\ Continue(code, frag, data)
      /\ FpUpdate(code, frag, data, update.sent \o data)
      /\ ctype' = "plain" /\ UNCHANGED <<hist, roff, srvHist, srvOff, misread>>
  BY FastPathConstants DEF FpInv, PlainUpdate
<1>2. /\ update' \in [code : FpCodes \cup {0}, frags : 0 .. MaxFragments, sent : Seq(Bytes)]
      /\ update' # Idle => update'.code \in FpCodes
      /\ nUpdates' \in 0 .. MaxUpdates
  BY <1>1, ContinueIs
<1>3. assembled' \in [FpCodes -> Seq(Bytes)] /\ processed' \in BOOLEAN
  BY <1>1, FpUpdateIs, Zenon
<1>4. FpTyped'
  BY <1>1, <1>2, <1>3, Zenon DEF FpTyped, FastPathTypeOK
<1>5. ASSUME misread' = FALSE PROVE FpRead'
  <2>1. FpRead
    BY <1>1, <1>5 DEF FpInv
  <2>2. processed' = TRUE /\ (update' # Idle => assembled'[update'.code] = update'.sent)
    BY <1>1, <2>1, FpUpdateIs, Zenon DEF FpRead
  <2> QED BY <1>1, <2>1, <2>2 DEF FpRead
<1> QED BY <1>4, <1>5, Zenon DEF FpInv

(* Compressed data comes out as it was put in, and the histories of both      *)
(* sides get the same bytes in the same place. *)
LEMMA CompressedKeeps ==
    ASSUME FpInv, NEW code \in FpCodes, NEW frag \in Fragments, NEW data \in FpPieces,
           CompressedUpdate(code, frag, data)
    PROVE  FpInv'
<1>1. PICK flags \in Flags :
          /\ Continue(code, frag, data)
          /\ flags = "none" => srvOff + Len(data) < DICT_SIZE
          /\ LET start == IF flags = "none" THEN srvOff ELSE 0
                 from == IF flags = "flush" THEN Unknown ELSE srvHist
             IN /\ srvHist' = [i \in 1 .. DICT_SIZE |->
                                  IF i > start /\ i <= start + Len(data)
                                  THEN data[i - start] ELSE from[i]]
                /\ srvOff' = start + Len(data)
                /\ \E tokens \in Encodings(data, start, from) :
                      LET x == MppcExpand(tokens, flags)
                      IN /\ hist' = x.hist /\ roff' = x.roff
                         /\ FpUpdate(code, frag, x.data, update.sent \o data)
          /\ ctype' = flags /\ UNCHANGED misread
  BY DEF CompressedUpdate, Flags
<1>2. PICK start : start = IF flags = "none" THEN srvOff ELSE 0
  OBVIOUS
<1>3. PICK from : from = IF flags = "flush" THEN Unknown ELSE srvHist
  OBVIOUS
<1>4. PICK tokens \in Encodings(data, start, from) :
          /\ hist' = MppcExpand(tokens, flags).hist
          /\ roff' = MppcExpand(tokens, flags).roff
          /\ FpUpdate(code, frag, MppcExpand(tokens, flags).data, update.sent \o data)
  BY <1>1, <1>2, <1>3
<1>5. /\ srvHist' = [i \in 1 .. DICT_SIZE |->
                        IF i > start /\ i <= start + Len(data)
                        THEN data[i - start] ELSE from[i]]
      /\ srvOff' = start + Len(data)
  BY <1>1, <1>2, <1>3
<1> DEFINE len == Len(data)
           x == MppcExpand(tokens, flags)
<1>6. /\ data \in Seq(Bytes) /\ len \in 1 .. DICT_SIZE - 1 /\ DICT_SIZE \in Nat \ {0}
      /\ \A j \in 1 .. len : data[j] \in Bytes
  BY FastPathConstants
<1>7. /\ FpTyped /\ srvOff \in 0 .. DICT_SIZE
      /\ srvHist \in [1 .. DICT_SIZE -> Bytes \cup {Unwritten}]
      /\ Unknown \in [1 .. DICT_SIZE -> Bytes \cup {Unwritten}]
  BY DEF FpInv, FpTyped, FastPathTypeOK, Unknown
<1>8. from \in [1 .. DICT_SIZE -> Bytes \cup {Unwritten}]
  BY <1>3, <1>7
<1>9. start \in Nat /\ start + len < DICT_SIZE
  <2>1. CASE flags = "none"
    BY <1>1, <1>2, <1>6, <1>7, <2>1
  <2>2. CASE flags # "none"
    BY <1>2, <1>6, <2>2
  <2> QED BY <2>1, <2>2
<1>10. srvOff' \in 0 .. DICT_SIZE
  BY <1>5, <1>6, <1>9
<1>11. srvHist' \in [1 .. DICT_SIZE -> Bytes \cup {Unwritten}]
  <2>1. ASSUME NEW i \in 1 .. DICT_SIZE
        PROVE  (IF i > start /\ i <= start + Len(data) THEN data[i - start] ELSE from[i])
                   \in Bytes \cup {Unwritten}
    <3>1. CASE i > start /\ i <= start + Len(data)
      <4>1. i - start \in 1 .. len
        BY <1>6, <1>9, <3>1
      <4>2. data[i - start] \in Bytes
        BY <1>6, <4>1
      <4> QED BY <3>1, <4>2
    <3>2. CASE ~(i > start /\ i <= start + Len(data))
      BY <1>8, <3>2
    <3> QED BY <3>1, <3>2
  <2> QED BY <1>5, <2>1
<1>12. tokens \in Seq(Tokens)
  BY EncodedIs DEF Encodings
<1>13. /\ hist' \in [1 .. DICT_SIZE -> Bytes] /\ roff' \in 0 .. DICT_SIZE
       /\ x.data \in Seq(Bytes)
  BY <1>4, <1>7, <1>12, MppcTyped
<1>14. /\ update' \in [code : FpCodes \cup {0}, frags : 0 .. MaxFragments, sent : Seq(Bytes)]
       /\ update' # Idle => update'.code \in FpCodes
       /\ nUpdates' \in 0 .. MaxUpdates
  BY <1>1, <1>6, <1>7, ContinueIs
<1>15. PICK y : y = x.data
  OBVIOUS
<1>16. y \in Seq(Bytes) /\ FpUpdate(code, frag, y, update.sent \o data)
  BY <1>4, <1>13, <1>15
<1>17. assembled' \in [FpCodes -> Seq(Bytes)] /\ processed' \in BOOLEAN
  BY <1>1, <1>6, <1>7, <1>16, FpUpdateIs, Zenon
<1>18. ctype' \in {"plain", "none", "reset", "flush"} /\ misread' \in BOOLEAN
  BY <1>1, <1>7 DEF Flags, FpTyped
<1>19. FpTyped'
  <2>1. /\ update'.code \in FpCodes \cup {0} /\ update'.frags \in 0 .. MaxFragments
        /\ update'.sent \in Seq(Bytes)
    BY <1>14
  <2>2. FastPathTypeOK'
    BY <1>10, <1>11, <1>13, <1>14, <1>17, <1>18, <2>1 DEF FastPathTypeOK
  <2> QED BY <1>14, <1>17, <1>18, <2>2 DEF FpTyped
<1>20. ASSUME misread' = FALSE PROVE FpRead'
  <2>1. FpRead
    BY <1>1, <1>20 DEF FpInv
  <2>2. PICK c : c = HistoryStart(flags)
    OBVIOUS
  <2>3. /\ c \in History(Bytes) /\ c.ok = TRUE
        /\ flags = "flush" => c.hist = Cleared
        /\ flags # "flush" => c.hist = hist
        /\ flags = "none" => c.pos = roff
        /\ flags # "none" => c.pos = 0
    BY <1>7, <2>2, HistoryStartIs, Zenon
  <2>4. c.pos = start
    <3>1. CASE flags = "none"
      <4>1. srvOff < DICT_SIZE
        BY <1>1, <1>6, <1>7, <3>1
      <4> QED BY <1>2, <2>1, <2>3, <3>1, <4>1 DEF FpRead
    <3>2. CASE flags # "none"
      BY <1>2, <2>3, <3>2
    <3> QED BY <3>1, <3>2
  <2>5. HasAll(c.hist, from)
    <3>1. CASE flags = "flush"
      BY <1>3, <3>1 DEF HasAll, Unknown
    <3>2. CASE flags # "flush"
      BY <1>3, <2>1, <2>3, <3>2 DEF FpRead
    <3> QED BY <3>1, <3>2
  <2>6. start \in 0 .. DICT_SIZE /\ start + Len(data) <= DICT_SIZE
    BY <1>6, <1>9
  <2>7. /\ x.data = data /\ x.roff = start + Len(data)
        /\ \A j \in 1 .. Len(data) : x.hist[start + j] = data[j]
        /\ \A i \in 1 .. DICT_SIZE :
               ~InPart(i, start, Len(data)) => x.hist[i] = HistoryStart(flags).hist[i]
    <3>1. /\ HistoryStart(flags) \in History(Bytes) /\ HistoryStart(flags).pos = start
          /\ HistoryStart(flags).ok = TRUE /\ HasAll(HistoryStart(flags).hist, from)
      BY <2>2, <2>3, <2>4, <2>5
    <3>2. tokens \in Encodings(data, start, from)
      OBVIOUS
    <3>3. Delivered(MppcExpand(tokens, flags), flags, start, data)
      BY <1>8, <2>6, <3>1, <3>2, MppcExpands, Zenon
    <3> QED BY <3>3 DEF Delivered
  <2>8. roff' = srvOff'
    BY <1>4, <1>5, <2>7
  <2>9. HasAll(hist', srvHist')
    <3> SUFFICES ASSUME NEW i \in 1 .. DICT_SIZE
                 PROVE  srvHist'[i] \in {hist'[i], Unwritten}
      BY DEF HasAll
    <3>1. CASE InPart(i, start, len)
      <4>1. PICK j : j = i - start
        OBVIOUS
      <4>2. j \in 1 .. len /\ start + j = i
        BY <1>6, <1>9, <3>1, <4>1 DEF InPart
      <4>3. srvHist'[i] = data[j]
        BY <1>5, <3>1, <4>1 DEF InPart
      <4>4. hist'[i] = data[j]
        BY <1>4, <2>7, <4>2
      <4> QED BY <4>3, <4>4
    <3>2. CASE ~InPart(i, start, len)
      <4>1. srvHist'[i] = from[i]
        BY <1>5, <3>2 DEF InPart
      <4>2. hist'[i] = c.hist[i]
        BY <1>4, <2>2, <2>7, <3>2
      <4> QED BY <2>5, <4>1, <4>2 DEF HasAll
    <3> QED BY <3>1, <3>2
  <2>10. processed' = TRUE /\ (update' # Idle => assembled'[update'.code] = update'.sent)
    <3>1. y = data
      BY <1>15, <2>7
    <3>2. update # Idle => assembled[update.code] = update.sent
      BY <2>1 DEF FpRead
    <3> QED BY <1>1, <1>6, <1>7, <1>16, <3>1, <3>2, FpUpdateIs, Zenon
  <2> QED BY <2>8, <2>9, <2>10 DEF FpRead
<1> QED BY <1>19, <1>20, Zenon DEF FpInv

(* Of a misread update only the types are known. *)
LEMMA FpMisreadKeeps ==
    ASSUME FpInv, NEW code \in FpCodes, NEW frag \in Fragments, NEW data \in FpPieces,
           MisreadUpdate(code, frag, data)
    PROVE  FpInv'
<1>1. /\ ctype # "plain" /\ misread' = TRUE /\ Continue(code, frag, data)
      /\ UNCHANGED <<ctype, srvHist, srvOff>>
  BY DEF MisreadUpdate
<1>2. PICK tokens \in Misreadings(data) :
          /\ hist' = MppcExpand(tokens, ctype).hist
          /\ roff' = MppcExpand(tokens, ctype).roff
          /\ FpUpdate(code, frag, MppcExpand(tokens, ctype).data, update.sent \o data)
  BY DEF MisreadUpdate
<1>3. PICK flags : flags = ctype
  OBVIOUS
<1>4. FpTyped /\ flags \in Flags /\ data \in Seq(Bytes)
  BY <1>1, <1>3, FastPathConstants, Zenon DEF FpInv, FpTyped, FastPathTypeOK, Flags
<1>5. tokens \in Seq(Tokens)
  BY EncodedIs DEF Misreadings
<1>6. PICK y : y = MppcExpand(tokens, ctype).data
  OBVIOUS
<1>7. /\ hist' \in [1 .. DICT_SIZE -> Bytes] /\ roff' \in 0 .. DICT_SIZE
      /\ y \in Seq(Bytes)
  BY <1>2, <1>3, <1>4, <1>5, <1>6, MppcTyped
<1>8. /\ update' \in [code : FpCodes \cup {0}, frags : 0 .. MaxFragments, sent : Seq(Bytes)]
      /\ update' # Idle => update'.code \in FpCodes
      /\ nUpdates' \in 0 .. MaxUpdates
  BY <1>1, <1>4, ContinueIs
<1>9. assembled' \in [FpCodes -> Seq(Bytes)] /\ processed' \in BOOLEAN
  <2>1. FpUpdate(code, frag, y, update.sent \o data)
    BY <1>2, <1>6
  <2> QED BY <1>1, <1>4, <1>7, <2>1, FpUpdateIs, Zenon
<1>10. /\ update'.code \in FpCodes \cup {0} /\ update'.frags \in 0 .. MaxFragments
       /\ update'.sent \in Seq(Bytes)
  BY <1>8
<1>11. FastPathTypeOK'
  BY <1>1, <1>4, <1>7, <1>8, <1>9, <1>10, Zenon DEF FastPathTypeOK, FpTyped
<1>12. FpTyped'
  BY <1>1, <1>8, <1>9, <1>11 DEF FpTyped
<1> QED BY <1>1, <1>12 DEF FpInv

(* A connection that is lost starts the compressor afresh: it refers to       *)
(* nothing that an earlier one left in the history. *)
LEMMA FpReconnectKeeps == ASSUME FpInv, FpReconnect PROVE FpInv'
<1>1. /\ update' = Idle /\ srvHist' = Unknown /\ srvOff' = DICT_SIZE /\ ctype' = "plain"
      /\ misread' = FALSE /\ processed' = TRUE
      /\ UNCHANGED <<hist, roff, assembled, nUpdates>>
  BY DEF FpReconnect
<1>2. DICT_SIZE \in Nat \ {0} /\ MaxFragments \in Nat
  BY FastPathConstants
<1>3. Idle \in [code : FpCodes \cup {0}, frags : 0 .. MaxFragments, sent : Seq(Bytes)]
  BY <1>2 DEF Idle
<1>4. /\ update'.code \in FpCodes \cup {0} /\ update'.frags \in 0 .. MaxFragments
      /\ update'.sent \in Seq(Bytes)
  BY <1>1, <1>3
<1>5. Unknown \in [1 .. DICT_SIZE -> Bytes \cup {Unwritten}] /\ HasAll(hist', Unknown)
  BY DEF Unknown, HasAll
<1>6. FastPathTypeOK'
  BY <1>1, <1>2, <1>4, <1>5 DEF FastPathTypeOK, FpInv, FpTyped
<1>7. FpTyped'
  BY <1>1, <1>3, <1>6, Zenon DEF FpTyped
<1>8. FpRead'
  BY <1>1, <1>2, <1>5 DEF FpRead
<1> QED BY <1>7, <1>8 DEF FpInv

(* Every step keeps the invariant. *)
LEMMA FpStep == FpInv /\ [FastPathNext]_fpVars => FpInv'
<1> SUFFICES ASSUME FpInv, [FastPathNext]_fpVars PROVE FpInv'
  OBVIOUS
<1>1. CASE UNCHANGED fpVars
  <2>1. FpTyped => FpTyped'
    BY <1>1 DEF FpTyped, FastPathTypeOK, fpVars
  <2>2. FpRead => FpRead'
    BY <1>1 DEF FpRead, HasAll, fpVars
  <2>3. misread' = misread
    BY <1>1 DEF fpVars
  <2> QED BY <2>1, <2>2, <2>3 DEF FpInv
<1>2. CASE FpReconnect
  BY <1>2, FpReconnectKeeps
<1>3. ASSUME NEW code \in FpCodes, NEW frag \in Fragments, NEW data \in FpPieces,
             \/ PlainUpdate(code, frag, data)
             \/ CompressedUpdate(code, frag, data)
             \/ MisreadUpdate(code, frag, data)
      PROVE  FpInv'
  BY <1>3, PlainKeeps, CompressedKeeps, FpMisreadKeeps
<1> QED BY <1>1, <1>2, <1>3 DEF FastPathNext, Fragments

(* The invariant says what the model promises. *)
LEMMA FpGives == FpInv => FastPathTypeOK /\ UpdatesAreWhole /\ HistoryInStep
<1> SUFFICES ASSUME FpInv PROVE FastPathTypeOK /\ UpdatesAreWhole /\ HistoryInStep
  OBVIOUS
<1>1. FastPathTypeOK /\ processed \in BOOLEAN /\ misread \in BOOLEAN
  BY DEF FpInv, FpTyped
<1>2. CASE misread = TRUE
  BY <1>1, <1>2 DEF UpdatesAreWhole, HistoryInStep
<1>3. CASE misread = FALSE
  <2>1. FpRead
    BY <1>3 DEF FpInv
  <2>2. UpdatesAreWhole
    BY <2>1 DEF FpRead, UpdatesAreWhole
  <2>3. HistoryInStep
    BY <2>1 DEF FpRead, HasAll, HistoryInStep
  <2> QED BY <1>1, <2>2, <2>3
<1> QED BY <1>1, <1>2, <1>3, Zenon

-----------------------------------------------------------------------------
(* The components together *)

StreamsInv ==
    /\ ChInv /\ DvcInv /\ SecInv /\ AddinInv /\ CtrlInv
    /\ SndInv /\ DeviceInv /\ SndQueueInv /\ PulseInv /\ FpInv

(* Only the component that runs moves its variables. *)
LEMMA OneRuns ==
    Next \/ UNCHANGED allVars =>
        /\ [VChannelsNext]_vchanVars /\ [DvcNext]_dvcVars /\ [SecRecvNext]_secVars
        /\ [SoundNext]_sndVars /\ [PulseNext]_pulseVars /\ [AddinNext]_addinVars
        /\ [CtrlNext]_ctrlVars /\ [FastPathNext]_fpVars
BY DEF Next, allVars

(* At the beginning each component's invariant holds. *)
LEMMA StreamsInit == Init => StreamsInv
BY ChInitInv, DvcInitInv, SecInitInv, AddinInitInv, CtrlInitInv, SndInitInv, DeviceInit,
   QueueInitInv, PulseInitInv, FpInitInv DEF Init, StreamsInv

(* Every step of a component keeps the invariants of all of them. *)
LEMMA StreamsStep == StreamsInv /\ [Next]_allVars => StreamsInv'
BY OneRuns, ChStep, DvcStep, SecStep, AddinStep, CtrlStep, SndStep, DeviceStep, SlotsStep,
   PulseStep, FpStep DEF StreamsInv

(* The client reads what the server sent as the server meant it, for any     *)
(* channels, names, ids and table sizes, any re-key interval and any number  *)
(* of connections: secure.c, licence.c, channels.c and dvc.c keep in step    *)
(* with the server.                                                          *)
THEOREM ReceiversAgree == Spec => []ReceiverInStep
<1>1. Init => StreamsInv
  BY StreamsInit
<1>2. StreamsInv /\ [Next]_allVars => StreamsInv'
  BY StreamsStep
<1>3. StreamsInv => ReceiverInStep
  BY ChInvGives, SecInvGives DEF StreamsInv, DvcInv, ReceiverInStep
<1> QED BY <1>1, <1>2, <1>3, PTL DEF Spec

(* Updates come out as they were put in, whatever was cut in fragments,       *)
(* compressed against earlier ones or lost with a connection, unless plain    *)
(* data of the connection was taken for compressed data: for any pieces of    *)
(* data that fit in the history, any size of it, and any codes and numbers of *)
(* updates, fragments and lost connections (rdp5.c, mppc.c).                  *)
THEOREM UpdatesComeOutWhole == Spec => []UpdatesInStep
<1>1. Init => StreamsInv
  BY StreamsInit
<1>2. StreamsInv /\ [Next]_allVars => StreamsInv'
  BY StreamsStep
<1>3. StreamsInv => UpdatesInStep
  BY FpGives DEF StreamsInv, UpdatesInStep
<1> QED BY <1>1, <1>2, <1>3, PTL DEF Spec

(* A child reads what the server sent in order and is reaped whichever way   *)
(* its add-in stops; a control command is run at most once, and answered     *)
(* only when it was run: for any number of add-ins, bytes and processes, any *)
(* size of the pipes and any number of crashes (addin.c, ctrl.c).            *)
THEOREM ProcessesServed == Spec => []ProcessesAreServed
<1>1. Init => StreamsInv
  BY StreamsInit
<1>2. StreamsInv /\ [Next]_allVars => StreamsInv'
  BY StreamsStep
<1>3. StreamsInv => ProcessesAreServed
  BY AddinInvGives, CtrlInvGives DEF StreamsInv, ProcessesAreServed
<1> QED BY <1>1, <1>2, <1>3, PTL DEF Spec

(* No wave waits for a device that is closed, and while no operation of the  *)
(* device failed, playback and recording never take it from each other       *)
(* (rdpsnd.c and its drivers).  A PulseAudio stream that failed is reported  *)
(* until it is built again or given up, and one that rdpsnd uses runs unless *)
(* an error of it is reported or it is gone (rdpsnd_pulse.c).  This holds    *)
(* for every driver and sizes of queue and pipe, through failing operations. *)
THEOREM SoundFollows == Spec => []SoundFollowsDevice
<1>1. Init => StreamsInv
  BY StreamsInit
<1>2. StreamsInv /\ [Next]_allVars => StreamsInv'
  BY StreamsStep
<1>3. StreamsInv => SoundFollowsDevice
  BY SndGives, PulseGives DEF StreamsInv, SoundFollowsDevice
<1> QED BY <1>1, <1>2, <1>3, PTL DEF Spec

-----------------------------------------------------------------------------
(* VChannels implements MessageChannel *)

(* The value that the refinement gives to inflight. *)
InFlight ==
    [c \in Channels |-> IF c \in Registered \/ ~started
                        THEN Completed(wire, c) ELSE << >>]

(* At the beginning nothing is in flight. *)
LEMMA AbstractInit == VChannelsInit => Abstract!MsgInit
<1> SUFFICES ASSUME VChannelsInit PROVE Abstract!MsgInit
  OBVIOUS
<1>1. wire = << >> /\ chGot = [c \in Channels |-> << >>]
  BY DEF VChannelsInit
<1>2. InFlight = [c \in Channels |-> << >>]
  BY <1>1, CompletedEmpty DEF InFlight
<1> QED BY <1>1, <1>2 DEF InFlight, Abstract!MsgInit

(* Registering a channel and entering the loop are steps of nothing in       *)
(* flight, beginning a message is none at all.                               *)
LEMMA AbstractStutters ==
    ASSUME ChInv, \/ UNCHANGED vchanVars \/ EnterLoop
                  \/ \E c \in Channels : ChannelRegister(c) \/ BeginSend(c)
    PROVE  InFlight' = InFlight /\ chGot' = chGot
<1>1. chGot' = chGot /\ wire' = wire
  BY DEF vchanVars, staticVars, EnterLoop, ChannelRegister, BeginSend
<1>2. CASE started' = started /\ g_channels' = g_channels
  BY <1>1, <1>2 DEF InFlight, Registered
<1>3. CASE ~started
  <2>1. wire = << >>
    BY <1>3 DEF ChInv, SenderInv
  <2>2. \A c \in Channels : Completed(wire, c) = << >> /\ Completed(wire', c) = << >>
    BY <1>1, <2>1, CompletedEmpty
  <2> QED BY <1>1, <2>2 DEF InFlight
<1>4. (started' = started /\ g_channels' = g_channels) \/ ~started
  BY DEF vchanVars, staticVars, EnterLoop, ChannelRegister, BeginSend
<1> QED BY <1>1, <1>2, <1>3, <1>4

(* The last chunk of a message sends it, other chunks are no step. *)
LEMMA AbstractSend ==
    ASSUME ChInv, NEW c \in Channels, SendChunk(c)
    PROVE  Abstract!Send(c) \/ (InFlight' = InFlight /\ chGot' = chGot)
<1> DEFINE k == NextChunk(c)
<1>1. /\ k \in Chunk /\ k.channel = c /\ k.piece = sending[c][1] /\ k.piece \in Piece
      /\ wire \in Seq(Chunk) /\ wire' = Append(wire, k) /\ started
      /\ UNCHANGED <<started, g_channels, chGot>>
  <2>1. started
    BY SendChunkAdds DEF ChInv, ChTypes, SenderInv
  <2> QED BY <2>1, SendChunkAdds, Zenon
<1> HIDE DEF k
<1>2. \A d : Completed(wire', d) = Adds(Completed(wire, d), k, d)
  BY <1>1, CompletedAppend
<1>3. CASE k.last /\ c \in Registered
  <2> DEFINE m == Content(k.piece[1], k.piece[2])
  <2>1. m \in Contents
    BY <1>1, PieceIs DEF Contents
  <2>2. InFlight' = [InFlight EXCEPT ![c] = Append(@, m)]
    BY <1>1, <1>2, <1>3, Zenon DEF InFlight, Adds, Registered
  <2> HIDE DEF m
  <2> QED BY <1>1, <2>1, <2>2, Zenon DEF InFlight, Abstract!Send
<1>4. CASE ~(k.last /\ c \in Registered)
  <2>1. ASSUME NEW d \in Registered PROVE Completed(wire', d) = Completed(wire, d)
    BY <1>1, <1>2, <1>4 DEF Adds
  <2> QED BY <1>1, <2>1 DEF InFlight, Registered
<1> QED BY <1>3, <1>4

(* A last chunk delivers the first message in flight. *)
LEMMA AbstractDeliver ==
    ASSUME ChInv, ChannelProcess
    PROVE  \/ \E c \in Channels : Abstract!Deliver(c)
           \/ InFlight' = InFlight /\ chGot' = chGot
<1> DEFINE k == wire[1]
           c == wire[1].channel
           m == Content(wire[1].piece[1], wire[1].piece[2])
<1>1. /\ wire \in Seq(Chunk) /\ wire # << >> /\ wire' = Tail(wire) /\ Head(wire) = k
      /\ k \in Chunk /\ started
      /\ c \in Registered /\ k.last => chGot' = [chGot EXCEPT ![c] = Append(@, m)]
      /\ ~(c \in Registered /\ k.last) => chGot' = chGot
      /\ UNCHANGED <<started, g_channels>>
  BY ProcessFinds
<1>2. c \in Channels
  BY <1>1 DEF Chunk
<1>3. \A d : IF c = d /\ k.last
             THEN /\ Completed(wire, d) # << >> /\ Head(Completed(wire, d)) = m
                  /\ Completed(wire', d) = Tail(Completed(wire, d))
             ELSE Completed(wire', d) = Completed(wire, d)
  BY <1>1, CompletedTail
<1> HIDE DEF k, c, m
<1>4. CASE k.last /\ c \in Registered
  <2>1. InFlight[c] # << >> /\ Head(InFlight[c]) = m
    BY <1>2, <1>3, <1>4 DEF InFlight
  <2>2. InFlight' = [InFlight EXCEPT ![c] = Tail(@)]
    BY <1>1, <1>2, <1>3, <1>4, Zenon DEF InFlight, Registered
  <2>3. chGot' = [chGot EXCEPT ![c] = Append(@, Head(InFlight[c]))]
    BY <1>1, <1>4, <2>1
  <2>4. \E d \in Channels : Abstract!Deliver(d)
    BY <1>2, <2>1, <2>2, <2>3, Zenon DEF InFlight, Abstract!Deliver
  <2> QED BY <2>4
<1>5. CASE ~(k.last /\ c \in Registered)
  <2>1. ASSUME NEW d \in Registered PROVE Completed(wire', d) = Completed(wire, d)
    BY <1>3, <1>5
  <2> QED BY <1>1, <1>5, <2>1 DEF InFlight, Registered
<1> QED BY <1>4, <1>5

(* A lost connection loses what was in flight. *)
LEMMA AbstractLose == ASSUME Reconnect PROVE Abstract!Lose
<1>1. wire' = << >> /\ chGot' = chGot
  BY DEF Reconnect
<1>2. InFlight' = [c \in Channels |-> << >>]
  BY <1>1, CompletedEmpty DEF InFlight
<1> QED BY <1>1, <1>2 DEF InFlight, Abstract!Lose

(* Every step of channels.c is one of the message channel, or none. *)
LEMMA AbstractStep ==
    ChInv /\ [VChannelsNext]_vchanVars => [Abstract!MsgNext]_(Abstract!msgVars)
<1> SUFFICES ASSUME ChInv, [VChannelsNext]_vchanVars
             PROVE  Abstract!MsgNext \/ UNCHANGED Abstract!msgVars
  OBVIOUS
<1>1. Abstract!MsgNext \/ (InFlight' = InFlight /\ chGot' = chGot)
  BY AbstractStutters, AbstractSend, AbstractDeliver, AbstractLose
  DEF VChannelsNext, Abstract!MsgNext
<1> QED BY <1>1 DEF InFlight, Abstract!msgVars

(* channel_process implements the message channel: however the server cuts   *)
(* and mixes its messages and wherever connections are lost, each handler    *)
(* gets whole messages in the order in which they were sent, for any number  *)
(* of channels, chunks, messages and lost connections.                       *)
THEOREM ChannelsDeliverWhole == Spec => MessagesArriveWhole
<1>1. Init => StreamsInv /\ Abstract!MsgInit
  BY StreamsInit, AbstractInit, Zenon DEF Init
<1>2. StreamsInv /\ [Next]_allVars => StreamsInv'
  BY StreamsStep
<1>3. StreamsInv /\ [Next]_allVars => [Abstract!MsgNext]_(Abstract!msgVars)
  BY OneRuns, AbstractStep DEF StreamsInv
<1> QED BY <1>1, <1>2, <1>3, PTL DEF Spec, MessagesArriveWhole, Abstract!MsgSpec

-----------------------------------------------------------------------------
(* The ring of rdpsnd.c implements the queue of waves: what it takes it      *)
(* confirms once and in order, through full rings, wrap-around, delayed      *)
(* completions, failing devices and resets, for any size of the ring, any    *)
(* driver and any number of waves, faults and lost connections.              *)
THEOREM SoundConfirmsInOrder == Spec => ConfirmsInOrder
<1>1. Init => StreamsInv /\ WavesConfirmedInOrder!WqInit
  BY StreamsInit, SndInitInv, Zenon DEF Init
<1>2. StreamsInv /\ [Next]_allVars => StreamsInv'
  BY StreamsStep
<1>3. StreamsInv /\ [Next]_allVars
          => [WavesConfirmedInOrder!WqNext]_<<Outstanding, confirmedQ>>
  BY OneRuns, SndStep DEF StreamsInv
<1> QED BY <1>1, <1>2, <1>3, PTL DEF Spec, ConfirmsInOrder, WavesConfirmedInOrder!WqSpec
=============================================================================
