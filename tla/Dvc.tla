-------------------------------- MODULE Dvc --------------------------------
(***************************************************************************)
(* dvc.c: dynamic channels multiplexed over the static channel drdynvc.    *)
(* The table binds the name of a channel (its hash) and the handler that   *)
(* was registered for it to the id the server opened it by.  It is filled  *)
(* once and outlives connections.                                          *)
(***************************************************************************)
EXTENDS Integers, Sequences, SequencesExt

CONSTANTS
    DvcNames,           \* names of dynamic channels with a handler
    DvcOtherNames,      \* names the server may open without a handler
    DvcIds,             \* ids the server assigns
    MAX_DVC_CHANNELS,   \* size of the table
    MaxDvcConnections   \* connections (bound)

INVALID_CHANNEL == -1   \* (uint32) -1: registered, not opened yet
NoName == "none"        \* hash 0: an empty slot
NullHandler == "NULL"   \* the handler of an empty slot

ASSUME DvcConstants ==
    /\ MAX_DVC_CHANNELS \in Nat /\ MaxDvcConnections \in Nat
    /\ {NoName, NullHandler} \cap (DvcNames \cup DvcOtherNames) = {}
    /\ DvcIds \subseteq Nat \cup {INVALID_CHANNEL}

VARIABLES
    channels,       \* the table: name and id of each slot
    dvcLoop,        \* number of the connection, 0 during the registrations
    srvOpen,        \* environment: ids open in this connection, their names
    dispatch,       \* history: the last data PDU, who handled it
    dvcSent         \* history: the last PDU the client sent

dvcVars == <<channels, dvcLoop, srvOpen, dispatch, dvcSent>>

(* dvc_init and dvc_channels_remove_by_id fill a slot with zeros; 0 is an id  *)
(* the server may use as well.                                               *)
FreeSlot == [name |-> NoName, id |-> 0]
Handled == DvcNames \cup {NoName}
SlotIds == DvcIds \cup {0, INVALID_CHANNEL}
Nothing == [cmd |-> "none", id |-> INVALID_CHANNEL]

DvcTypeOK ==
    /\ channels \in [1 .. MAX_DVC_CHANNELS -> [name : Handled, id : SlotIds]]
    /\ dvcLoop \in 0 .. MaxDvcConnections
    /\ DOMAIN srvOpen \subseteq DvcIds /\ Range(srvOpen) \subseteq DvcNames
    /\ dispatch.id \in SlotIds /\ dispatch.want \in Handled
    /\ dispatch.by \in Handled \cup {NullHandler}
    /\ dvcSent.id \in SlotIds

(* dvc_init *)
DvcInit ==
    /\ channels = [i \in 1 .. MAX_DVC_CHANNELS |-> FreeSlot]
    /\ dvcLoop = 0 /\ srvOpen = << >>
    /\ dispatch = [id |-> INVALID_CHANNEL, want |-> NoName, by |-> NoName,
                   shadowed |-> FALSE]
    /\ dvcSent = Nothing

(* The loops over the table: the first slot that fits, 0 when there is none. *)
SlotOf(name) == SelectInSeq(channels, LAMBDA s : s.name = name)
SlotById(id) == SelectInSeq(channels, LAMBDA s : s.id = id)

DvcExists(name) == SlotOf(name) # 0

DvcGetId(name) == IF DvcExists(name) THEN channels[SlotOf(name)].id
                  ELSE INVALID_CHANNEL

-----------------------------------------------------------------------------
(* A name that is there already, or a full table, registers nothing. *)
DvcAdd(name) ==
    /\ dvcLoop = 0
    /\ channels' = IF DvcExists(name) \/ SlotOf(NoName) = 0 THEN channels
                   ELSE [channels EXCEPT ![SlotOf(NoName)] =
                             [name |-> name, id |-> INVALID_CHANNEL]]
    /\ UNCHANGED <<dvcLoop, srvOpen, dispatch, dvcSent>>

(* Environment: the next connection, in which the server has nothing open. *)
DvcConnect ==
    /\ dvcLoop < MaxDvcConnections
    /\ dvcLoop' = dvcLoop + 1 /\ srvOpen' = << >> /\ dvcSent' = Nothing
    /\ UNCHANGED <<channels, dispatch>>

DvcProcessCaps ==
    /\ dvcLoop > 0
    /\ dvcSent' = [cmd |-> "capabilities", id |-> INVALID_CHANNEL]
    /\ UNCHANGED <<channels, dvcLoop, srvOpen, dispatch>>

(* dvc_channels_set_id *)
SetId(name, id) == [channels EXCEPT ![SlotOf(name)].id = id]

(* The server uses a fresh id; it opens the channel when it is granted. *)
DvcProcessCreate(id, name) ==
    /\ dvcLoop > 0 /\ id \notin DOMAIN srvOpen /\ name \notin Range(srvOpen)
    /\ IF DvcExists(name)
       THEN /\ channels' = SetId(name, id)
            /\ srvOpen' = [i \in DOMAIN srvOpen \cup {id} |->
                               IF i = id THEN name ELSE srvOpen[i]]
            /\ dvcSent' = [cmd |-> "granted", id |-> id]
       ELSE /\ dvcSent' = [cmd |-> "denied", id |-> id]
            /\ UNCHANGED <<channels, srvOpen>>
    /\ UNCHANGED <<dvcLoop, dispatch>>

(* A slot before the one of the open channel carries the same id: left by a  *)
(* channel of an earlier connection, or one that was wiped or never opened.  *)
Shadowed(id) ==
    \E i \in DOMAIN channels : i < SlotOf(srvOpen[id]) /\ channels[i].id = id

(* dvc_channels_get_by_id, and the handler of the slot: the first one that   *)
(* carries the id, without a look at its hash.                               *)
HandlerOf(id) ==
    IF SlotById(id) = 0 THEN NoName
    ELSE IF channels[SlotById(id)].name = NoName THEN NullHandler
    ELSE channels[SlotById(id)].name

DvcProcessData(id) ==
    /\ dvcLoop > 0 /\ id \in DOMAIN srvOpen
    /\ dispatch' = [id |-> id, want |-> srvOpen[id], by |-> HandlerOf(id),
                    shadowed |-> Shadowed(id)]
    /\ UNCHANGED <<channels, dvcLoop, srvOpen, dvcSent>>

(* dvc_channels_remove_by_id: name, handler and id of the slot are wiped. *)
RemoveById(id) ==
    IF SlotById(id) = 0 THEN channels
    ELSE [channels EXCEPT ![SlotById(id)] = FreeSlot]

DvcProcessClose(id) ==
    /\ dvcLoop > 0 /\ id \in DOMAIN srvOpen
    /\ channels' = RemoveById(id)
    /\ srvOpen' = [i \in DOMAIN srvOpen \ {id} |-> srvOpen[i]]
    /\ UNCHANGED <<dvcLoop, dispatch, dvcSent>>

DvcSend(name) ==
    /\ dvcLoop > 0
    /\ dvcSent' = IF DvcGetId(name) = INVALID_CHANNEL THEN dvcSent
                  ELSE [cmd |-> "data", id |-> DvcGetId(name)]
    /\ UNCHANGED <<channels, dvcLoop, srvOpen, dispatch>>

(* A call through NULL ends the client. *)
DvcNext ==
    /\ dispatch.by # NullHandler
    /\ \/ DvcConnect \/ DvcProcessCaps
       \/ \E name \in DvcNames : DvcAdd(name) \/ DvcSend(name)
       \/ \E id \in DvcIds : DvcProcessData(id) \/ DvcProcessClose(id)
       \/ \E id \in DvcIds, name \in DvcNames \cup DvcOtherNames :
              DvcProcessCreate(id, name)

DvcSpec == DvcInit /\ [][DvcNext]_dvcVars

-----------------------------------------------------------------------------
(* Properties *)

(* Data of a dynamic channel reaches the handler registered for the name the  *)
(* server opened it by, unless a slot before that name's carries the same id; *)
(* the NULL of an empty slot is only called for a channel with id 0, since a  *)
(* slot that is closed does not keep the id it had.                           *)
DataReachesHandler ==
    /\ dispatch.by = dispatch.want \/ dispatch.shadowed
    /\ dispatch.by = NullHandler => dispatch.id = 0
=============================================================================
