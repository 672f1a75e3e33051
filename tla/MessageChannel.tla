--------------------------- MODULE MessageChannel ---------------------------
(***************************************************************************)
(* What a virtual channel promises to the code above it: the messages the  *)
(* server sends arrive whole and in order, and a lost connection takes     *)
(* with it what had not arrived yet, never half of a message.              *)
(***************************************************************************)
EXTENDS Sequences

CONSTANTS Endpoints, Contents

VARIABLES
    inflight,   \* messages sent and not yet delivered, for each channel
    got         \* messages handed to the channel's process function

msgVars == <<inflight, got>>

MsgInit ==
    /\ inflight = [c \in Endpoints |-> << >>]
    /\ got = [c \in Endpoints |-> << >>]

Send(c) ==
    /\ \E m \in Contents : inflight' = [inflight EXCEPT ![c] = Append(@, m)]
    /\ UNCHANGED got

Deliver(c) ==
    /\ inflight[c] # << >>
    /\ got' = [got EXCEPT ![c] = Append(@, Head(inflight[c]))]
    /\ inflight' = [inflight EXCEPT ![c] = Tail(@)]

Lose ==
    /\ inflight' = [c \in Endpoints |-> << >>]
    /\ UNCHANGED got

MsgNext == Lose \/ \E c \in Endpoints : Send(c) \/ Deliver(c)

MsgSpec == MsgInit /\ [][MsgNext]_msgVars
=============================================================================
