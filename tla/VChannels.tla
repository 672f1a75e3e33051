----------------------------- MODULE VChannels -----------------------------
(***************************************************************************)
(* Virtual channels, receiving side: channel_process (channels.c) joins    *)
(* the chunks of a message in the channel's buffer.  The channels are      *)
(* registered once and outlive connections.                                *)
(***************************************************************************)
EXTENDS Naturals, Sequences, SequencesExt

CONSTANTS
    Channels,       \* names of the static channels the client wants
    MAX_CHANNELS,   \* size of g_channels
    MaxPieces,      \* chunks of a message (bound)
    MaxMessages,    \* messages the server sends (bound)
    MaxLost         \* connections lost (bound)

ASSUME VChannelsConstants ==
    /\ {MAX_CHANNELS, MaxPieces, MaxMessages, MaxLost} \subseteq Nat

VARIABLES
    started,        \* main() is past the registrations
    g_channels,     \* registered channels; the index gives the MCS id
    chIn,           \* channel->in of each channel
    chGot,          \* history: messages handed to channel->process
    wire,           \* chunks on their way
    sending,        \* environment: the rest of the message of each channel
    nsent,          \* environment: messages begun
    nlost           \* environment: connections lost

staticVars == <<g_channels, chIn, chGot, wire, sending, nsent>>
vchanVars == <<started, staticVars, nlost>>

Content(m, size) == [i \in 1 .. size |-> <<m, i>>]
Contents == {Content(m, size) : m \in 1 .. MaxMessages, size \in 1 .. MaxPieces}

VChannelsTypeOK ==
    /\ started \in BOOLEAN
    /\ Len(g_channels) <= MAX_CHANNELS /\ IsInjective(g_channels)
    /\ \A c \in Channels :
           chIn[c] \in Seq((1 .. MaxMessages) \X (1 .. MaxPieces))
    /\ nsent \in 0 .. MaxMessages /\ nlost \in 0 .. MaxLost

VChannelsInit ==
    /\ started = FALSE /\ g_channels = << >>
    /\ chIn = [c \in Channels |-> << >>] /\ chGot = [c \in Channels |-> << >>]
    /\ wire = << >> /\ sending = [c \in Channels |-> << >>]
    /\ nsent = 0 /\ nlost = 0

-----------------------------------------------------------------------------
(* Registration *)

(* A full table leaves the channel out; the caller then does without it. *)
ChannelRegister(c) ==
    /\ ~started /\ c \notin Range(g_channels)
    /\ g_channels' = IF Len(g_channels) >= MAX_CHANNELS THEN g_channels
                     ELSE Append(g_channels, c)
    /\ UNCHANGED <<started, chIn, chGot, wire, sending, nsent, nlost>>

EnterLoop ==
    /\ ~started /\ started' = TRUE
    /\ UNCHANGED <<staticVars, nlost>>

-----------------------------------------------------------------------------
(* The server and the network *)

BeginSend(c) ==
    /\ started /\ sending[c] = << >> /\ nsent < MaxMessages
    /\ nsent' = nsent + 1
    /\ \E size \in 1 .. MaxPieces :
           sending' = [sending EXCEPT ![c] = Content(nsent', size)]
    /\ UNCHANGED <<started, g_channels, chIn, chGot, wire, nlost>>

SendChunk(c) ==
    /\ sending[c] # << >>
    /\ LET piece == Head(sending[c])
       IN wire' = Append(wire, [channel |-> c, piece |-> piece,
                                first |-> piece[2] = 1,
                                last |-> Len(sending[c]) = 1])
    /\ sending' = [sending EXCEPT ![c] = Tail(@)]
    /\ UNCHANGED <<started, g_channels, chIn, chGot, nsent, nlost>>

(* The connection is lost with whatever was on it; main() connects again. *)
Reconnect ==
    /\ started /\ nlost < MaxLost
    /\ nlost' = nlost + 1
    /\ wire' = << >> /\ sending' = [c \in Channels |-> << >>]
    /\ UNCHANGED <<started, g_channels, chIn, chGot, nsent>>

-----------------------------------------------------------------------------
(* channel_process *)

(* Mutant: the buffer is not emptied for the first chunk. *)
Buffered_Appends(chunk) == Append(chIn[chunk.channel], chunk.piece)

Buffered(chunk) ==
    IF chunk.first THEN <<chunk.piece>>     \* s_realloc, s_reset
    ELSE Append(chIn[chunk.channel], chunk.piece)

ChannelProcess ==
    /\ wire # << >>
    /\ LET chunk == Head(wire)  c == chunk.channel IN
       IF c \notin Range(g_channels) THEN UNCHANGED <<chIn, chGot>>
       ELSE IF chunk.first /\ chunk.last
       THEN /\ chGot' = [chGot EXCEPT ![c] = Append(@, <<chunk.piece>>)]
            /\ UNCHANGED chIn
       ELSE /\ chIn' = [chIn EXCEPT ![c] = Buffered(chunk)]
            /\ chGot' = IF chunk.last
                        THEN [chGot EXCEPT ![c] = Append(@, Buffered(chunk))]
                        ELSE chGot
    /\ wire' = Tail(wire)
    /\ UNCHANGED <<started, g_channels, sending, nsent, nlost>>

VChannelsNext ==
    \/ EnterLoop \/ Reconnect \/ ChannelProcess
    \/ \E c \in Channels : ChannelRegister(c) \/ BeginSend(c) \/ SendChunk(c)

VChannelsSpec == VChannelsInit /\ [][VChannelsNext]_vchanVars

-----------------------------------------------------------------------------
(* Properties *)

(* channel_process implements the message channel that the code above it      *)
(* relies on: whatever way the server cuts its messages and mixes the chunks  *)
(* of several channels, and wherever a connection is lost, each handler gets  *)
(* whole messages in the order in which they were sent.                       *)
Completed(w, c) ==
    LET whole[i \in 0 .. Len(w)] ==
            IF i = 0 THEN << >>
            ELSE IF w[i].channel = c /\ w[i].last
            THEN Append(whole[i - 1], Content(w[i].piece[1], w[i].piece[2]))
            ELSE whole[i - 1]
    IN whole[Len(w)]
Registered == Range(g_channels)
Abstract == INSTANCE MessageChannel WITH
    Endpoints <- Channels,
    inflight <- [c \in Channels |-> IF c \in Registered \/ ~started
                                    THEN Completed(wire, c) ELSE << >>],
    got <- chGot
MessagesArriveWhole == Abstract!MsgSpec
=============================================================================
