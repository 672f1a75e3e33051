------------------------------ MODULE FastPath ------------------------------
(***************************************************************************)
(* Fast-path updates: process_ts_fp_updates (rdp5.c) joins the fragments   *)
(* of an update in a buffer for each update code, after mppc_expand        *)
(* (mppc.c) has decompressed them against a history that is shared by all  *)
(* packets of the connection.  The buffers outlive connections.            *)
(***************************************************************************)
EXTENDS Naturals, Sequences

CONSTANTS
    FpCodes,            \* update codes: orders, bitmap, palette, pointer ...
    DICT_SIZE,          \* RDP_MPPC_DICT_SIZE
    FpPieces,           \* what a fragment may hold
    MaxUpdates,         \* updates the server sends (bound)
    MaxFragments        \* fragments of an update (bound)

Bytes == 0 .. 255

(* A compressed fragment holds less than the history: it has to fit in it.   *)
ASSUME FastPathConstants ==
    /\ DICT_SIZE \in Nat \ {0} /\ MaxUpdates \in Nat /\ MaxFragments \in Nat \ {0}
    /\ \A data \in FpPieces : data \in Seq(Bytes) /\ Len(data) \in 1 .. DICT_SIZE - 1

VARIABLES
    hist, roff,         \* g_mppc_dict
    assembled,          \* the buffer of each code
    ctype,              \* of the last update, "plain" if it is not compressed
    processed,          \* history: process_ts_fp_update_by_code got what was sent
    misread,            \* history: plain data of this connection was taken for
                        \* compressed data
    srvHist, srvOff,    \* environment: the compressor's history
    update,             \* environment: code, fragments and bytes sent so far
    nUpdates            \* environment: updates begun

fpVars == <<hist, roff, assembled, ctype, processed, misread,
            srvHist, srvOff, update, nUpdates>>

Idle == [code |-> 0, frags |-> 0, sent |-> << >>]
Cleared == [i \in 1 .. DICT_SIZE |-> 0]
Unwritten == 256                \* a byte the compressor has not written
Unknown == [i \in 1 .. DICT_SIZE |-> Unwritten]

FastPathTypeOK ==
    /\ hist \in [1 .. DICT_SIZE -> Bytes] /\ roff \in 0 .. DICT_SIZE
    /\ assembled \in [FpCodes -> Seq(Bytes)]
    /\ ctype \in {"plain", "none", "reset", "flush"}
    /\ srvHist \in [1 .. DICT_SIZE -> Bytes \cup {Unwritten}] /\ srvOff \in 0 .. DICT_SIZE
    /\ update.code \in FpCodes \cup {0} /\ update.frags \in 0 .. MaxFragments
    /\ update.sent \in Seq(Bytes)
    /\ nUpdates \in 0 .. MaxUpdates

FastPathInit ==
    /\ hist = Cleared /\ roff = 0 /\ srvHist = Unknown /\ srvOff = DICT_SIZE
    /\ assembled = [c \in FpCodes |-> << >>]
    /\ ctype = "plain" /\ processed = TRUE /\ misread = FALSE
    /\ update = Idle /\ nUpdates = 0

-----------------------------------------------------------------------------
(* mppc_expand over tokens: a literal byte, or a match of len bytes at a     *)
(* distance off; their bit encodings are not part of the model.              *)

Literal(d, b) ==
    IF ~d.ok \/ d.pos >= DICT_SIZE THEN [d EXCEPT !.ok = FALSE]
    ELSE [d EXCEPT !.hist[d.pos + 1] = b, !.pos = @ + 1]

(* Byte by byte: a source that runs into the bytes already copied repeats    *)
(* them. *)
Copied(d, k, len) ==
    LET copied[n \in 1 .. len] ==
            IF k < d.pos /\ k + n > d.pos THEN copied[k + n - d.pos] ELSE d.hist[k + n]
    IN  [d EXCEPT !.hist = [i \in 1 .. DICT_SIZE |->
                               IF i > d.pos /\ i <= d.pos + len
                               THEN copied[i - d.pos] ELSE d.hist[i]],
                  !.pos = @ + len]

(* A match that ends with the buffer is refused. *)
Match(d, off, len) ==
    LET k == (d.pos + DICT_SIZE - off) % DICT_SIZE
    IN  IF ~d.ok \/ d.pos + len >= DICT_SIZE \/ k + len > DICT_SIZE
        THEN [d EXCEPT !.ok = FALSE]
        ELSE Copied(d, k, len)

Token(d, t) == IF t.len = 0 THEN Literal(d, t.byte) ELSE Match(d, t.off, t.len)

Expanded(d, tokens) ==
    LET after[n \in 0 .. Len(tokens)] ==
            IF n = 0 THEN d ELSE Token(after[n - 1], tokens[n])
    IN  after[Len(tokens)]

(* Mutant: PACKET_AT_FRONT does not move the offset. *)
HistoryStart_NoReset(flags) ==
    [hist |-> IF flags = "flush" THEN Cleared ELSE hist,
     pos |-> IF flags = "flush" THEN 0 ELSE roff, ok |-> TRUE]

(* RDP_MPPC_RESET keeps the bytes, RDP_MPPC_FLUSH clears them. *)
HistoryStart(flags) ==
    [hist |-> IF flags = "flush" THEN Cleared ELSE hist,
     pos |-> IF flags \in {"flush", "reset"} THEN 0 ELSE roff, ok |-> TRUE]

(* An error keeps roff, has changed part of the history and yields nothing.  *)
MppcExpand(tokens, flags) ==
    LET start == HistoryStart(flags)
        end == Expanded(start, tokens)
    IN [hist |-> end.hist, roff |-> IF end.ok THEN end.pos ELSE start.pos,
        data |-> IF end.ok THEN SubSeq(end.hist, start.pos + 1, end.pos)
                 ELSE << >>]

-----------------------------------------------------------------------------
(* The compressor, external: it starts again at the front when a packet does *)
(* not fit or is the first of a connection, and then may still refer to all  *)
(* it has written.                                                           *)

AsLiterals(data) == [i \in DOMAIN data |-> [len |-> 0, off |-> 0, byte |-> data[i]]]
AsMatch(len, off) == <<[len |-> len, off |-> off, byte |-> 0]>>

(* Ways to send data at offset start: literals, or one match that yields it. *)
Encodings(data, start, from) ==
    {AsLiterals(data)} \cup
    {AsMatch(Len(data), off) : off \in
        {o \in 1 .. DICT_SIZE :
            LET end == Match([hist |-> from, pos |-> start, ok |-> TRUE], o, Len(data))
            IN end.ok /\ SubSeq(end.hist, start + 1, end.pos) = data}}

-----------------------------------------------------------------------------
(* One TS_FP_UPDATE *)

Assembled(code, frag, data) ==
    IF frag = "first" THEN data ELSE assembled[code] \o data

(* process_ts_fp_updates for one update, already expanded to data. *)
FpUpdate(code, frag, data, whole) ==
    IF frag = "single"
    THEN /\ processed' = (data = whole)
         /\ UNCHANGED assembled
    ELSE /\ assembled' = [assembled EXCEPT ![code] = Assembled(code, frag, data)]
         /\ processed' = (frag = "last" => assembled'[code] = whole)

Continue(code, frag, data) ==
    /\ IF frag \in {"single", "first"}
       THEN /\ update = Idle /\ nUpdates < MaxUpdates /\ nUpdates' = nUpdates + 1
       ELSE /\ update # Idle /\ update.code = code /\ UNCHANGED nUpdates
            /\ frag = "next" => update.frags < MaxFragments - 1
    /\ update' = IF frag \in {"single", "last"} THEN Idle
                 ELSE [code |-> code, frags |-> update.frags + 1,
                       sent |-> update.sent \o data]

(* In a packet of its own, or with flags that say that it is plain. *)
PlainUpdate(code, frag, data) ==
    /\ Continue(code, frag, data)
    /\ FpUpdate(code, frag, data, update.sent \o data)
    /\ ctype' = "plain"
    /\ UNCHANGED <<hist, roff, srvHist, srvOff, misread>>

CompressedUpdate(code, frag, data) ==
    LET fits == srvOff + Len(data) < DICT_SIZE
    IN \E flags \in {"none", "reset", "flush"} :
       /\ Continue(code, frag, data)
       /\ flags = "none" => fits
       /\ LET start == IF flags = "none" THEN srvOff ELSE 0
              from == IF flags = "flush" THEN Unknown ELSE srvHist
          IN /\ srvHist' = [i \in 1 .. DICT_SIZE |->
                               IF i > start /\ i <= start + Len(data)
                               THEN data[i - start] ELSE from[i]]
             /\ srvOff' = start + Len(data)
             /\ \E tokens \in Encodings(data, start, from) :
                   LET x == MppcExpand(tokens, flags)
                   IN /\ hist' = x.hist /\ roff' = x.roff
                      /\ FpUpdate(code, frag, x.data, update.sent \o data)
       /\ ctype' = flags /\ UNCHANGED misread

(* What plain data may look like to mppc_expand. *)
Misreadings(data) ==
    {AsLiterals(data)} \cup
    {AsMatch(Len(data), off) : off \in 1 .. DICT_SIZE}

(* Behind a compressed update of the same packet and without flags of its own *)
(* a plain one is expanded with the flags of the former: the loop never       *)
(* clears ctype. *)
MisreadUpdate(code, frag, data) ==
    /\ ctype # "plain" /\ misread' = TRUE
    /\ Continue(code, frag, data)
    /\ \E tokens \in Misreadings(data) :
           LET x == MppcExpand(tokens, ctype)
           IN /\ hist' = x.hist /\ roff' = x.roff
              /\ FpUpdate(code, frag, x.data, update.sent \o data)
    /\ UNCHANGED <<ctype, srvHist, srvOff>>

(* Environment: the connection is lost; the compressor starts afresh.        *)
FpReconnect ==
    /\ update' = Idle /\ srvHist' = Unknown /\ srvOff' = DICT_SIZE
    /\ ctype' = "plain" /\ misread' = FALSE /\ processed' = TRUE
    /\ UNCHANGED <<hist, roff, assembled, nUpdates>>

FastPathNext ==
    \/ FpReconnect
    \/ \E code \in FpCodes, frag \in {"single", "first", "next", "last"},
          data \in FpPieces :
           \/ PlainUpdate(code, frag, data)
           \/ CompressedUpdate(code, frag, data)
           \/ MisreadUpdate(code, frag, data)

FastPathSpec == FastPathInit /\ [][FastPathNext]_fpVars

-----------------------------------------------------------------------------
(* Properties *)

(* Every update that is processed is the one the server sent, however it was  *)
(* cut and compressed, and wherever an earlier connection was lost, unless    *)
(* plain data of this connection was misread. *)
UpdatesAreWhole == misread \/ processed

(* The client's history has, at the same offset, every byte the compressor    *)
(* may refer to, although it still holds the bytes of earlier connections,    *)
(* unless plain data of this one was misread. *)
HistoryInStep ==
    ~misread /\ srvOff < DICT_SIZE =>
        /\ roff = srvOff
        /\ \A i \in 1 .. DICT_SIZE : srvHist[i] \in {hist[i], Unwritten}
=============================================================================
