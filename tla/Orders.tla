------------------------------- MODULE Orders -------------------------------
(***************************************************************************)
(* Drawing orders (orders.c).  A primary order carries only the fields that*)
(* changed since the last order of its type, so that the server and the    *)
(* client have to keep the same state; polygons and nine-grid lists are    *)
(* coded as deltas.                                                        *)
(*                                                                         *)
(* A field of an order is a coordinate, which may come as an 8 bit delta,  *)
(* a list of coded deltas, or plain data; a packet is the sequence of its  *)
(* fields, each one element.                                               *)
(* Coordinates are numbers below CoordWidth, deltas -1, 0 and 1.           *)
(***************************************************************************)
EXTENDS Integers, Sequences, SequencesExt

CONSTANTS
    CoordWidth,     \* number of values of a coordinate (2^16 in the code)
    LowValues,      \* values of the low bits of a coded delta (64)
    ByteValues,     \* values of its second byte (256)
    OrderWord,           \* values of a length field (2^16)
    MaxOrders,      \* drawing orders per connection (bound)
    MaxActivations  \* demand active PDUs after the first (bound)

ASSUME OrdersConstants ==
    /\ {CoordWidth, LowValues, ByteValues, OrderWord} \subseteq Nat \ {0}
    /\ {MaxOrders, MaxActivations} \subseteq Nat

-----------------------------------------------------------------------------
(* The fields of each order, one per bit of its present flags *)

Coord == "coordinate"
Data == "data"
DeltaList == "delta list"
Unused == "unused"

BrushFields == <<Data, Data, Data, Data, Data>>     \* rdp_parse_brush
PenFields == <<Data, Data, Data>>                   \* rdp_parse_pen
FourCoords == <<Coord, Coord, Coord, Coord>>

DestbltFields == FourCoords \o <<Data>>
PatbltFields == FourCoords \o <<Data, Data, Data>> \o BrushFields
ScreenbltFields == FourCoords \o <<Data, Coord, Coord>>
DrawninegridFields == FourCoords \o <<Data>>
MultidrawninegridFields == FourCoords \o <<Data, Data, DeltaList>>
LineFields == <<Data>> \o FourCoords \o <<Data, Data>> \o PenFields
RectFields == FourCoords \o <<Data, Data, Data>>    \* a colour by its three bytes
DesksaveFields == <<Data>> \o FourCoords \o <<Data>>
MembltFields == <<Data>> \o FourCoords \o <<Data, Coord, Coord, Data>>
TribltFields == MembltFields \o <<Data>> \o BrushFields \o <<Data, Data>>
PolygonFields == <<Coord, Coord, Data, Data, Data, Data, Data>>
Polygon2Fields == <<Coord, Coord, Data, Data, Data, Data>> \o BrushFields \o <<Data, Data>>
PolylineFields == <<Coord, Coord, Data, Unused, Data, Data, Data>>
EllipseFields == FourCoords \o <<Data, Data, Data>>
Ellipse2Fields == FourCoords \o <<Data, Data, Data, Data>> \o BrushFields
Text2Fields == [f \in 1 .. 14 |-> Data] \o BrushFields \o <<Data, Data, Data>>

FieldsOf ==
    [destblt |-> DestbltFields, patblt |-> PatbltFields, screenblt |-> ScreenbltFields,
     drawninegrid |-> DrawninegridFields, multidrawninegrid |-> MultidrawninegridFields,
     line |-> LineFields, rect |-> RectFields, desksave |-> DesksaveFields,
     memblt |-> MembltFields, triblt |-> TribltFields, polygon |-> PolygonFields,
     polygon2 |-> Polygon2Fields, polyline |-> PolylineFields, ellipse |-> EllipseFields,
     ellipse2 |-> Ellipse2Fields, text2 |-> Text2Fields]

OrderTypes == DOMAIN FieldsOf

(* Bytes of present flags each order has, before SMALL and TINY. *)
PresentSize(type) ==
    CASE type \in {"triblt", "text2"} -> 3
      [] type \in {"patblt", "memblt", "line", "polygon2", "ellipse2"} -> 2
      [] OTHER -> 1

VARIABLES
    od,         \* g_order_state
    odSrv       \* the server's order state, and what the last order drew

orderVars == <<od, odSrv>>

(* A coded delta list: none, one that fits in MAX_DATA bytes, or one that  *)
(* does not (45 rectangles of two byte deltas need 383 bytes).             *)
NoList == 0
LongList == 2

FieldValues(type, f) ==
    IF FieldsOf[type][f] = Coord THEN 0 .. CoordWidth - 1 ELSE {0, 1}

OrdersTypeOK ==
    /\ od.type \in OrderTypes /\ odSrv.type \in OrderTypes
    /\ \A o \in OrderTypes :
           /\ Len(od.os[o]) = Len(FieldsOf[o])
           /\ \A f \in 1 .. Len(FieldsOf[o]) : od.os[o][f] \in FieldValues(o, f)
    /\ od.bounds \in [1 .. 4 -> 0 .. CoordWidth - 1]
    /\ odSrv.ok \in BOOLEAN

Blank == [o \in OrderTypes |-> [f \in 1 .. Len(FieldsOf[o]) |-> 0]]

(* reset_order_state; the mutant keeps the fields of the last connection. *)
ResetOrderState_KeepsFields(s) ==
    [s EXCEPT !.bounds = [c \in 1 .. 4 |-> 0], !.type = "patblt"]

ResetOrderState(s) == [ResetOrderState_KeepsFields(s) EXCEPT !.os = Blank]

-----------------------------------------------------------------------------
(* Primary orders: what the server sends *)

FieldsPer == 8                  \* present flags in a byte

(* The packet of an order: `zeros` trailing bytes of flags are left out. *)
Present(fields, size, zeros) ==
    [byte \in 1 .. size - zeros |->
        {f \in fields : (f - 1) \div FieldsPer = byte - 1}]

Fits(old, new) == new - old \in {-1, 0, 1}

Coded(kind, old, new, delta) == IF kind = Coord /\ delta THEN new - old ELSE new

(* SMALL stands for one byte less, TINY for two. *)
Zeros(fields, size) ==
    {z \in 0 .. size : \A f \in fields : (f - 1) \div FieldsPer < size - z}

-----------------------------------------------------------------------------
(* Primary orders: process_orders *)

InPresent(s, flags, size) ==
    LET small == IF flags.small THEN size - 1 ELSE size
        n == IF ~flags.tiny THEN small ELSE IF small < 2 THEN 0 ELSE small - 2
    IN [fields |-> UNION {s[byte] : byte \in 1 .. n}, rest |-> SubSeq(s, n + 1, Len(s))]

InCoord(old, value, delta) == IF delta THEN (old + value) % CoordWidth ELSE value

(* Present fields are read in the order of their bits; a list of more than *)
(* MAX_DATA bytes is skipped and leaves an empty one.                      *)
ReadFields(old, kinds, fields, s, delta) ==
    [f \in 1 .. Len(kinds) |->
        IF f \notin fields THEN old[f]
        ELSE LET value == s[Cardinality({g \in fields : g <= f})]
             IN CASE kinds[f] = Coord -> InCoord(old[f], value, delta)
                  [] kinds[f] = DeltaList /\ value = LongList -> NoList
                  [] OTHER -> value]

(* A bound comes in full, as a delta, or not at all. *)
ParseBounds(old, coded) ==
    [c \in 1 .. 4 |-> CASE coded[c].how = "absolute" -> InCoord(old[c], coded[c].value, FALSE)
                        [] coded[c].how = "delta" -> InCoord(old[c], coded[c].value, TRUE)
                        [] OTHER -> old[c]]

ProcessOrder(t, flags, type, s, bounds) ==
    LET o == IF flags.change THEN type ELSE t.type
        p == InPresent(s, flags, PresentSize(o))
    IN [t EXCEPT !.type = o,
                 !.bounds = IF flags.bounds /\ ~flags.lastbounds
                            THEN ParseBounds(@, bounds) ELSE @,
                 !.os[o] = ReadFields(@, FieldsOf[o], p.fields, p.rest, flags.delta)]

-----------------------------------------------------------------------------
(* Coded deltas: a first byte of two_byte, sign and low bits, and a second *)
(* byte if two_byte is set.                                                *)

(* Two's complement, for polygons and polylines. *)
ParseDelta(e) ==
    LET value == IF e.sign THEN e.low - LowValues ELSE e.low
    IN IF e.two THEN value * ByteValues + e.next ELSE value

(* Sign and magnitude, for nine-grid rectangles. *)
ParsePackedSignedDelta(e) ==
    LET value == IF e.two THEN e.low * ByteValues + e.next ELSE e.low
    IN IF e.sign THEN -value ELSE value

(* The server's coding of a number, in one byte or two. *)
DeltaRange(two) == IF two THEN LowValues * ByteValues ELSE LowValues

Coding(v, packed, two) ==
    LET bits == IF ~packed THEN v % DeltaRange(two) ELSE IF v < 0 THEN -v ELSE v
    IN [two |-> two, sign |-> v < 0,
        low |-> IF two THEN bits \div ByteValues ELSE bits,
        next |-> IF two THEN bits % ByteValues ELSE 0]

(* parse_delta_rectangles: four sides a rectangle, each the side of the    *)
(* last one and a delta; a zero bit leaves the delta out of the data.      *)
DeltaRectangles(zero, data) ==
    LET Delta(i) == IF zero[i] THEN 0
                    ELSE ParsePackedSignedDelta(data[Cardinality({j \in 1 .. i : ~zero[j]})])
        Side[i \in 1 .. Len(zero)] == (IF i <= 4 THEN 0 ELSE Side[i - 4]) + Delta(i)
    IN Side

-----------------------------------------------------------------------------
(* Secondary orders *)

(* process_secondary_order: bytes from the end of the six byte header to   *)
(* the next order, in a signed variable of the width of the field.         *)
Signed(n) == ((n + OrderWord \div 2) % OrderWord) - (OrderWord \div 2)

SecondaryLength(field) == Signed(Signed(Signed(field) + 13) - 6)

(* process_fontcache: the bytes of a glyph, in whole words. *)
GlyphBytes(width, height) == 4 * ((height * ((width + 7) \div 8) + 3) \div 4)

(* process_brushcache: the rows of an 8 by 8 brush, from their order in    *)
(* the packet; two-colour and compressed brushes come bottom up.           *)
BrushRows(colour_code, size, rows) ==
    CASE colour_code = 1 /\ size = 8 -> Reverse(rows)
      [] colour_code \in 3 .. 6 /\ size = 16 + 4 * (colour_code - 2) -> Reverse(rows)
      [] colour_code \in 3 .. 6 -> rows
      [] OTHER -> << >>

(* process_compressed_8x8_brush_data: byte and shift of a pixel's index.   *)
BrushIndex(x, y) == <<2 * (7 - y) + x \div 4, 6 - 2 * (x % 4)>>

(* process_colcache: entries are four bytes, blue first, the last unused.  *)
ColourEntry(s, i) == [blue |-> s[4 * i + 1], green |-> s[4 * i + 2], red |-> s[4 * i + 3]]


-----------------------------------------------------------------------------
(* Actions *)

OrderSent == odSrv.orders < MaxOrders

(* The server changes no field, the last or all of them. *)
Changes(type) ==
    LET last == Len(FieldsOf[type])
    IN {{}, {last}, {f \in 1 .. last : FieldsOf[type][f] # Unused}}

NewValue(type, f, big) ==
    LET old == odSrv.os[type][f]
    IN CASE FieldsOf[type][f] = Coord -> (old + big) % CoordWidth
         [] FieldsOf[type][f] = DeltaList -> (old + (IF big = 1 THEN 1 ELSE 2)) % (LongList + 1)
         [] OTHER -> 1 - old

PrimaryOrder ==
    /\ OrderSent
    /\ \E type \in OrderTypes, big \in {1, CoordWidth \div 2}, delta \in BOOLEAN,
         bound \in {"none", "last", "absolute", "delta"} :
       \E fields \in Changes(type) :
           LET kinds == FieldsOf[type]
               old == odSrv.os[type]
               new == [f \in DOMAIN old |->
                          IF f \in fields THEN NewValue(type, f, big) ELSE old[f]]
               order == SelectSeq([f \in DOMAIN old |-> f], LAMBDA f : f \in fields)
               values == [k \in 1 .. Len(order) |->
                             Coded(kinds[order[k]], old[order[k]], new[order[k]], delta)]
               side == (odSrv.bounds[1] + 1) % CoordWidth
               coded == [c \in 1 .. 4 |->
                           [how |-> IF c = 1 THEN bound ELSE "none",
                            value |-> IF bound = "absolute" THEN side ELSE 1]]
               size == (Len(kinds) + FieldsPer - 1) \div FieldsPer
           IN /\ delta => \A f \in fields : kinds[f] = Coord => Fits(old[f], new[f])
              /\ \E z \in Zeros(fields, size) :
                     od' = ProcessOrder(od, [change |-> type # odSrv.type, delta |-> delta,
                                             small |-> z \in {1, 3}, tiny |-> z \in {2, 3},
                                             bounds |-> bound # "none",
                                             lastbounds |-> bound = "last"],
                                        type, Present(fields, size, z) \o values, coded)
              /\ odSrv' = [odSrv EXCEPT !.os[type] = new, !.type = type, !.orders = @ + 1,
                              !.bounds = IF bound \in {"absolute", "delta"}
                                         THEN [@ EXCEPT ![1] = side] ELSE @]

(* Lists of points and rectangles.  Lists and secondary orders keep no     *)
(* state here: they are tried once.                                        *)
PointList ==
    /\ OrderSent /\ odSrv.orders = 0
    /\ \E two, packed \in BOOLEAN :
       \E v \in 1 - DeltaRange(two) .. DeltaRange(two) - 1 :
           LET e == Coding(v, packed, two)
           IN odSrv' = [odSrv EXCEPT !.orders = @ + 1,
                  !.ok = v = (IF packed THEN ParsePackedSignedDelta(e) ELSE ParseDelta(e))]
    /\ UNCHANGED od

(* Two rectangles, each side coded from the same side of the one before;   *)
(* a side that did not change has its zero bit set or a delta of zero.     *)
RectangleList ==
    /\ OrderSent /\ odSrv.orders = 0
    /\ \E side \in [1 .. 8 -> {0, 1}], bits, two \in BOOLEAN :
           LET change == [i \in 1 .. 8 |-> IF i <= 4 THEN side[i] ELSE side[i] - side[i - 4]]
               zero == [i \in 1 .. 8 |-> bits /\ change[i] = 0]
               given == SelectSeq([i \in 1 .. 8 |-> i], LAMBDA i : ~zero[i])
               data == [k \in 1 .. Len(given) |-> Coding(change[given[k]], TRUE, two)]
           IN odSrv' = [odSrv EXCEPT !.orders = @ + 1,
                           !.ok = DeltaRectangles(zero, data) = side]
    /\ UNCHANGED od

(* A secondary order of any type ends where its length says: the server    *)
(* writes the bytes of the whole order less 13.  The code refuses those of *)
(* more than OrderWord \div 2 + 5 bytes, whose length it reads as negative.*)
SecondaryOrder ==
    /\ OrderSent /\ odSrv.orders = 0
    /\ \E length \in 6 .. OrderWord \div 2 + 5, width \in 1 .. 9, height \in 1 .. 3, row \in 0 .. 7 :
           odSrv' = [odSrv EXCEPT !.orders = @ + 1, !.ok =
               /\ 6 + SecondaryLength((length - 13) % OrderWord) = length
               /\ GlyphBytes(width, height) % 4 = 0
               /\ GlyphBytes(width, height) - height * (IF width = 9 THEN 2 ELSE 1) \in 0 .. 3
               /\ \A b \in {<<1, 8>>, <<3, 20>>, <<6, 32>>} :
                      BrushRows(b[1], b[2], [i \in 1 .. 8 |-> i])[row + 1] = 8 - row
               /\ \A x \in 0 .. 7 : 4 * BrushIndex(x, row)[1] + (6 - BrushIndex(x, row)[2]) \div 2
                                       = 8 * (7 - row) + x
               /\ ColourEntry([i \in 1 .. 8 |-> i], 1) = [blue |-> 5, green |-> 6, red |-> 7]]
    /\ UNCHANGED od

(* process_demand_active: both sides start again. *)
DemandActive ==
    /\ odSrv.activations < MaxActivations
    /\ od' = ResetOrderState(od)
    /\ odSrv' = [odSrv EXCEPT !.os = Blank, !.bounds = [c \in 1 .. 4 |-> 0], !.type = "patblt",
                              !.orders = 0, !.activations = @ + 1]

OrdersInit ==
    /\ od = [os |-> Blank, bounds |-> [c \in 1 .. 4 |-> 0], type |-> "patblt"]
    /\ odSrv = [os |-> Blank, bounds |-> [c \in 1 .. 4 |-> 0], type |-> "patblt",
                orders |-> 0, activations |-> 0, ok |-> TRUE]

OrdersNext == PrimaryOrder \/ PointList \/ RectangleList \/ SecondaryOrder \/ DemandActive

OrdersSpec == OrdersInit /\ [][OrdersNext]_orderVars

-----------------------------------------------------------------------------
(* Properties *)

(* The client decodes every order against the state the server coded it    *)
(* against: fields, bounds and order type agree after each order and each  *)
(* activation; once they differ all later orders draw in the wrong place.  *)
(* The exception is a nine-grid list of more than MAX_DATA bytes: the code *)
(* keeps none, and draws no multi nine-grid order until the next list.     *)
Held(type, f) ==
    LET value == odSrv.os[type][f]
    IN IF FieldsOf[type][f] = DeltaList /\ value = LongList THEN NoList ELSE value

OrderStateInStep ==
    /\ \A o \in OrderTypes : \A f \in DOMAIN od.os[o] : od.os[o][f] = Held(o, f)
    /\ od.bounds = odSrv.bounds /\ od.type = odSrv.type

(* Every number a server codes, in either form and either size, is decoded *)
(* as that number, and every list of rectangles as those rectangles; a     *)
(* secondary order's length leads to the next order, and the glyphs,       *)
(* brushes and colours it holds are read from the right places.            *)
ListsDecode == odSrv.ok
=============================================================================
