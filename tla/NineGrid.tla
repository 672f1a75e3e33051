------------------------------ MODULE NineGrid ------------------------------
(***************************************************************************)
(* Nine-grid bitmaps (orders.c).  The server streams a bitmap in blocks,   *)
(* has it created under a number, and draws it stretched: the corners keep *)
(* their size, the edges and the middle are scaled or tiled.               *)
(***************************************************************************)
EXTENDS Integers, Sequences

CONSTANTS
    GridBitmaps,    \* numbers of nine-grid bitmaps
    GridBlocks,     \* blocks a bitmap is streamed in
    MaxGridOrders,  \* orders per activation (bound)
    MaxGridResets   \* activations after the first (bound)

ASSUME NineGridConstants ==
    GridBlocks \in Nat \ {0} /\ {MaxGridOrders, MaxGridResets} \subseteq Nat

VARIABLES
    grid,       \* g_ninegrid_stream and g_ninegrid_cache
    gridSrv     \* what the server streamed and created

gridVars == <<grid, gridSrv>>

NoStream == [active |-> FALSE, ninegrid |-> FALSE, blocks |-> << >>]
NoGrids == [b \in GridBitmaps |-> << >>]

(* A bitmap of the server: its blocks, numbered, of one stream. *)
Whole(stream) == [k \in 1 .. GridBlocks |-> <<stream, k>>]

NineGridTypeOK ==
    /\ {grid.stream.active, grid.stream.ninegrid, gridSrv.inside} \subseteq BOOLEAN
    /\ Len(grid.stream.blocks) <= MaxGridOrders
    /\ \A b \in GridBitmaps :
           gridSrv.grids[b] \in {<< >>} \cup {Whole(n) : n \in 1 .. gridSrv.streams}
    /\ gridSrv.orders \in 0 .. MaxGridOrders /\ gridSrv.resets \in 0 .. MaxGridResets

-----------------------------------------------------------------------------
(* Drawing *)

(* ninegrid_render_rect along one axis: the pixel of the source drawn at x,*)
(* in a destination of the given width.                                    *)
GridSource(g, x, width) ==
    LET all == g.last - g.first + 1
        before == IF g.left + g.right > all THEN all \div 2 ELSE g.left
        after == IF g.left + g.right > all THEN all - before ELSE g.right
        left == IF before < width THEN before ELSE width
        right == IF after < width - left THEN after ELSE width - left
        center == all - before - after
        wide == width - left - right
        at == IF x < left THEN g.first + x
              ELSE IF x >= width - right THEN g.last - (width - 1 - x)
              ELSE IF center <= 0 \/ wide <= 0 THEN g.first + before
              ELSE IF g.tile THEN g.first + before + ((x - left) % center)
              ELSE g.first + before + (((x - left) * center) \div wide)
    IN IF at < 0 THEN 0 ELSE IF at >= g.size THEN g.size - 1 ELSE at

(* Source rectangles with a right border: without one the code samples one *)
(* pixel behind a rectangle that the left border fills.                    *)
NineGrids ==
    [first : {0, 1}, last : {2, 3}, left : 0 .. 3, right : 1 .. 3, tile : BOOLEAN, size : {5}]

-----------------------------------------------------------------------------
(* Streams *)

StreamAppend(t, block) == [t EXCEPT !.stream.blocks = Append(@, block)]

(* ninegrid_finalize_stream: a short or a foreign stream is not decoded.   *)
FinalizeStream(t) ==
    IF t.stream.active /\ t.stream.ninegrid /\ Len(t.stream.blocks) >= GridBlocks
    THEN SubSeq(t.stream.blocks, 1, GridBlocks) ELSE << >>

(* The last block has the stream decoded in place. *)
StreamEnd(t, last) ==
    IF last /\ FinalizeStream(t) # << >> THEN [t EXCEPT !.stream.blocks = FinalizeStream(t)]
    ELSE t

StreamBitmapFirst(t, ninegrid, block, last) ==
    StreamEnd(StreamAppend([t EXCEPT !.stream = [active |-> TRUE, ninegrid |-> ninegrid,
                                                 blocks |-> << >>]], block), last)

StreamBitmapNext(t, ninegrid, block, last) ==
    IF ~t.stream.active \/ t.stream.ninegrid # ninegrid THEN t
    ELSE StreamEnd(StreamAppend(t, block), last)

(* A stream that does not decode is taken as it is, when it is long enough.*)
CreateNinegridBitmap(t, b, supported) ==
    LET data == IF FinalizeStream(t) # << >> THEN FinalizeStream(t) ELSE t.stream.blocks
    IN IF ~supported \/ ~t.stream.active \/ Len(data) < GridBlocks THEN t
       ELSE [t EXCEPT !.grids[b] = data, !.stream = NoStream]

(* reset_order_state frees the bitmaps and the stream. *)
FreeCache(t) == [grids |-> NoGrids, stream |-> NoStream]

-----------------------------------------------------------------------------
(* Actions *)

GridOrdered == gridSrv.orders < MaxGridOrders

DrawNineGrid ==
    /\ GridOrdered
    /\ \E g \in NineGrids, width \in 1 .. 6 :
           gridSrv' = [gridSrv EXCEPT !.orders = MaxGridOrders, !.inside =
                          \A x \in 0 .. width - 1 : GridSource(g, x, width) \in g.first .. g.last]
    /\ UNCHANGED grid

(* The server streams a bitmap, of this type or another, and may give it   *)
(* up for a new one at any block.                                          *)
SendFirst ==
    /\ GridOrdered
    /\ \E ninegrid \in BOOLEAN :
           LET n == gridSrv.streams + 1
           IN /\ grid' = StreamBitmapFirst(grid, ninegrid, <<n, 1>>, GridBlocks = 1)
              /\ gridSrv' = [gridSrv EXCEPT !.orders = @ + 1, !.streams = n,
                                            !.sent = 1, !.ninegrid = ninegrid]

SendNext ==
    /\ GridOrdered /\ gridSrv.sent \in 1 .. GridBlocks - 1
    /\ grid' = StreamBitmapNext(grid, gridSrv.ninegrid,
                                <<gridSrv.streams, gridSrv.sent + 1>>,
                                gridSrv.sent + 1 = GridBlocks)
    /\ gridSrv' = [gridSrv EXCEPT !.orders = @ + 1, !.sent = @ + 1]

(* Only 32 bit nine-grids are supported; the server has one created of     *)
(* each nine-grid stream it finished.                                      *)
SendCreate ==
    /\ GridOrdered /\ gridSrv.sent = GridBlocks /\ gridSrv.ninegrid
    /\ \E b \in GridBitmaps, supported \in BOOLEAN :
           /\ grid' = CreateNinegridBitmap(grid, b, supported)
           /\ gridSrv' = [gridSrv EXCEPT !.orders = @ + 1, !.sent = 0,
                             !.grids[b] = IF supported THEN Whole(gridSrv.streams) ELSE @]

(* process_demand_active *)
GridReset ==
    /\ gridSrv.resets < MaxGridResets
    /\ grid' = FreeCache(grid)
    /\ gridSrv' = [gridSrv EXCEPT !.orders = 0, !.sent = 0, !.grids = NoGrids, !.resets = @ + 1]

NineGridInit ==
    /\ grid = [stream |-> NoStream, grids |-> NoGrids]
    /\ gridSrv = [orders |-> 0, streams |-> 0, sent |-> 0, ninegrid |-> FALSE,
                  grids |-> NoGrids, resets |-> 0, inside |-> TRUE]

NineGridNext == DrawNineGrid \/ SendFirst \/ SendNext \/ SendCreate \/ GridReset

NineGridSpec == NineGridInit /\ [][NineGridNext]_gridVars

-----------------------------------------------------------------------------
(* Properties *)

(* A nine-grid bitmap is the last whole stream the server had created of   *)
(* it, never the end of one stream behind the beginning of another.        *)
NineGridsAreWhole == grid.grids = gridSrv.grids

(* Corners, edges and middle come from inside the source rectangle, at     *)
(* every destination size, also when the borders do not fit.               *)
SamplesStayInside == gridSrv.inside
=============================================================================
