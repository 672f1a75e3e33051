------------------------------- MODULE Cache -------------------------------
(***************************************************************************)
(* The bitmap cache (cache.c) over its file (pstcache.c), fed by the bitmap*)
(* cache orders, and the smaller caches.  Bitmap cache 2 is persistent: an *)
(* array of more entries than may be in memory, threaded by a doubly       *)
(* linked list from least to most recently used.                           *)
(***************************************************************************)
EXTENDS Integers, Sequences, FiniteSetsExt, SequencesExt, Functions

CONSTANTS
    PstCells,       \* BMPCACHE2_NUM_PSTCELLS
    C2Cells,        \* BMPCACHE2_C2_CELLS, the bitmaps in memory
    BumpCount,      \* BUMP_COUNT
    Bitmaps,        \* the bitmaps of the server, by key
    MaxCacheOrders, \* orders of the server (bound)
    MaxCacheRuns    \* processes and connections after the first (bound)

ASSUME CacheConstants ==
    /\ C2Cells \in Nat \ {0} /\ PstCells \in Nat /\ BumpCount \in Nat
    /\ Bitmaps \subseteq Nat \ {0} /\ MaxCacheOrders \in Nat /\ MaxCacheRuns \in Nat

Idx == 0 .. PstCells - 1
NotSet == -1
Volatile == PstCells            \* index 0x7fff, the waiting list entry
NoBitmap == 0
Garbage == Max(Bitmaps) + 1      \* what a cell holds whose data was never written
Contents == Bitmaps \cup {NoBitmap, Garbage}
NoCell == [key |-> 0, data |-> Garbage, stamp |-> 0]
SmallCell == PstCells + 1       \* an entry of a small cache: font, text, cursor, brush
Slots == Idx \cup {Volatile, SmallCell}

VARIABLES
    mem,        \* g_bmpcache, g_bmpcache_lru, g_bmpcache_mru, g_bmpcache_count, g_volatile_bc,
                \* g_pstcache_enumerated and IS_PERSISTENT
    file,       \* the cells of the cache file
    cacheSrv    \* what the server stored, per index, and how the last draw went

cacheVars == <<mem, file, cacheSrv>>

CacheTypeOK ==
    /\ mem.bmp \in [Slots -> Contents]
    /\ mem.next \in [Idx -> Idx \cup {NotSet}] /\ mem.prev \in [Idx -> Idx \cup {NotSet}]
    /\ {mem.lru, mem.mru} \subseteq Idx \cup {NotSet} /\ mem.count \in 0 .. C2Cells
    /\ {mem.persistent, mem.enumerated, mem.exited} \subseteq BOOLEAN
    /\ \A i \in Idx : {file[i].key, file[i].data} \subseteq Contents

(* A new process; the static links start as zero. *)
CacheProcess ==
    [bmp |-> [i \in Slots |-> NoBitmap],
     next |-> [i \in Idx |-> 0], prev |-> [i \in Idx |-> 0],
     lru |-> NotSet, mru |-> NotSet, count |-> 0, dims |-> 0,
     persistent |-> FALSE, enumerated |-> FALSE, exited |-> FALSE]

-----------------------------------------------------------------------------
(* The list of bitmaps in memory.  A cache operation works on one state    *)
(* t = [m |-> mem, f |-> file].                                            *)

TouchBitmap(t, i, stamp) ==
    IF t.m.persistent /\ i \in Idx THEN [t EXCEPT !.f[i].stamp = stamp] ELSE t

Unlink2(m, i) ==
    LET n == m.next[i]
        p == m.prev[i]
    IN [m EXCEPT !.count = @ - 1, !.prev[n] = p,
                 !.next = IF p >= 0 THEN [@ EXCEPT ![p] = n] ELSE @,
                 !.lru = IF p >= 0 THEN @ ELSE n]

Insert(m, i, p, n) ==
    [m EXCEPT !.count = @ + 1,
              !.prev = [k \in Idx |-> IF k = i THEN p ELSE IF k = n THEN i ELSE @[k]],
              !.next = [k \in Idx |-> IF k = i THEN n ELSE IF k = p THEN i ELSE @[k]],
              !.lru = IF p >= 0 THEN @ ELSE i,
              !.mru = IF n >= 0 THEN @ ELSE i]

(* The neighbours `bump` places further towards the most recently used. *)
Place(m, p, n, bump) ==
    LET Walk[k \in 0 .. bump] ==
            IF k = 0 THEN <<p, n>>
            ELSE LET w == Walk[k - 1]
                 IN IF w[2] < 0 THEN w ELSE <<w[2], m.next[w[2]]>>
    IN Walk[bump]

BumpBitmap(t, i, toTop) ==
    LET linked == t.m.next[i] >= 0
        out == IF linked THEN Unlink2(t.m, i) ELSE t.m
        w == IF toTop THEN <<out.mru, NotSet>>
             ELSE IF linked THEN Place(out, t.m.prev[i], t.m.next[i], BumpCount)
             ELSE Place(out, NotSet, out.lru, BumpCount)
    IN IF ~t.m.persistent \/ t.m.mru = i THEN t
       ELSE [t EXCEPT !.m = Insert(out, i, w[1], w[2])]

EvictBitmap(t) ==
    LET i == t.m.lru
        n == t.m.next[i]
    IN IF ~t.m.persistent THEN t
       ELSE TouchBitmap([t EXCEPT !.m.bmp[i] = NoBitmap, !.m.count = @ - 1,
                                  !.m.lru = n, !.m.prev[n] = NotSet], i, 0)

(* Mutant: the links of an evicted bitmap are taken for its new place. *)
FreshLinks_Kept(m, i) == m

FreshLinks(m, i) ==
    IF m.bmp[i] = NoBitmap THEN [m EXCEPT !.prev[i] = NotSet, !.next[i] = NotSet] ELSE m

PutBitmap(t, i, b) ==
    LET put == [t EXCEPT !.m.bmp[i] = b]
        top == BumpBitmap([put EXCEPT !.m = [FreshLinks(t.m, i) EXCEPT !.bmp[i] = b]], i, TRUE)
    IN IF i = Volatile THEN [put EXCEPT !.m.dims = 0]
       ELSE IF i = SmallCell \/ ~t.m.persistent THEN put
       ELSE IF top.m.count > C2Cells THEN EvictBitmap(top) ELSE top

LoadBitmap(t, i) ==
    IF t.m.persistent /\ i \in Idx THEN PutBitmap(t, i, t.f[i].data) ELSE t

GetBitmap(t, i) ==
    LET u == IF t.m.bmp[i] = NoBitmap THEN LoadBitmap(t, i) ELSE t
    IN IF i \notin Idx \/ u.m.bmp[i] = NoBitmap THEN u ELSE BumpBitmap(u, i, FALSE)

(* The first half of the cell is its header with the key, then the data; a *)
(* crash comes before, between or after the two writes.                    *)
SaveBitmap(t, i, b) ==
    IF t.m.persistent /\ i \in Idx
    THEN [t EXCEPT !.f[i] = [key |-> b, data |-> b, stamp |-> 0]] ELSE t

SaveHeader(t, i, b) == [t EXCEPT !.f[i] = [@ EXCEPT !.key = b, !.stamp = 0]]

(* A whole update of the volatile entry reuses its pixmap. *)
BitmapForUpdate(t, i, dims) == i = Volatile /\ t.m.bmp[i] # NoBitmap /\ t.m.dims = dims

PutWithDimensions(t, i, b, dims) ==
    LET put == PutBitmap(t, i, b)
    IN IF i = Volatile THEN [put EXCEPT !.m.dims = dims] ELSE put

-----------------------------------------------------------------------------
(* Connecting: the file is opened once and its keys are sent once *)

InitPstcache(t, free) == IF t.m.enumerated THEN t ELSE [t EXCEPT !.m.persistent = free]

(* Cells are read up to the first empty one. *)
Enumerated(t) == {i \in Idx : \A j \in 0 .. i : t.f[j].key # 0}

Precached(t) ==
    FoldLeft(LAMBDA u, i : IF t.f[i].stamp # 0 THEN LoadBitmap(u, i) ELSE u,
             t, SetToSortSeq(Enumerated(t), <))

(* A stable sort by stamp links what is in memory. *)
RebuildList(t, cells) ==
    LET order == SelectSeq(
            SetToSortSeq(Enumerated(t), LAMBDA i, j : cells[i].stamp < cells[j].stamp
                                            \/ (cells[i].stamp = cells[j].stamp /\ i < j)),
            LAMBDA i : t.m.bmp[i] # NoBitmap)
        n == Len(order)
        At(i) == CHOOSE k \in 1 .. n : order[k] = i
    IN IF n = 0 THEN [t EXCEPT !.m.lru = NotSet, !.m.mru = NotSet]
       ELSE [t EXCEPT !.m.lru = order[1], !.m.mru = order[n], !.m.exited = (n # t.m.count),
                !.m.next = [i \in Idx |-> IF ~Contains(order, i) THEN @[i]
                              ELSE IF At(i) = n THEN NotSet ELSE order[At(i) + 1]],
                !.m.prev = [i \in Idx |-> IF ~Contains(order, i) THEN @[i]
                              ELSE IF At(i) = 1 THEN NotSet ELSE order[At(i) - 1]]]

EnumeratePstcache(t) ==
    IF t.m.persistent /\ ~t.m.enumerated
    THEN [RebuildList(Precached(t), t.f) EXCEPT !.m.enumerated = TRUE] ELSE t

(* cache_save_state: stamps from the least recently used on. *)
SaveState(t) ==
    LET Chain[k \in 1 .. C2Cells] ==
            IF k = 1 THEN t.m.lru
            ELSE IF Chain[k - 1] < 0 THEN NotSet ELSE t.m.next[Chain[k - 1]]
    IN IF t.m.persistent
       THEN FoldLeft(LAMBDA u, k : TouchBitmap(u, Chain[k], k), t, [k \in 1 .. C2Cells |-> k])
       ELSE t

-----------------------------------------------------------------------------
(* The server and its orders *)

Both == [m |-> mem, f |-> file]

CacheBecomes(t) == mem' = t.m /\ file' = t.f

Known(i, b) == [cacheSrv EXCEPT !.known[i] = b, !.orders = @ + 1, !.torn = IF mem.persistent THEN @ \ {i} ELSE @]

CacheReady == mem.persistent = cacheSrv.pst /\ cacheSrv.orders < MaxCacheOrders /\ ~mem.exited

CacheRuns ==
    /\ cacheSrv.runs < MaxCacheRuns
    /\ cacheSrv.connected

(* An update bitmap order, version 2: flags PERSIST when the cache is.     *)
ProcessBmpcache2 ==
    /\ CacheReady /\ cacheSrv.connected
    /\ \E i \in Idx \cup {Volatile}, b \in Bitmaps, dims \in {1, 2} :
           /\ i \in Idx => dims = 1
           /\ CacheBecomes(IF BitmapForUpdate(Both, i, dims)
                           THEN [Both EXCEPT !.m.bmp[i] = b]
                           ELSE SaveBitmap(PutWithDimensions(Both, i, b, dims), i, b))
           /\ cacheSrv' = Known(i, b)

(* The other bitmap orders have no key and no place in the file. *)
ProcessBmpcache ==
    /\ CacheReady /\ cacheSrv.connected /\ ~mem.persistent
    /\ \E i \in Idx, b \in Bitmaps : /\ CacheBecomes(PutBitmap(Both, i, b))
                                     /\ cacheSrv' = Known(i, b)

(* MEMBLT and TRIBLT draw a bitmap the server believes to be cached. *)
DrawBitmap ==
    /\ CacheReady /\ cacheSrv.connected
    /\ \E i \in Slots :
           /\ cacheSrv.known[i] # NoBitmap
           /\ LET t == GetBitmap(Both, i)
              IN /\ CacheBecomes(t)
                 /\ cacheSrv' = [cacheSrv EXCEPT !.orders = @ + 1,
                        !.drawn = IF i \in cacheSrv.torn /\ mem.persistent THEN "torn"
                                  ELSE IF t.m.bmp[i] = cacheSrv.known[i] THEN "right"
                                  ELSE "wrong"]

(* Bitmap caches 0 and 1 and the font, text, cursor and brush caches are plain arrays. *)
PutSmall ==
    /\ CacheReady /\ cacheSrv.connected
    /\ \E b \in Bitmaps : /\ CacheBecomes(PutBitmap(Both, SmallCell, b))
                          /\ cacheSrv' = Known(SmallCell, b)

(* A connection: capabilities, then the keys if they were never sent.  The *)
(* lock is free unless another client of this namespace holds it.          *)
CacheConnect ==
    /\ ~cacheSrv.connected /\ ~mem.exited
    /\ \E free \in BOOLEAN :
           LET t == InitPstcache(Both, free)
               u == EnumeratePstcache(t)
               told == IF t.m.persistent /\ ~t.m.enumerated THEN Enumerated(t) ELSE {}
           IN /\ CacheBecomes(u)
              /\ cacheSrv' = [cacheSrv EXCEPT !.connected = TRUE, !.pst = t.m.persistent,
                     !.mixed = @ \/ (~mem.persistent /\ t.m.persistent /\
                                      \E i \in Idx : mem.bmp[i] # NoBitmap),
                     !.known = [i \in Slots |->
                                   IF i \in told THEN t.f[i].key ELSE NoBitmap]]

CacheDisconnect ==
    /\ CacheRuns
    /\ cacheSrv' = [cacheSrv EXCEPT !.connected = FALSE, !.runs = @ + 1]
    /\ UNCHANGED <<mem, file>>

(* The process ends, with its state saved or in a crash, and a new one starts. *)
CacheEnds(f, torn) ==
    /\ mem' = CacheProcess /\ file' = f
    /\ cacheSrv' = [cacheSrv EXCEPT !.connected = FALSE, !.runs = @ + 1, !.mixed = FALSE,
                                    !.torn = @ \cup torn]

CacheQuit == CacheRuns /\ CacheEnds(SaveState(Both).f, {})

CacheCrash ==
    /\ CacheRuns
    /\ \/ CacheEnds(file, {})
       \/ /\ mem.persistent
          /\ \E i \in Idx, b \in Bitmaps : CacheEnds(SaveHeader(Both, i, b).f, {i})

CacheInit ==
    /\ mem = CacheProcess
    /\ file = [i \in Idx |-> NoCell]
    /\ cacheSrv = [known |-> [i \in Slots |-> NoBitmap], drawn |-> "right",
                   torn |-> {}, orders |-> 0, runs |-> 0, connected |-> FALSE, pst |-> FALSE,
                   mixed |-> FALSE]

CacheNext ==
    \/ ProcessBmpcache2 \/ ProcessBmpcache \/ DrawBitmap \/ PutSmall
    \/ CacheConnect \/ CacheDisconnect \/ CacheQuit \/ CacheCrash

CacheSpec == CacheInit /\ [][CacheNext]_cacheVars

-----------------------------------------------------------------------------
(* Properties *)

(* A bitmap drawn is the one the server last stored under its index, be it *)
(* in memory, evicted to the file, or of an earlier process, unless a crash*)
(* came between the two writes of its cell (cache_get_bitmap over          *)
(* pstcache_load_bitmap, pstcache_save_bitmap).                            *)
DrawnIsStored == ~cacheSrv.mixed => cacheSrv.drawn # "wrong"

(* The list runs from lru to mru through exactly the bitmaps in memory, in *)
(* both directions, and counts them: the count decides what is evicted and *)
(* whether the client exits when it rebuilds the list.  Not so when the    *)
(* file is opened by a later connection, over bitmaps cached without it.   *)
ListHoldsTheCache ==
    LET held == {i \in Idx : mem.bmp[i] # NoBitmap}
        n == Cardinality(held)
    IN mem.persistent /\ ~cacheSrv.mixed =>
       /\ mem.count = n /\ ~mem.exited
       /\ IF n = 0 THEN {mem.lru, mem.mru} = {NotSet}
          ELSE \E s \in [1 .. n -> held] :
                   /\ IsInjective(s)
                   /\ s[1] = mem.lru /\ s[n] = mem.mru
                   /\ \A k \in 1 .. n :
                          /\ mem.prev[s[k]] = IF k = 1 THEN NotSet ELSE s[k - 1]
                          /\ mem.next[s[k]] = IF k = n THEN NotSet ELSE s[k + 1]
=============================================================================
