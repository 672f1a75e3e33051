------------------------------ MODULE MCDevices -----------------------------
(***************************************************************************)
(* Model checking of redirected devices, of what the client keeps in files *)
(* and of the drawing orders that use it: the device channel, disks,       *)
(* serial ports, the printer cache, the bitmap caches, orders and nine     *)
(* grids.  They share no state; a behaviour is one of a single component.  *)
(***************************************************************************)
EXTENDS Rdpdr, Disk, Serial, PrinterCache, Cache, Orders, NineGrid

VARIABLE component  \* the one that runs

\* What a terminal may be set to when it is opened.
MCTtyDefaults ==
    {[speed |-> 9600, cstopb |-> FALSE, parity |-> "none", size |-> 8,
      crtscts |-> FALSE, ixon |-> TRUE, ixoff |-> FALSE],
     [speed |-> 230400, cstopb |-> TRUE, parity |-> "even", size |-> 7,
      crtscts |-> TRUE, ixon |-> FALSE, ixoff |-> TRUE]}

MCBlobs == [short |-> 1, long |-> 2]

allVars == <<component, rdpdrVars, diskVars, serialVars, pcacheVars,
             cacheVars, orderVars, gridVars>>

Runs(c) == component = c /\ UNCHANGED component

Init ==
    /\ component \in {"rdpdr", "disk", "serial", "printers", "cache",
                      "orders", "ninegrid"}
    /\ RdpdrInit /\ DiskInit /\ SerialInit /\ PcInit /\ CacheInit
    /\ OrdersInit /\ NineGridInit
    \* one of the beginnings is enough for the components that rest
    /\ component # "serial" => tio = (CHOOSE t \in TtyDefaults : TRUE)

Next ==
    \/ /\ Runs("rdpdr") /\ RdpdrNext
       /\ UNCHANGED <<diskVars, serialVars, pcacheVars, cacheVars,
                       orderVars, gridVars>>
    \/ /\ Runs("disk") /\ DiskNext
       /\ UNCHANGED <<rdpdrVars, serialVars, pcacheVars, cacheVars,
                       orderVars, gridVars>>
    \/ /\ Runs("serial") /\ SerialNext
       /\ UNCHANGED <<rdpdrVars, diskVars, pcacheVars, cacheVars,
                       orderVars, gridVars>>
    \/ /\ Runs("printers") /\ PcNext
       /\ UNCHANGED <<rdpdrVars, diskVars, serialVars, cacheVars,
                       orderVars, gridVars>>
    \/ /\ Runs("cache") /\ CacheNext
       /\ UNCHANGED <<rdpdrVars, diskVars, serialVars, pcacheVars,
                       orderVars, gridVars>>
    \/ /\ Runs("orders") /\ OrdersNext
       /\ UNCHANGED <<rdpdrVars, diskVars, serialVars, pcacheVars,
                       cacheVars, gridVars>>
    \/ /\ Runs("ninegrid") /\ NineGridNext
       /\ UNCHANGED <<rdpdrVars, diskVars, serialVars, pcacheVars,
                       cacheVars, orderVars>>

Spec == Init /\ [][Next]_allVars

-----------------------------------------------------------------------------
(* What a disk removes is what the server scheduled, as long as its name   *)
(* stands for the file that was opened; queries are complete; and settings *)
(* a serial port can hold read back, whatever other handles, processes and *)
(* requests do in between (disk.c, serial.c).                              *)
FilesAreKept ==
    /\ component = "disk" => DiskTypeOK /\ DeletesOnlyScheduled /\ QueriesAreComplete
    /\ component = "serial" => SerialTypeOK /\ SettingsReadBack

(* A printer's blob on disk and the one announced are what was saved; what *)
(* two processes that write at once, a full disk and a save during a load  *)
(* leave instead lasts until the next save (printercache.c).               *)
BlobsAreKept == component = "printers" => PcTypeOK /\ BlobsAreWhole

(* Orders are decoded against the same earlier orders that the server      *)
(* encoded them against, and nine grids drawn from whole streams (orders.c).*)
DrawnAsSent ==
    /\ component = "orders" => OrdersTypeOK /\ OrderStateInStep /\ ListsDecode
    /\ component = "ninegrid" => NineGridTypeOK /\ NineGridsAreWhole /\ SamplesStayInside

(* A bitmap cell gives what was last stored in it, in memory, on disk and  *)
(* after a restart (cache.c, pstcache.c).                                  *)
CachesHold ==
    component = "cache" => CacheTypeOK /\ DrawnIsStored /\ ListHoldsTheCache
=============================================================================
