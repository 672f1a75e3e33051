---------------------------- MODULE PrinterCache ----------------------------
(***************************************************************************)
(* The printer cache (printercache.c): the server sends the configuration  *)
(* of a printer as a blob, which is kept in a file of the printer's        *)
(* directory and announced with the printer by later sessions.  Every      *)
(* rdesktop of the user shares the directories; each file operation is one *)
(* system call, between which another process runs or this one ends.       *)
(***************************************************************************)
EXTENDS Integers, Sequences

CONSTANTS
    PcPrograms,  \* rdesktop processes
    Printers,    \* names of printers
    PcBlobs,     \* [blob -> its length]
    MaxPcSaves,  \* saves, all processes (bound)
    MaxPcCrashes \* processes that end in the middle of a call (bound)

ASSUME PcConstants ==
    /\ \A b \in DOMAIN PcBlobs : PcBlobs[b] \in Nat \ {0}
    /\ {MaxPcSaves, MaxPcCrashes} \subseteq Nat

VARIABLES
    pcDir,    \* printer -> its directory: missing, without a file, or the file in it
    pcFiles,  \* the contents of every file made, named or not
    pcCall,   \* process -> the save, delete or load it is in the middle of
    pcHist    \* bounds; the last blob announced; files and readers that others disturbed

pcacheVars == <<pcDir, pcFiles, pcCall, pcHist>>

NoDir == -1
NoFile == 0
PcIdle == [step |-> "idle"]

\* The bytes of blob b.
BlobData(b) == [k \in 1 .. PcBlobs[b] |-> b]

PcTypeOK ==
    /\ pcHist.saves \in 0 .. MaxPcSaves /\ pcHist.crashes \in 0 .. MaxPcCrashes
    /\ \A p \in PcPrograms :
           pcCall[p].step \in {"idle", "open", "write", "unlink", "rmdir", "read", "ended"}
    /\ \A n \in Printers : pcDir[n] \in {NoDir, NoFile} \cup DOMAIN pcFiles
    /\ \A i \in DOMAIN pcFiles : pcFiles[i] \in Seq(DOMAIN PcBlobs)

HasFile(n) == pcDir[n] \notin {NoDir, NoFile}

-----------------------------------------------------------------------------
(* printercache_process: what the server asks for *)

(* Save: printercache_mkdir first. *)
SaveBlob(p, n, b) ==
    /\ pcCall[p] = PcIdle /\ pcHist.saves < MaxPcSaves
    /\ pcDir' = IF pcDir[n] = NoDir THEN [pcDir EXCEPT ![n] = NoFile] ELSE pcDir
    /\ pcCall' = [pcCall EXCEPT ![p] = [step |-> "open", printer |-> n, blob |-> b]]
    /\ pcHist' = [pcHist EXCEPT !.saves = @ + 1]
    /\ UNCHANGED pcFiles

OpenedBlob_KeepsOld(old) == old

(* open with O_CREAT and O_TRUNC *)
OpenedBlob(old) == << >>

(* The processes that will still write to file i, or still read it. *)
WritersOf(i) == {p \in PcPrograms : pcCall[p].step = "write" /\ pcCall[p].file = i}
ReadersOf(i) == {p \in PcPrograms : pcCall[p].step = "read" /\ pcCall[p].file = i}

(* The directory may be gone again: open fails. *)
SaveOpen(p) ==
    LET n == pcCall[p].printer
        i == IF HasFile(n) THEN pcDir[n] ELSE Len(pcFiles) + 1
    IN  /\ pcCall[p].step = "open"
        /\ IF pcDir[n] = NoDir
           THEN /\ pcCall' = [pcCall EXCEPT ![p] = PcIdle]
                /\ UNCHANGED <<pcDir, pcFiles, pcHist>>
           ELSE /\ pcDir' = [pcDir EXCEPT ![n] = i]
                /\ pcFiles' = IF HasFile(n) THEN [pcFiles EXCEPT ![i] = OpenedBlob(@)]
                                            ELSE Append(pcFiles, << >>)
                /\ pcCall' = [pcCall EXCEPT ![p] = [step |-> "write", printer |-> n, file |-> i,
                                                    blob |-> pcCall[p].blob]]
                /\ pcHist' = [pcHist EXCEPT
                       !.mixed = IF WritersOf(i) = {} THEN @ \ {i} ELSE @ \cup {i},
                       !.short = @ \ {i}, !.overtaken = @ \cup ReadersOf(i)]

\* data written over the start of old
Overwrite(old, data) == data \o SubSeq(old, Len(data) + 1, Len(old))

(* write goes to the file that was opened, whatever name it has by now. *)
SaveWrite(p) ==
    LET i == pcCall[p].file
        data == BlobData(pcCall[p].blob)
    IN  /\ pcCall[p].step = "write"
        /\ \E k \in {Len(data), Len(data) - 1} :
               /\ pcFiles' = [pcFiles EXCEPT ![i] = Overwrite(@, SubSeq(data, 1, k))]
               /\ pcCall' = [pcCall EXCEPT ![p] = IF k = Len(data) THEN PcIdle
                                 ELSE [step |-> "unlink", printer |-> pcCall[p].printer]]
               /\ pcHist' = [pcHist EXCEPT !.short = IF k = Len(data) THEN @ ELSE @ \cup {i}]
        /\ UNCHANGED pcDir

(* What the name has by now is removed; the directory stays. *)
SaveUnlink(p) ==
    LET n == pcCall[p].printer
    IN  /\ pcCall[p].step = "unlink"
        /\ pcDir' = IF HasFile(n) THEN [pcDir EXCEPT ![n] = NoFile] ELSE pcDir
        /\ pcCall' = [pcCall EXCEPT ![p] = PcIdle]
        /\ UNCHANGED <<pcFiles, pcHist>>

(* printercache_unlink_blob: the file, then the directory. *)
UnlinkBlob(p, n) ==
    /\ pcCall[p] = PcIdle
    /\ HasFile(n)
    /\ pcDir' = [pcDir EXCEPT ![n] = NoFile]
    /\ pcCall' = [pcCall EXCEPT ![p] = [step |-> "rmdir", printer |-> n]]
    /\ UNCHANGED <<pcFiles, pcHist>>

RemoveDir(p) ==
    LET n == pcCall[p].printer
    IN  /\ pcCall[p].step = "rmdir"
        /\ pcDir' = IF pcDir[n] = NoFile THEN [pcDir EXCEPT ![n] = NoDir] ELSE pcDir
        /\ pcCall' = [pcCall EXCEPT ![p] = PcIdle]
        /\ UNCHANGED <<pcFiles, pcHist>>

(* printercache_rename_blob: fails when the new name has a blob of its own. *)
RenameBlob(p, n, m) ==
    /\ pcCall[p] = PcIdle /\ n # m
    /\ pcDir[n] # NoDir /\ ~HasFile(m)
    /\ pcDir' = [pcDir EXCEPT ![m] = pcDir[n], ![n] = NoDir]
    /\ UNCHANGED <<pcFiles, pcCall, pcHist>>

-----------------------------------------------------------------------------
(* A session announces the printer: printercache_load_blob asks for the    *)
(* size of the file and then reads that much.                              *)
Announces(bytes, disturbed) ==
    pcHist' = [pcHist EXCEPT !.announced = [bytes |-> bytes, disturbed |-> disturbed]]

LoadStat(p, n) ==
    /\ pcCall[p] = PcIdle
    /\ IF HasFile(n)
       THEN /\ pcCall' = [pcCall EXCEPT ![p] = [step |-> "read", file |-> pcDir[n],
                                                size |-> Len(pcFiles[pcDir[n]])]]
            /\ pcHist' = [pcHist EXCEPT !.overtaken = @ \ {p}]
       ELSE Announces(<< >>, FALSE) /\ UNCHANGED pcCall
    /\ UNCHANGED <<pcDir, pcFiles>>

FirstBytes(s, k) == IF k < Len(s) THEN SubSeq(s, 1, k) ELSE s

LoadRead(p) ==
    LET i == pcCall[p].file
    IN  /\ pcCall[p].step = "read"
        /\ Announces(FirstBytes(pcFiles[i], pcCall[p].size),
                     i \in pcHist.mixed \cup pcHist.short \/ p \in pcHist.overtaken)
        /\ pcCall' = [pcCall EXCEPT ![p] = PcIdle]
        /\ UNCHANGED <<pcDir, pcFiles>>

PcCrash(p) ==
    /\ pcCall[p].step \notin {"idle", "ended"} /\ pcHist.crashes < MaxPcCrashes
    /\ pcCall' = [pcCall EXCEPT ![p] = [step |-> "ended"]]
    /\ pcHist' = [pcHist EXCEPT !.crashes = @ + 1]
    /\ UNCHANGED <<pcDir, pcFiles>>

-----------------------------------------------------------------------------
PcInit ==
    /\ pcDir = [n \in Printers |-> NoDir] /\ pcFiles = << >>
    /\ pcCall = [p \in PcPrograms |-> PcIdle]
    /\ pcHist = [saves |-> 0, crashes |-> 0, mixed |-> {}, short |-> {}, overtaken |-> {},
                 announced |-> [bytes |-> << >>, disturbed |-> FALSE]]

PcNext ==
    \E p \in PcPrograms :
        \/ SaveOpen(p) \/ SaveWrite(p) \/ SaveUnlink(p) \/ RemoveDir(p) \/ LoadRead(p) \/ PcCrash(p)
        \/ \E n \in Printers :
               \/ UnlinkBlob(p, n) \/ LoadStat(p, n)
               \/ \E b \in DOMAIN PcBlobs : SaveBlob(p, n, b)
               \/ \E m \in Printers : RenameBlob(p, n, m)

PcSpec == PcInit /\ [][PcNext]_pcacheVars

-----------------------------------------------------------------------------
PcWhole(s) == s = << >> \/ \E b \in DOMAIN PcBlobs : s = BlobData(b)
PcPart(s) == \E b \in DOMAIN PcBlobs : s = SubSeq(BlobData(b), 1, PcBlobs[b] - 1)

(* printercache_save_blob neither locks nor writes beside the old file, so *)
(* a file is a mixture when a process opened it while another was yet to   *)
(* write, and a part of a blob when the write was short and the file not   *)
(* removed: by then another process may load it, it may have another name, *)
(* or the process may have ended.  Both last no longer than the next save: *)
(* in any other file, whatever saves, deletes, renames, loads and crashes  *)
(* of other processes came in between, is one blob the server sent, or     *)
(* nothing.                                                                *)
FilesAreWhole ==
    \A i \in DOMAIN pcFiles \ pcHist.mixed :
        PcWhole(pcFiles[i]) \/ (i \in pcHist.short /\ PcPart(pcFiles[i]))

(* A blob that is announced is one the server sent, or none, but for those *)
(* files, and for a file that is saved anew between the fstat and the read *)
(* of printercache_load_blob.                                              *)
BlobsAreWhole ==
    /\ FilesAreWhole
    /\ pcHist.announced.disturbed \/ PcWhole(pcHist.announced.bytes)
=============================================================================
