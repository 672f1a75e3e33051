-------------------------------- MODULE Disk --------------------------------
(***************************************************************************)
(* The redirected disk (disk.c): the server's creates, closes, renames,    *)
(* deletions, directory queries and change notifications, over a directory *)
(* that other processes change too.  g_fileinfo is indexed by descriptor   *)
(* and outlives the file it was filled for.                                *)
(***************************************************************************)
EXTENDS Naturals, Sequences, SequencesExt, FiniteSetsExt

CONSTANTS
    DiskNames,      \* names in the redirected directory
    DiskFds,        \* descriptors open() may return
    MaxInodes,      \* files and directories made (bound)
    MaxDiskOpens,   \* creates that succeed (bound)
    MaxOthers       \* changes by other processes (bound)

ASSUME DiskConstants ==
    /\ DiskFds \subseteq Nat /\ DiskFds # {}
    /\ MaxInodes \in Nat /\ MaxDiskOpens \in Nat /\ MaxOthers \in Nat

Absent == [ino |-> 0, kind |-> "none"]
Share == "share"        \* the redirected directory itself
NoInfo == [path |-> Share, dir |-> FALSE, access |-> {}, delete |-> FALSE,
           pattern |-> {}, open |-> 0]

VARIABLES
    fs,         \* the directory: its entries, and the descriptors whose NOTIFY is out of date
    dk,         \* descriptors in use, g_fileinfo, pending notifications, g_notify_stamp
    dkSeen,     \* history: opens scheduled for deletion, and what queries returned
    dkNamed     \* history: the file opened, while its name has stood for it ever since

diskVars == <<fs, dk, dkSeen, dkNamed>>

DiskTypeOK ==
    /\ \A n \in DiskNames : fs.entry[n].kind \in {"none", "file", "dir"}
    /\ dk.inUse \subseteq DiskFds /\ dk.stamp \in BOOLEAN
    /\ \A h \in DiskFds : dk.info[h].path \in DiskNames \cup {Share}
    /\ dk.watchers \in Seq(DiskFds)

DiskInit ==
    /\ fs = [entry |-> [n \in DiskNames |-> Absent], inodes |-> 0, others |-> 0, changed |-> {}]
    /\ dk = [inUse |-> {}, info |-> [h \in DiskFds |-> NoInfo], opens |-> 0,
             left |-> [h \in DiskFds |-> {}], watchers |-> << >>, stamp |-> FALSE]
    /\ dkSeen = [scheduled |-> {}, wrong |-> FALSE, missed |-> FALSE,
                 owed |-> [h \in DiskFds |-> {}]]
    /\ dkNamed = [h \in DiskFds |-> 0]

-----------------------------------------------------------------------------
(* The file system (external): operations on an entry *)

Entries(f) == {n \in DiskNames : f.entry[n] # Absent}
WithEntry(f, n, e) == [f EXCEPT !.entry[n] = e, !.changed = DiskFds]
Made(f, n, kind) ==
    [WithEntry(f, n, [ino |-> f.inodes + 1, kind |-> kind]) EXCEPT !.inodes = @ + 1]
InodeOf(f, n) == IF n = Share THEN 0 ELSE f.entry[n].ino
Unlink(f, n) == IF f.entry[n].kind = "file" THEN WithEntry(f, n, Absent) ELSE f

(* What a query must still return: the entries that were there all along. *)
StillThere(seen, f) == [seen EXCEPT !.owed = [h \in DiskFds |-> @[h] \cap Entries(f)]]

(* The handles whose name still stands for the file that was opened. *)
StandsFor(f) ==
    [h \in DiskFds |-> IF dkNamed[h] = InodeOf(f, dk.info[h].path) THEN dkNamed[h] ELSE 0]

OtherProcess ==
    /\ fs.others < MaxOthers /\ fs.inodes < MaxInodes
    /\ \E n \in DiskNames :
           fs' = [(IF fs.entry[n] = Absent THEN Made(fs, n, "file") ELSE WithEntry(fs, n, Absent))
                     EXCEPT !.others = @ + 1]
    /\ dkSeen' = StillThere(dkSeen, fs') /\ dkNamed' = StandsFor(fs')
    /\ UNCHANGED dk

-----------------------------------------------------------------------------
(* disk_create: a step yields the failure status or the file system and    *)
(* the kind of the entry opened.                                           *)

Creates(disposition) == disposition \in {"create_always", "create_new", "open_always"}

(* The entry is unlinked before anything else is known. *)
Prepared(f, n, disposition) ==
    IF n # Share /\ disposition = "create_always" THEN Unlink(f, n) ELSE f

IsDir(f, n) == n \in {Share} \cup {m \in DiskNames : f.entry[m].kind = "dir"}

OpenDirectory(f, n, disposition) ==
    LET made == IF n # Share /\ Creates(disposition) /\ f.entry[n] = Absent
                THEN Made(f, n, "dir") ELSE f
    IN [ok |-> IsDir(made, n), f |-> made]

(* Without O_EXCL in the file system the entry is looked up and then opened. *)
OpenWeakExclusive(f, n, disposition) ==
    IF f.entry[n] = Absent THEN [ok |-> Creates(disposition),
                                 f |-> IF Creates(disposition) THEN Made(f, n, "file") ELSE f]
    ELSE [ok |-> f.entry[n].kind = "file" /\ disposition # "create_new",
          f |-> IF disposition = "truncate" THEN [f EXCEPT !.changed = DiskFds] ELSE f]

OpenedFile(f, n, disposition, asDir) ==
    IF asDir \/ IsDir(f, n) THEN OpenDirectory(f, n, disposition)
    ELSE OpenWeakExclusive(f, n, disposition)

(* Mutant: the flag of the descriptor's last file is left. *)
FileinfoFor_KeepsDelete(h, n, asDir, access) ==
    [dk.info[h] EXCEPT !.path = n, !.dir = asDir, !.access = access, !.open = dk.opens + 1]

(* The pattern and the notification of the descriptor's last file stay. *)
FileinfoFor(h, n, asDir, access) ==
    [dk.info[h] EXCEPT !.path = n, !.dir = asDir, !.access = access, !.delete = FALSE,
                       !.open = dk.opens + 1]

(* Of the access mask: write, and what lets a file be scheduled for deletion. *)
Accesses == SUBSET {"write", "delete"}

DiskCreates(n, disposition, asDir, access) ==
    /\ dk.opens < MaxDiskOpens /\ dk.inUse # DiskFds /\ fs.inodes < MaxInodes
    /\ LET o == OpenedFile(Prepared(fs, n, disposition), n, disposition, asDir)
           h == Min(DiskFds \ dk.inUse)
       IN /\ fs' = o.f
          /\ dk' = IF ~o.ok THEN dk
                   ELSE [dk EXCEPT !.inUse = @ \cup {h}, !.opens = @ + 1,
                                   !.info[h] = FileinfoFor(h, n, IsDir(o.f, n), access),
                                   !.left[h] = IF n = Share THEN Entries(o.f) ELSE {},
                                   !.stamp = @ \/ "write" \in access]
          /\ dkSeen' = StillThere(dkSeen, o.f)
          /\ dkNamed' = IF ~o.ok THEN StandsFor(o.f)
                        ELSE [StandsFor(o.f) EXCEPT ![h] = InodeOf(o.f, n)]

(* disk_close: rmdir or unlink of the path the file was opened with.  Of   *)
(* g_fileinfo, what every create sets again is not kept.                   *)
Removable(n, dir) == n # Share /\ fs.entry[n].kind = (IF dir THEN "dir" ELSE "file")

AbortWatcher(watchers, h) ==
    IF h \in Range(watchers) THEN RemoveAt(watchers, Min({i \in 1 .. Len(watchers) : watchers[i] = h}))
    ELSE watchers

DiskCloses(h) ==
    LET info == dk.info[h]
        removed == info.delete /\ Removable(info.path, info.dir)
    IN /\ h \in dk.inUse
       /\ fs' = IF removed THEN WithEntry(fs, info.path, Absent) ELSE fs
       /\ dk' = [dk EXCEPT !.inUse = @ \ {h}, !.watchers = AbortWatcher(@, h),
                           !.stamp = @ \/ "write" \in info.access,
                           !.left[h] = {}, !.info[h] = [NoInfo EXCEPT
                               !.delete = info.delete /\ ~removed, !.pattern = info.pattern]]
       /\ dkSeen' = StillThere([dkSeen EXCEPT
                        !.owed[h] = {}, !.wrong = @ \/ (removed /\ info.open \notin dkSeen.scheduled)], fs')
       /\ dkNamed' = [StandsFor(fs') EXCEPT ![h] = 0]

-----------------------------------------------------------------------------
(* disk_set_information: g_notify_stamp is set first, whatever follows. *)

SetBasicInformation(h) ==
    /\ h \in dk.inUse
    /\ fs' = [fs EXCEPT !.changed = DiskFds]
    /\ dk' = [dk EXCEPT !.stamp = TRUE]
    /\ UNCHANGED <<dkSeen, dkNamed>>

(* The handle keeps the path from before. *)
RenameInformation(h, n) ==
    LET old == dk.info[h].path
    IN /\ h \in dk.inUse /\ old # Share
       /\ fs' = IF \/ fs.entry[old] = Absent \/ old = n
                   \/ fs.entry[n] # Absent /\ (fs.entry[n].kind = "dir" \/ fs.entry[old].kind = "dir")
                THEN fs
                ELSE [fs EXCEPT !.entry = [@ EXCEPT ![n] = fs.entry[old], ![old] = Absent],
                                !.changed = DiskFds]
       /\ dk' = [dk EXCEPT !.stamp = TRUE]
       /\ dkSeen' = StillThere(dkSeen, fs') /\ dkNamed' = StandsFor(fs')

(* Without the access the request succeeds and nothing is scheduled.  A    *)
(* directory that was removed makes readdir follow a null pointer: the     *)
(* step is not taken.                                                      *)
DispositionInformation(h) ==
    LET info == dk.info[h]
    IN /\ h \in dk.inUse /\ ("delete" \in info.access /\ info.dir => IsDir(fs, info.path))
       /\ IF "delete" \notin info.access \/ (info.path = Share /\ Entries(fs) # {})
          THEN dk' = [dk EXCEPT !.stamp = TRUE] /\ UNCHANGED dkSeen
          ELSE /\ dk' = [dk EXCEPT !.stamp = TRUE, !.info[h].delete = TRUE]
               /\ dkSeen' = [dkSeen EXCEPT !.scheduled = @ \cup {info.open}]
       /\ UNCHANGED <<fs, dkNamed>>

EndOfFileInformation(h) ==
    /\ h \in dk.inUse /\ ~dk.info[h].dir
    /\ fs' = [fs EXCEPT !.changed = DiskFds]
    /\ dk' = [dk EXCEPT !.stamp = TRUE]
    /\ UNCHANGED <<dkSeen, dkNamed>>

-----------------------------------------------------------------------------
(* disk_query_directory *)

(* readdir up to an entry that matches: those not read yet, in any order. *)
NextEntries(left, pattern) == left \cap pattern

(* The names a search pattern matches: all, or one. *)
Patterns == {DiskNames} \cup {{n} : n \in DiskNames}

(* A pattern restarts the search; without one it goes on. *)
QueryDirectory(h, restart, pattern) ==
    LET used == IF restart THEN pattern ELSE dk.info[h].pattern
        left == IF restart THEN Entries(fs) ELSE dk.left[h]
        owed == IF restart THEN Entries(fs) \cap pattern ELSE dkSeen.owed[h]
        next == NextEntries(left, used)
    IN /\ h \in dk.inUse /\ dk.info[h].path = Share
       /\ \/ /\ next = {}
             /\ dk' = [dk EXCEPT !.info[h].pattern = used, !.left[h] = {}]
             /\ dkSeen' = [dkSeen EXCEPT !.owed[h] = {}, !.missed = @ \/ owed # {}]
          \/ \E n \in next, passed \in SUBSET (left \ used) :
                /\ dk' = [dk EXCEPT !.info[h].pattern = used, !.left[h] = left \ (passed \cup {n})]
                /\ dkSeen' = [dkSeen EXCEPT !.owed[h] = owed \ {n}]
       /\ UNCHANGED <<fs, dkNamed>>

-----------------------------------------------------------------------------
(* Change notification *)

(* NotifyInfo: fails on a directory that cannot be read. *)
NotifyInfo(h) == IsDir(fs, dk.info[h].path)
Noted(h) == [fs EXCEPT !.changed = @ \ {h}]

(* disk_create_notify: what changed before the request is not reported. *)
CreateNotify(h) ==
    /\ h \in dk.inUse /\ dk.info[h].dir /\ h \notin Range(dk.watchers) /\ NotifyInfo(h)
    /\ fs' = Noted(h)
    /\ dk' = [dk EXCEPT !.watchers = Append(@, h)]
    /\ UNCHANGED <<dkSeen, dkNamed>>

(* disk_check_notify, called for the first watcher only: it resets the stamp. *)
DiskCheckNotify ==
    /\ dk.stamp /\ dk.watchers # << >>
    /\ LET h == Head(dk.watchers)
       IN /\ fs' = IF NotifyInfo(h) THEN Noted(h) ELSE fs
          /\ dk' = [dk EXCEPT !.stamp = FALSE,
                        !.watchers = IF NotifyInfo(h) /\ h \notin fs.changed THEN @ ELSE Tail(@)]
    /\ UNCHANGED <<dkSeen, dkNamed>>

DiskNext ==
    \/ OtherProcess \/ DiskCheckNotify
    \/ \E n \in DiskNames \cup {Share}, asDir \in BOOLEAN, access \in Accesses,
          disposition \in {"create_always", "create_new", "open_always", "open_existing", "truncate"} :
              DiskCreates(n, disposition, asDir, access)
    \/ \E h \in DiskFds :
           \/ DiskCloses(h) \/ SetBasicInformation(h) \/ DispositionInformation(h)
           \/ EndOfFileInformation(h) \/ CreateNotify(h)
           \/ \E n \in DiskNames : RenameInformation(h, n)
           \/ \E pattern \in Patterns, restart \in BOOLEAN : QueryDirectory(h, restart, pattern)

DiskSpec == DiskInit /\ [][DiskNext]_diskVars

-----------------------------------------------------------------------------
(* Closing a file removes it only if the server scheduled the deletion on  *)
(* this very open: not because an earlier file on the descriptor could not *)
(* be removed.  What is removed is the file that was opened, as long as no *)
(* one renamed, removed or replaced the entry of its name.  disk_close     *)
(* removes by the name of the open: after such a change, the server's own  *)
(* rename of the handle among them, it removes what has the name by then.  *)
DeletesOnlyScheduled ==
    /\ ~dkSeen.wrong
    /\ \A h \in dk.inUse :
           dk.info[h].delete => dkNamed[h] \in {0, InodeOf(fs, dk.info[h].path)}

(* When a directory query reports no more files, it has returned every     *)
(* entry that matches and was there from its start, whatever other handles *)
(* query and whatever other entries come and go.                           *)
QueriesAreComplete == ~dkSeen.missed
=============================================================================
