----------------------------- MODULE DevicesProofs ---------------------------
(***************************************************************************)
(* What the server reads, deletes, sets or prints through a device is what *)
(* it asked for: disks, serial ports, the printer cache and the table of   *)
(* requests.  A behaviour is one of a single component, so each has an     *)
(* invariant of its own and their conjunction is inductive.                *)
(***************************************************************************)
EXTENDS MCDevices, SequenceTheorems, FiniteSetTheorems, WellFoundedInduction, TLAPS

-----------------------------------------------------------------------------
(* Numbers and sequences *)

(* A set of numbers that is not empty has a least one, which is its Min. *)
LEMMA MinIs ==
    ASSUME NEW T \in SUBSET Nat, T # {}
    PROVE  Min(T) \in T /\ \A y \in T : Min(T) <= y
<1> DEFINE R == OpToRel(<, Nat)
<1>1. IsWellFoundedOn(R, Nat)
  BY NatLessThanWellFounded
<1>2. \A x, y \in Nat : x < y => <<x, y>> \in R
  BY DEF OpToRel
<1> HIDE DEF R
<1>3. PICK x \in T : \A y \in T : ~(<<y, x>> \in R)
  BY <1>1, WFMin
<1>4. ASSUME NEW y \in T PROVE x <= y
  <2>1. x \in Nat /\ y \in Nat
    OBVIOUS
  <2>2. ~(y < x)
    BY <1>2, <1>3, <2>1
  <2> QED BY <2>1, <2>2
<1>5. \E z \in T : \A y \in T : z <= y
  BY <1>4
<1> QED BY <1>5, Zenon DEF Min

(* Induction, as a statement about a set of numbers.                         *)
LEMMA Induct ==
    ASSUME NEW S, 0 \in S, \A n \in Nat : n \in S => n + 1 \in S
    PROVE  Nat \subseteq S
<1> SUFFICES ASSUME Nat \ S # {} PROVE FALSE
  OBVIOUS
<1> DEFINE T == Nat \ S
           x == Min(T)
<1>1. T \in SUBSET Nat /\ T # {}
  OBVIOUS
<1>2. x \in T /\ \A y \in T : x <= y
  BY <1>1, MinIs
<1> HIDE DEF x
<1>3. x # 0 /\ x - 1 \in Nat
  BY <1>2
<1>4. x - 1 \in S
  BY <1>2, <1>3
<1> QED BY <1>2, <1>3, <1>4

(* RemoveAt takes one element out and moves those behind it up. *)
LEMMA RemoveAtIs ==
    ASSUME NEW S, NEW s \in Seq(S), NEW i \in 1 .. Len(s)
    PROVE  /\ RemoveAt(s, i) \in Seq(S) /\ Len(RemoveAt(s, i)) = Len(s) - 1
           /\ \A j \in 1 .. Len(s) - 1 :
                  RemoveAt(s, i)[j] = IF j < i THEN s[j] ELSE s[j + 1]
<1> DEFINE a == SubSeq(s, 1, i - 1)
           b == SubSeq(s, i + 1, Len(s))
<1>1. \A j \in 1 .. Len(s) : s[j] \in S
  OBVIOUS
<1>2. /\ a \in Seq(S) /\ Len(a) = i - 1
      /\ \A j \in 1 .. i - 1 : a[j] = s[j]
  BY <1>1, SubSeqProperties
<1>3. /\ b \in Seq(S) /\ Len(b) = Len(s) - i
      /\ \A j \in 1 .. Len(s) - i : b[j] = s[j + i]
  <2>1. \A j \in i + 1 .. Len(s) : s[j] \in S
    BY <1>1
  <2>2. /\ b \in Seq(S)
        /\ Len(b) = IF i + 1 <= Len(s) THEN Len(s) - (i + 1) + 1 ELSE 0
        /\ \A j \in 1 .. Len(s) - (i + 1) + 1 : b[j] = s[(i + 1) + j - 1]
    BY <2>1, SubSeqProperties
  <2>3. Len(b) = Len(s) - i
    BY <2>2
  <2>4. ASSUME NEW j \in 1 .. Len(s) - i PROVE b[j] = s[j + i]
    <3>1. j \in 1 .. Len(s) - (i + 1) + 1 /\ (i + 1) + j - 1 = j + i
      OBVIOUS
    <3>2. b[j] = s[(i + 1) + j - 1]
      BY <2>2, <3>1
    <3> HIDE DEF b
    <3> QED BY <3>1, <3>2
  <2> QED BY <2>2, <2>3, <2>4
<1> HIDE DEF a, b
<1>4. RemoveAt(s, i) = a \o b
  BY DEF RemoveAt, a, b
<1>5. a \o b \in Seq(S) /\ Len(a \o b) = Len(s) - 1
  <2> a \in Seq(S) /\ b \in Seq(S)
    BY <1>2, <1>3
  <2>1. a \o b \in Seq(S) /\ Len(a \o b) = Len(a) + Len(b)
    OBVIOUS
  <2> QED BY <1>2, <1>3, <2>1
<1>6. ASSUME NEW j \in 1 .. Len(s) - 1
      PROVE  (a \o b)[j] = IF j < i THEN s[j] ELSE s[j + 1]
  <2>1. CASE j < i
    <3>1. j \in 1 .. Len(a) /\ j \in 1 .. i - 1
      BY <1>2, <2>1
    <3>2. (a \o b)[j] = a[j]
      <4>1. a \in Seq(S) /\ b \in Seq(S)
        BY <1>2, <1>3
      <4> QED BY <3>1, <4>1
    <3> QED BY <1>2, <2>1, <3>1, <3>2
  <2>2. CASE ~(j < i)
    <3>1. (a \o b)[j] = b[j - (i - 1)]
      BY <1>2, <1>3, <2>2
    <3>2. j - (i - 1) \in 1 .. Len(s) - i /\ j - (i - 1) + i = j + 1
      BY <2>2
    <3>3. b[j - (i - 1)] = s[j - (i - 1) + i]
      BY <1>3, <3>2
    <3> QED BY <2>2, <3>1, <3>2, <3>3
  <2> QED BY <2>1, <2>2
<1> QED BY <1>4, <1>5, <1>6

-----------------------------------------------------------------------------
(* Disks (disk.c) *)

EntryKinds == {"none", "file", "dir"}
Paths == DiskNames \cup {Share}

(* A state of the directory. *)
IsFs(f) ==
    /\ DOMAIN f = {"entry", "inodes", "others", "changed"}
    /\ DOMAIN f.entry = DiskNames
    /\ \A n \in DiskNames : f.entry[n].kind \in EntryKinds

InfoFields == {"path", "dir", "access", "delete", "pattern", "open"}

DskTypes ==
    /\ IsFs(fs)
    /\ DOMAIN dk = {"inUse", "info", "opens", "left", "watchers", "stamp"}
    /\ dk.inUse \subseteq DiskFds /\ dk.stamp \in BOOLEAN
    /\ dk.watchers \in Seq(DiskFds)
    /\ DOMAIN dk.info = DiskFds /\ DOMAIN dk.left = DiskFds
    /\ \A h \in DiskFds : DOMAIN dk.info[h] = InfoFields /\ dk.info[h].path \in Paths
    /\ DOMAIN dkSeen = {"scheduled", "wrong", "missed", "owed"}
    /\ DOMAIN dkSeen.owed = DiskFds

(* A handle that is to be deleted was scheduled for it since it was opened;  *)
(* the flag of a closed one counts for nothing.                              *)
DeleteInv ==
    /\ ~dkSeen.wrong
    /\ \A h \in dk.inUse : dk.info[h].delete => dk.info[h].open \in dkSeen.scheduled

(* What a query still owes has not been read by it, and matches.  Only a     *)
(* handle in use owes something.                                             *)
QueryInv ==
    /\ ~dkSeen.missed
    /\ \A h \in DiskFds :
           /\ dkSeen.owed[h] \subseteq dk.left[h] \cap dk.info[h].pattern
           /\ h \notin dk.inUse => dkSeen.owed[h] = {}

DskInv == DskTypes /\ DeleteInv /\ QueryInv

(* The name of a handle stands for the file that was opened, or no longer.   *)
NamedInv ==
    /\ DOMAIN dkNamed = DiskFds
    /\ \A h \in DiskFds : dkNamed[h] \in {0, InodeOf(fs, dk.info[h].path)}

(* The properties of disks follow from them. *)
LEMMA DskInvGives ==
    DskInv /\ NamedInv => DiskTypeOK /\ DeletesOnlyScheduled /\ QueriesAreComplete
BY DEF DskInv, DskTypes, DeleteInv, QueryInv, NamedInv, DiskTypeOK, DeletesOnlyScheduled,
       QueriesAreComplete, IsFs, EntryKinds, Paths

(* No handle is open at the start. *)
LEMMA DskInit == DiskInit => DskInv /\ NamedInv
<1> SUFFICES ASSUME DiskInit PROVE DskInv /\ NamedInv
  OBVIOUS
<1>1. IsFs(fs)
  BY DEF DiskInit, IsFs, EntryKinds, Absent
<1>2. /\ DOMAIN dk = {"inUse", "info", "opens", "left", "watchers", "stamp"}
      /\ dk.inUse = {} /\ dk.stamp = FALSE /\ dk.watchers = << >>
      /\ dk.info = [h \in DiskFds |-> NoInfo] /\ dk.left = [h \in DiskFds |-> {}]
  BY DEF DiskInit
<1>3. /\ DOMAIN dkSeen = {"scheduled", "wrong", "missed", "owed"}
      /\ ~dkSeen.wrong /\ ~dkSeen.missed /\ dkSeen.owed = [h \in DiskFds |-> {}]
  BY DEF DiskInit
<1>4. DOMAIN NoInfo = InfoFields /\ NoInfo.path \in Paths
  BY DEF NoInfo, InfoFields, Paths
<1>5. DskTypes
  <2>1. << >> \in Seq(DiskFds)
    OBVIOUS
  <2>2. \A h \in DiskFds : DOMAIN dk.info[h] = InfoFields /\ dk.info[h].path \in Paths
    BY <1>2, <1>4
  <2>3. DOMAIN dk.info = DiskFds /\ DOMAIN dk.left = DiskFds /\ DOMAIN dkSeen.owed = DiskFds
    BY <1>2, <1>3
  <2> QED BY <1>1, <1>2, <1>3, <2>1, <2>2, <2>3, Zenon DEF DskTypes
<1>6. DeleteInv /\ QueryInv
  BY <1>2, <1>3 DEF DeleteInv, QueryInv
<1>7. NamedInv
  BY DEF DiskInit, NamedInv
<1> QED BY <1>5, <1>6, <1>7 DEF DskInv

(* Entries of the directory come and go. *)
LEMMA WithEntryIs ==
    ASSUME NEW f, IsFs(f), NEW n \in DiskNames, NEW e, e.kind \in EntryKinds
    PROVE  IsFs(WithEntry(f, n, e))
BY DEF IsFs, WithEntry

(* A new entry is one. *)
LEMMA MadeIs ==
    ASSUME NEW f, IsFs(f), NEW n \in DiskNames, NEW kind \in EntryKinds
    PROVE  IsFs(Made(f, n, kind))
<1> DEFINE e == [ino |-> f.inodes + 1, kind |-> kind]
<1>1. e.kind \in EntryKinds
  OBVIOUS
<1> HIDE DEF e
<1>2. IsFs(WithEntry(f, n, e))
  BY <1>1, WithEntryIs
<1>3. ASSUME NEW g, IsFs(g) PROVE IsFs([g EXCEPT !.inodes = @ + 1])
  BY <1>3 DEF IsFs
<1>4. IsFs([WithEntry(f, n, e) EXCEPT !.inodes = @ + 1])
  BY <1>2, <1>3
<1> QED BY <1>4 DEF Made, e

(* No entry is an entry, too. *)
LEMMA AbsentIs == Absent.kind \in EntryKinds
BY DEF Absent, EntryKinds

(* What a create does to the directory before it opens. *)
LEMMA PreparedIs ==
    ASSUME NEW f, IsFs(f), NEW n \in Paths, NEW disposition
    PROVE  IsFs(Prepared(f, n, disposition))
BY WithEntryIs, AbsentIs DEF Prepared, Unlink, Paths

(* ... and when it opens. *)
LEMMA OpenedFileIs ==
    ASSUME NEW f, IsFs(f), NEW n \in Paths, NEW disposition, NEW asDir
    PROVE  IsFs(OpenedFile(f, n, disposition, asDir).f)
<1>1. n = Share \/ n \in DiskNames
  BY DEF Paths
<1>2. "dir" \in EntryKinds /\ "file" \in EntryKinds
  BY DEF EntryKinds
<1>3. IsFs(OpenDirectory(f, n, disposition).f)
  BY <1>1, <1>2, MadeIs DEF OpenDirectory
<1>4. IsFs([f EXCEPT !.changed = DiskFds])
  BY DEF IsFs
<1>5. n \in DiskNames => IsFs(OpenWeakExclusive(f, n, disposition).f)
  BY <1>2, <1>4, MadeIs DEF OpenWeakExclusive
<1>6. n \notin DiskNames => IsDir(f, n)
  BY <1>1 DEF IsDir
<1> QED BY <1>3, <1>5, <1>6 DEF OpenedFile

(* StillThere only takes entries from what queries owe. *)
LEMMA StillThereIs ==
    ASSUME NEW seen, NEW f,
           DOMAIN seen = {"scheduled", "wrong", "missed", "owed"}, DOMAIN seen.owed = DiskFds
    PROVE  LET s == StillThere(seen, f) IN
           /\ DOMAIN s = DOMAIN seen /\ DOMAIN s.owed = DiskFds
           /\ s.scheduled = seen.scheduled /\ s.wrong = seen.wrong /\ s.missed = seen.missed
           /\ \A h \in DiskFds : s.owed[h] \subseteq seen.owed[h]
BY DEF StillThere


(* What most steps do to the history: they only take from what is owed. *)
SeenStays ==
    /\ DOMAIN dkSeen' = DOMAIN dkSeen /\ DOMAIN dkSeen'.owed = DiskFds
    /\ dkSeen'.scheduled = dkSeen.scheduled
    /\ dkSeen'.wrong = dkSeen.wrong /\ dkSeen'.missed = dkSeen.missed
    /\ \A h \in DiskFds : dkSeen'.owed[h] \subseteq dkSeen.owed[h]

(* A step that records nothing keeps what was seen. *)
LEMMA SeenStaysOr ==
    ASSUME DskTypes, NEW f, UNCHANGED dkSeen \/ dkSeen' = StillThere(dkSeen, f)
    PROVE  SeenStays
BY StillThereIs DEF SeenStays, DskTypes

(* A step that leaves the handles alone. *)
LEMMA HandlesStay ==
    ASSUME DskInv, IsFs(fs'), SeenStays,
           DOMAIN dk' = DOMAIN dk, UNCHANGED <<dk.inUse, dk.info, dk.left>>,
           dk'.stamp \in BOOLEAN, dk'.watchers \in Seq(DiskFds)
    PROVE  DskInv'
<1> USE DEF DskInv
<1>1. DskTypes'
  BY DEF DskTypes, SeenStays
<1>2. DeleteInv'
  BY DEF DeleteInv, SeenStays
<1>3. QueryInv'
  <2>1. DiskFds = DOMAIN dk.left
    BY DEF DskTypes
  <2> QED BY DEF QueryInv, SeenStays
<1> QED BY <1>1, <1>2, <1>3

(* Another process makes or removes an entry. *)
LEMMA KeepOtherProcess == DskInv /\ OtherProcess => DskInv'
<1> SUFFICES ASSUME DskInv, OtherProcess PROVE DskInv'
  OBVIOUS
<1>1. DskTypes
  BY DEF DskInv
<1>2. PICK n \in DiskNames :
          fs' = [(IF fs.entry[n] = Absent THEN Made(fs, n, "file") ELSE WithEntry(fs, n, Absent))
                    EXCEPT !.others = @ + 1]
  BY DEF OtherProcess
<1>3. IsFs(Made(fs, n, "file")) /\ IsFs(WithEntry(fs, n, Absent))
  BY <1>1, MadeIs, WithEntryIs, AbsentIs DEF DskTypes, EntryKinds
<1>4. \A f : IsFs(f) => IsFs([f EXCEPT !.others = @ + 1])
  BY DEF IsFs
<1>5. IsFs(fs')
  BY <1>2, <1>3, <1>4
<1>6. SeenStays
  BY <1>1, SeenStaysOr DEF OtherProcess
<1> QED BY <1>1, <1>5, <1>6, HandlesStay DEF OtherProcess, DskTypes

(* Steps that set the stamp, and change what the names stand for. *)
LEMMA KeepStamp ==
    ASSUME DskInv, NEW h \in DiskFds, NEW n \in DiskNames,
           SetBasicInformation(h) \/ EndOfFileInformation(h) \/ RenameInformation(h, n)
    PROVE  DskInv'
<1>1. DskTypes
  BY DEF DskInv
<1>2. dk' = [dk EXCEPT !.stamp = TRUE]
  BY DEF SetBasicInformation, EndOfFileInformation, RenameInformation
<1>3. UNCHANGED dkSeen \/ \E f : dkSeen' = StillThere(dkSeen, f)
  BY DEF SetBasicInformation, EndOfFileInformation, RenameInformation
<1>4. IsFs([fs EXCEPT !.changed = DiskFds])
  BY <1>1 DEF DskTypes, IsFs
<1>5. ASSUME RenameInformation(h, n) PROVE IsFs(fs')
  <2> DEFINE old == dk.info[h].path
             moved == [fs.entry EXCEPT ![n] = fs.entry[old], ![old] = Absent]
  <2>1. old \in DiskNames
    BY <1>1, <1>5 DEF RenameInformation, DskTypes, Paths
  <2>2. fs' = fs \/ fs' = [fs EXCEPT !.entry = moved, !.changed = DiskFds]
    BY <1>5 DEF RenameInformation
  <2>3. DOMAIN moved = DiskNames /\ \A m \in DiskNames : moved[m].kind \in EntryKinds
    BY <1>1, <2>1, AbsentIs DEF DskTypes, IsFs
  <2> HIDE DEF moved
  <2>4. IsFs([fs EXCEPT !.entry = moved, !.changed = DiskFds])
    BY <1>1, <2>3 DEF DskTypes, IsFs
  <2> QED BY <1>1, <2>2, <2>4 DEF DskTypes
<1>6. IsFs(fs')
  BY <1>4, <1>5 DEF SetBasicInformation, EndOfFileInformation
<1>7. SeenStays
  BY <1>1, <1>3, SeenStaysOr
<1> QED BY <1>1, <1>2, <1>6, <1>7, HandlesStay DEF DskTypes

(* Watchers are added at the end and leave from the front or on a close. *)
LEMMA KeepNotify ==
    ASSUME DskInv, DiskCheckNotify \/ \E h \in DiskFds : CreateNotify(h)
    PROVE  DskInv'
<1>1. DskTypes
  BY DEF DskInv
<1>2. \A h : IsFs([fs EXCEPT !.changed = @ \ {h}])
  BY <1>1 DEF DskTypes, IsFs
<1>3. IsFs(fs')
  <2>1. fs' = fs \/ \E h : fs' = [fs EXCEPT !.changed = @ \ {h}]
    BY DEF DiskCheckNotify, CreateNotify, Noted
  <2>2. CASE fs' = fs
    BY <1>1, <2>2 DEF DskTypes
  <2>3. CASE \E h : fs' = [fs EXCEPT !.changed = @ \ {h}]
    BY <1>2, <2>3, Zenon
  <2> QED BY <2>1, <2>2, <2>3
<1>4. dk.watchers \in Seq(DiskFds) /\ DOMAIN dk = {"inUse", "info", "opens", "left", "watchers", "stamp"}
  BY <1>1 DEF DskTypes
<1>5. \E ws \in Seq(DiskFds), s \in BOOLEAN : dk' = [dk EXCEPT !.stamp = s, !.watchers = ws]
  <2>1. CASE DiskCheckNotify
    <3>1. PICK ws : dk' = [dk EXCEPT !.stamp = FALSE, !.watchers = ws]
                    /\ (ws = dk.watchers \/ ws = Tail(dk.watchers)) /\ dk.watchers # << >>
      BY <2>1 DEF DiskCheckNotify
    <3>2. Tail(dk.watchers) \in Seq(DiskFds)
      BY <1>4, <3>1
    <3> QED BY <1>4, <3>1, <3>2
  <2>2. CASE \E h \in DiskFds : CreateNotify(h)
    <3>1. PICK h \in DiskFds : dk' = [dk EXCEPT !.watchers = Append(@, h)]
      BY <2>2 DEF CreateNotify
    <3> DEFINE ws == Append(dk.watchers, h)
    <3>2. ws \in Seq(DiskFds) /\ dk' = [dk EXCEPT !.watchers = ws]
      BY <1>4, <3>1
    <3> HIDE DEF ws
    <3>3. dk' = [dk EXCEPT !.stamp = dk.stamp, !.watchers = ws] /\ dk.stamp \in BOOLEAN
      BY <1>1, <1>4, <3>2 DEF DskTypes
    <3> QED BY <3>2, <3>3
  <2> QED BY <2>1, <2>2
<1>6. SeenStays
  BY <1>1, SeenStaysOr DEF DiskCheckNotify, CreateNotify
<1> QED BY <1>3, <1>4, <1>5, <1>6, HandlesStay

(* A handle is scheduled to delete its file, or no longer. *)
LEMMA KeepDispositionInformation ==
    ASSUME DskInv, NEW h \in DiskFds, DispositionInformation(h)
    PROVE  DskInv'
<1>1. DskTypes /\ DeleteInv /\ QueryInv
  BY DEF DskInv
<1>2. CASE dk' = [dk EXCEPT !.stamp = TRUE] /\ UNCHANGED dkSeen
  <2>1. IsFs(fs') /\ SeenStays
    BY <1>1, <1>2, SeenStaysOr DEF DskTypes, DispositionInformation
  <2> QED BY <1>1, <1>2, <2>1, HandlesStay DEF DskTypes
<1>3. CASE /\ dk' = [dk EXCEPT !.stamp = TRUE, !.info[h].delete = TRUE]
           /\ dkSeen' = [dkSeen EXCEPT !.scheduled = @ \cup {dk.info[h].open}]
  <2>1. /\ DOMAIN dk' = DOMAIN dk /\ dk'.stamp = TRUE
        /\ dk'.info = [dk.info EXCEPT ![h].delete = TRUE]
        /\ UNCHANGED <<dk.inUse, dk.left, dk.watchers>>
    BY <1>1, <1>3 DEF DskTypes
  <2>2. /\ DOMAIN dkSeen' = DOMAIN dkSeen /\ UNCHANGED <<dkSeen.wrong, dkSeen.missed, dkSeen.owed>>
        /\ dkSeen'.scheduled = dkSeen.scheduled \cup {dk.info[h].open}
    BY <1>1, <1>3 DEF DskTypes
  <2>3. /\ DOMAIN dk'.info = DiskFds
        /\ \A g \in DiskFds : /\ DOMAIN dk'.info[g] = InfoFields
                              /\ dk'.info[g].path = dk.info[g].path
                              /\ dk'.info[g].open = dk.info[g].open
                              /\ dk'.info[g].pattern = dk.info[g].pattern
                              /\ g # h => dk'.info[g].delete = dk.info[g].delete
    <3>1. DOMAIN dk.info = DiskFds /\ \A g \in DiskFds : DOMAIN dk.info[g] = InfoFields
      BY <1>1 DEF DskTypes
    <3>2. DOMAIN dk'.info = DiskFds /\ \A g \in DiskFds : g # h => dk'.info[g] = dk.info[g]
      BY <2>1, <3>1
    <3>3. dk'.info[h] = [dk.info[h] EXCEPT !.delete = TRUE]
      BY <2>1, <3>1
    <3>4. /\ DOMAIN dk'.info[h] = InfoFields /\ dk'.info[h].path = dk.info[h].path
          /\ dk'.info[h].open = dk.info[h].open /\ dk'.info[h].pattern = dk.info[h].pattern
      BY <3>1, <3>3 DEF InfoFields
    <3> QED BY <3>1, <3>2, <3>4
  <2>4. DskTypes'
    BY <1>1, <2>1, <2>2, <2>3 DEF DskTypes, DispositionInformation
  <2>5. DeleteInv'
    BY <1>1, <2>1, <2>2, <2>3 DEF DeleteInv, DskTypes
  <2>6. QueryInv'
    BY <1>1, <2>1, <2>2, <2>3 DEF QueryInv
  <2> QED BY <2>4, <2>5, <2>6 DEF DskInv
<1> QED BY <1>2, <1>3 DEF DispositionInformation

(* A create opens a file, or fails on the way. *)
LEMMA KeepCreates ==
    ASSUME DskInv, NEW n \in Paths, NEW disposition, NEW asDir, NEW access,
           DiskCreates(n, disposition, asDir, access)
    PROVE  DskInv'
<1>1. DskTypes /\ DeleteInv /\ QueryInv
  BY DEF DskInv
<1> DEFINE o == OpenedFile(Prepared(fs, n, disposition), n, disposition, asDir)
           h == Min(DiskFds \ dk.inUse)
           info == FileinfoFor(h, n, IsDir(o.f, n), access)
           left == IF n = Share THEN Entries(o.f) ELSE {}
<1>2. h \in DiskFds /\ h \notin dk.inUse
  <2>1. DiskFds \ dk.inUse \in SUBSET Nat /\ DiskFds \ dk.inUse # {}
    BY <1>1, DiskConstants DEF DskTypes, DiskCreates
  <2> QED BY <2>1, MinIs
<1>3. IsFs(o.f)
  BY <1>1, PreparedIs, OpenedFileIs DEF DskTypes
<1>4. /\ fs' = o.f /\ dkSeen' = StillThere(dkSeen, o.f)
      /\ dk' = IF ~o.ok THEN dk
               ELSE [dk EXCEPT !.inUse = @ \cup {h}, !.opens = @ + 1, !.info[h] = info,
                               !.left[h] = left, !.stamp = @ \/ "write" \in access]
  BY DEF DiskCreates
<1>5. /\ DOMAIN info = InfoFields /\ info.path = n /\ info.pattern = dk.info[h].pattern
      /\ info.delete = FALSE
  BY <1>1, <1>2 DEF DskTypes, FileinfoFor, InfoFields
<1> HIDE DEF o, h, info, left
<1>6. SeenStays
  BY <1>1, <1>4, SeenStaysOr
<1>7. CASE ~o.ok
  BY <1>1, <1>3, <1>4, <1>6, <1>7, HandlesStay DEF DskTypes
<1>8. CASE o.ok
  <2>1. /\ DOMAIN dk' = DOMAIN dk /\ dk'.inUse = dk.inUse \cup {h}
        /\ dk'.info = [dk.info EXCEPT ![h] = info] /\ dk'.left = [dk.left EXCEPT ![h] = left]
        /\ dk'.watchers = dk.watchers
    BY <1>1, <1>4, <1>8 DEF DskTypes
  <2>2. dk'.stamp \in BOOLEAN
    <3>1. dk'.stamp = (dk.stamp \/ "write" \in access)
      BY <1>1, <1>4, <1>8 DEF DskTypes
    <3> QED BY <1>1, <3>1 DEF DskTypes
  <2>3. \A g \in DiskFds : g # h => dk'.info[g] = dk.info[g] /\ dk'.left[g] = dk.left[g]
    BY <1>1, <2>1 DEF DskTypes
  <2>4. dk'.info[h] = info /\ DOMAIN dk'.info = DiskFds /\ DOMAIN dk'.left = DiskFds
    BY <1>1, <1>2, <2>1 DEF DskTypes
  <2>5. DskTypes'
    BY <1>1, <1>2, <1>3, <1>4, <1>5, <1>6, <2>1, <2>2, <2>3, <2>4 DEF DskTypes, SeenStays
  <2>6. DeleteInv'
    BY <1>1, <1>5, <1>6, <2>1, <2>3, <2>4 DEF DeleteInv, SeenStays, DskTypes
  <2>7. QueryInv'
    <3>1. dkSeen'.owed[h] = {}
      BY <1>1, <1>2, <1>6 DEF QueryInv, SeenStays
    <3> QED BY <1>1, <1>6, <2>1, <2>3, <3>1 DEF QueryInv, SeenStays
  <2> QED BY <2>5, <2>6, <2>7 DEF DskInv
<1> QED BY <1>7, <1>8

(* A close forgets the file but for the flag and the pattern. *)
LEMMA KeepCloses ==
    ASSUME DskInv, NEW h \in DiskFds, DiskCloses(h)
    PROVE  DskInv'
<1>1. DskTypes /\ DeleteInv /\ QueryInv
  BY DEF DskInv
<1> DEFINE info == dk.info[h]
           removed == info.delete /\ Removable(info.path, info.dir)
           watchers == AbortWatcher(dk.watchers, h)
           closed == [NoInfo EXCEPT !.delete = info.delete /\ ~removed, !.pattern = info.pattern]
           seen == [dkSeen EXCEPT !.owed[h] = {},
                        !.wrong = @ \/ (removed /\ info.open \notin dkSeen.scheduled)]
<1>2. /\ h \in dk.inUse
      /\ fs' = IF removed THEN WithEntry(fs, info.path, Absent) ELSE fs
      /\ dk' = [dk EXCEPT !.inUse = @ \ {h}, !.watchers = watchers, !.stamp = @ \/ "write" \in info.access,
                          !.left[h] = {}, !.info[h] = closed]
      /\ dkSeen' = StillThere(seen, fs')
  BY DEF DiskCloses
<1>3. IsFs(fs')
  <2>1. removed => info.path \in DiskNames
    BY <1>1 DEF Removable, DskTypes, Paths
  <2> QED BY <1>1, <1>2, <2>1, WithEntryIs, AbsentIs DEF DskTypes
<1>4. watchers \in Seq(DiskFds)
  <2>1. dk.watchers \in Seq(DiskFds)
    BY <1>1 DEF DskTypes
  <2> DEFINE at == {i \in 1 .. Len(dk.watchers) : dk.watchers[i] = h}
  <2>2. ASSUME h \in Range(dk.watchers) PROVE Min(at) \in 1 .. Len(dk.watchers)
    <3>1. at \in SUBSET Nat /\ at # {}
      BY <2>1, <2>2 DEF Range
    <3> QED BY <3>1, MinIs
  <2> HIDE DEF at
  <2>3. ASSUME h \in Range(dk.watchers) PROVE RemoveAt(dk.watchers, Min(at)) \in Seq(DiskFds)
    BY <2>1, <2>2, <2>3, RemoveAtIs
  <2> QED BY <2>1, <2>3 DEF AbortWatcher, at
<1>5. DOMAIN closed = InfoFields /\ closed.path \in Paths /\ closed.pattern = info.pattern
  BY DEF NoInfo, InfoFields, Paths
<1>6. /\ DOMAIN seen = DOMAIN dkSeen /\ DOMAIN seen.owed = DiskFds
      /\ seen.scheduled = dkSeen.scheduled /\ seen.missed = dkSeen.missed
      /\ seen.owed = [dkSeen.owed EXCEPT ![h] = {}]
  BY <1>1 DEF DskTypes
<1>7. ~seen.wrong
  <2>1. seen.wrong = (dkSeen.wrong \/ (removed /\ info.open \notin dkSeen.scheduled))
    BY <1>1 DEF DskTypes
  <2>2. removed => info.open \in dkSeen.scheduled
    BY <1>1, <1>2 DEF DeleteInv
  <2> QED BY <1>1, <2>1, <2>2 DEF DeleteInv
<1>8. dk'.stamp \in BOOLEAN
  <2>1. dk'.stamp = (dk.stamp \/ "write" \in info.access)
    BY <1>1, <1>2 DEF DskTypes
  <2> QED BY <2>1
<1> HIDE DEF info, removed, watchers, closed, seen
<1>9. /\ DOMAIN dk' = DOMAIN dk /\ dk'.inUse = dk.inUse \ {h} /\ dk'.watchers = watchers
      /\ dk'.left = [dk.left EXCEPT ![h] = {}] /\ dk'.info = [dk.info EXCEPT ![h] = closed]
  BY <1>1, <1>2 DEF DskTypes
<1>10. /\ DOMAIN dkSeen' = DOMAIN dkSeen /\ DOMAIN dkSeen'.owed = DiskFds
       /\ dkSeen'.scheduled = dkSeen.scheduled /\ ~dkSeen'.wrong /\ ~dkSeen'.missed
       /\ \A g \in DiskFds : dkSeen'.owed[g] \subseteq seen.owed[g]
  <2>1. DOMAIN seen = {"scheduled", "wrong", "missed", "owed"}
    BY <1>1, <1>6 DEF DskTypes
  <2> QED BY <1>1, <1>2, <1>6, <1>7, <2>1, StillThereIs DEF QueryInv
<1>11. dkSeen'.owed[h] = {} /\ \A g \in DiskFds : dkSeen'.owed[g] \subseteq dkSeen.owed[g]
  BY <1>1, <1>6, <1>10 DEF DskTypes
<1>12. \A g \in DiskFds : g # h => dk'.info[g] = dk.info[g] /\ dk'.left[g] = dk.left[g]
  BY <1>1, <1>9 DEF DskTypes
<1>13. dk'.info[h] = closed /\ DOMAIN dk'.info = DiskFds /\ DOMAIN dk'.left = DiskFds
  BY <1>1, <1>9 DEF DskTypes
<1>14. DskTypes'
  BY <1>1, <1>3, <1>4, <1>5, <1>8, <1>9, <1>10, <1>12, <1>13 DEF DskTypes
<1>15. DeleteInv'
  BY <1>1, <1>9, <1>10, <1>12 DEF DeleteInv, DskTypes
<1>16. QueryInv'
  BY <1>1, <1>9, <1>10, <1>11, <1>12 DEF QueryInv
<1> QED BY <1>14, <1>15, <1>16 DEF DskInv

(* A query gives the next entry, or ends. *)
LEMMA KeepQueryDirectory ==
    ASSUME DskInv, NEW h \in DiskFds, NEW restart \in BOOLEAN, NEW pattern,
           QueryDirectory(h, restart, pattern)
    PROVE  DskInv'
<1>1. DskTypes /\ DeleteInv /\ QueryInv
  BY DEF DskInv
<1> DEFINE used == IF restart THEN pattern ELSE dk.info[h].pattern
           left == IF restart THEN Entries(fs) ELSE dk.left[h]
           owed == IF restart THEN Entries(fs) \cap pattern ELSE dkSeen.owed[h]
<1>2. owed \subseteq left \cap used
  BY <1>1 DEF QueryInv
<1>3. h \in dk.inUse /\ UNCHANGED fs
  BY DEF QueryDirectory
<1> DEFINE Read(rest, due) ==
          /\ dk' = [dk EXCEPT !.info[h].pattern = used, !.left[h] = rest]
          /\ \/ dkSeen' = [dkSeen EXCEPT !.owed[h] = due]
             \/ dkSeen' = [dkSeen EXCEPT !.owed[h] = due, !.missed = @ \/ owed # {}] /\ owed = {}
          /\ due \subseteq rest \cap used
<1>4. \E rest, due : Read(rest, due)
  <2>1. CASE /\ left \cap used = {}
             /\ dk' = [dk EXCEPT !.info[h].pattern = used, !.left[h] = {}]
             /\ dkSeen' = [dkSeen EXCEPT !.owed[h] = {}, !.missed = @ \/ owed # {}]
    <3>1. owed = {}
      BY <1>2, <2>1
    <3> HIDE DEF used, left, owed
    <3> QED BY <2>1, <3>1
  <2>2. ASSUME NEW n \in left \cap used, NEW passed \in SUBSET (left \ used),
               dk' = [dk EXCEPT !.info[h].pattern = used, !.left[h] = left \ (passed \cup {n})],
               dkSeen' = [dkSeen EXCEPT !.owed[h] = owed \ {n}]
        PROVE  \E rest, due : Read(rest, due)
    <3> DEFINE rest == left \ (passed \cup {n})
               due == owed \ {n}
    <3>1. due \subseteq rest \cap used
      BY <1>2
    <3> HIDE DEF used, left, owed
    <3> QED BY <2>2, <3>1
  <2> QED BY <2>1, <2>2 DEF QueryDirectory, NextEntries
<1> HIDE DEF used, left, owed
<1>5. PICK rest, due :
          /\ dk' = [dk EXCEPT !.info[h].pattern = used, !.left[h] = rest]
          /\ \/ dkSeen' = [dkSeen EXCEPT !.owed[h] = due]
             \/ dkSeen' = [dkSeen EXCEPT !.owed[h] = due, !.missed = @ \/ owed # {}] /\ owed = {}
          /\ due \subseteq rest \cap used
  BY <1>4
<1>6. /\ DOMAIN dk' = DOMAIN dk /\ UNCHANGED <<dk.inUse, dk.stamp, dk.watchers>>
      /\ dk'.info = [dk.info EXCEPT ![h].pattern = used] /\ dk'.left = [dk.left EXCEPT ![h] = rest]
  BY <1>1, <1>5 DEF DskTypes
<1>7. /\ DOMAIN dkSeen' = DOMAIN dkSeen /\ UNCHANGED <<dkSeen.scheduled, dkSeen.wrong>>
      /\ dkSeen'.owed = [dkSeen.owed EXCEPT ![h] = due] /\ ~dkSeen'.missed
  <2>1. CASE dkSeen' = [dkSeen EXCEPT !.owed[h] = due]
    BY <1>1, <2>1 DEF DskTypes, QueryInv
  <2>2. CASE dkSeen' = [dkSeen EXCEPT !.owed[h] = due, !.missed = @ \/ owed # {}] /\ owed = {}
    <3>1. dkSeen'.missed = (dkSeen.missed \/ owed # {})
      BY <1>1, <2>2 DEF DskTypes
    <3> QED BY <1>1, <2>2, <3>1 DEF DskTypes, QueryInv
  <2> QED BY <1>5, <2>1, <2>2
<1>8. /\ DOMAIN dk'.info = DiskFds /\ DOMAIN dk'.left = DiskFds /\ DOMAIN dkSeen'.owed = DiskFds
      /\ \A g \in DiskFds : /\ DOMAIN dk'.info[g] = InfoFields
                            /\ dk'.info[g].path = dk.info[g].path
                            /\ dk'.info[g].open = dk.info[g].open
                            /\ dk'.info[g].delete = dk.info[g].delete
                            /\ g # h => /\ dk'.info[g].pattern = dk.info[g].pattern
                                        /\ dk'.left[g] = dk.left[g]
                                        /\ dkSeen'.owed[g] = dkSeen.owed[g]
      /\ dk'.info[h].pattern = used /\ dk'.left[h] = rest /\ dkSeen'.owed[h] = due
  BY <1>1, <1>6, <1>7 DEF DskTypes, InfoFields
<1>9. DskTypes'
  BY <1>1, <1>3, <1>6, <1>7, <1>8 DEF DskTypes
<1>10. DeleteInv'
  BY <1>1, <1>6, <1>7, <1>8 DEF DeleteInv, DskTypes
<1>11. QueryInv'
  BY <1>1, <1>3, <1>5, <1>6, <1>7, <1>8 DEF QueryInv
<1> QED BY <1>9, <1>10, <1>11 DEF DskInv

(* Every step of disk.c, or of another process, keeps the invariant. *)
LEMMA DskStep == DskInv /\ [DiskNext]_diskVars => DskInv'
<1> SUFFICES ASSUME DskInv, [DiskNext]_diskVars PROVE DskInv'
  OBVIOUS
<1>1. CASE OtherProcess \/ DiskCheckNotify
  BY <1>1, KeepOtherProcess, KeepNotify
<1>2. ASSUME NEW n \in DiskNames \cup {Share}, NEW asDir \in BOOLEAN, NEW access,
             NEW disposition, DiskCreates(n, disposition, asDir, access)
      PROVE  DskInv'
  BY <1>2, KeepCreates DEF Paths
<1>3. ASSUME NEW h \in DiskFds,
             \/ DiskCloses(h) \/ DispositionInformation(h) \/ CreateNotify(h)
             \/ \E pattern \in Patterns, restart \in BOOLEAN : QueryDirectory(h, restart, pattern)
      PROVE  DskInv'
  BY <1>3, KeepCloses, KeepDispositionInformation, KeepNotify, KeepQueryDirectory
<1>4. ASSUME NEW h \in DiskFds,
             \/ SetBasicInformation(h) \/ EndOfFileInformation(h)
             \/ \E n \in DiskNames : RenameInformation(h, n)
      PROVE  DskInv'
  <2>1. CASE \E n \in DiskNames : RenameInformation(h, n)
    BY <2>1, KeepStamp
  <2>2. CASE SetBasicInformation(h) \/ EndOfFileInformation(h)
    <3>1. IsFs([fs EXCEPT !.changed = DiskFds]) /\ DskTypes
      BY DEF DskInv, DskTypes, IsFs
    <3>2. IsFs(fs') /\ SeenStays
      BY <2>2, <3>1, SeenStaysOr DEF SetBasicInformation, EndOfFileInformation
    <3> QED BY <2>2, <3>1, <3>2, HandlesStay
            DEF SetBasicInformation, EndOfFileInformation, DskTypes
  <2> QED BY <1>4, <2>1, <2>2
<1>5. CASE UNCHANGED diskVars
  BY <1>5 DEF diskVars, DskInv, DskTypes, DeleteInv, QueryInv, IsFs
<1> QED BY <1>1, <1>2, <1>3, <1>4, <1>5 DEF DiskNext

(* What the names of the handles stand for. *)
LEMMA NamedStep == DskInv /\ NamedInv /\ [DiskNext]_diskVars => NamedInv'
<1> SUFFICES ASSUME DskInv, NamedInv, [DiskNext]_diskVars PROVE NamedInv'
  OBVIOUS
<1>1. DskTypes
  BY DEF DskInv
<1> DEFINE NameStays(h) == dk'.info[h].path = dk.info[h].path
<1>2. ASSUME NEW f, NEW x
      PROVE  DOMAIN [StandsFor(f) EXCEPT ![x] = 0] = DiskFds /\ DOMAIN StandsFor(f) = DiskFds
             /\ \A h \in DiskFds : StandsFor(f)[h] \in {0, InodeOf(f, dk.info[h].path)}
  BY DEF StandsFor
<1>3. ASSUME dkNamed' = StandsFor(fs'), \A h \in DiskFds : NameStays(h) PROVE NamedInv'
  BY <1>2, <1>3 DEF NamedInv, InodeOf
<1>4. ASSUME UNCHANGED <<dkNamed, fs.entry>>, \A h \in DiskFds : NameStays(h) PROVE NamedInv'
  BY <1>4 DEF NamedInv, InodeOf
<1>5. CASE OtherProcess
  BY <1>3, <1>5 DEF OtherProcess
<1>6. ASSUME NEW h \in DiskFds, NEW n \in DiskNames, RenameInformation(h, n) PROVE NamedInv'
  <2>1. dk' = [dk EXCEPT !.stamp = TRUE] /\ dkNamed' = StandsFor(fs')
    BY <1>6 DEF RenameInformation
  <2>2. dk'.info = dk.info
    BY <1>1, <2>1 DEF DskTypes
  <2> QED BY <1>3, <2>1, <2>2
<1>7. CASE DiskCheckNotify \/ \E h \in DiskFds : CreateNotify(h)
  <2>1. UNCHANGED dkNamed /\ (fs' = fs \/ \E h : fs' = Noted(h))
    BY <1>7 DEF DiskCheckNotify, CreateNotify
  <2>2. fs'.entry = fs.entry
    BY <1>1, <2>1 DEF DskTypes, IsFs, Noted
  <2>3. \E s, w : dk' = [dk EXCEPT !.stamp = s, !.watchers = w]
    <3>1. CASE DiskCheckNotify
      BY <3>1 DEF DiskCheckNotify
    <3>2. ASSUME NEW h \in DiskFds, CreateNotify(h)
          PROVE  \E s, w : dk' = [dk EXCEPT !.stamp = s, !.watchers = w]
      <4>1. dk' = [dk EXCEPT !.stamp = dk.stamp, !.watchers = Append(dk.watchers, h)]
        BY <1>1, <3>2 DEF CreateNotify, DskTypes
      <4> QED BY <4>1
    <3> QED BY <1>7, <3>1, <3>2
  <2>4. dk'.info = dk.info
    BY <1>1, <2>3 DEF DskTypes
  <2> QED BY <1>4, <2>1, <2>2, <2>4
<1>8. ASSUME NEW h \in DiskFds, SetBasicInformation(h) \/ EndOfFileInformation(h) PROVE NamedInv'
  <2>1. /\ fs' = [fs EXCEPT !.changed = DiskFds] /\ dk' = [dk EXCEPT !.stamp = TRUE]
        /\ UNCHANGED dkNamed
    BY <1>8 DEF SetBasicInformation, EndOfFileInformation
  <2>2. fs'.entry = fs.entry /\ dk'.info = dk.info
    BY <1>1, <2>1 DEF DskTypes, IsFs
  <2> QED BY <1>4, <2>1, <2>2
<1>9. ASSUME NEW h \in DiskFds, DispositionInformation(h) PROVE NamedInv'
  <2>1. /\ UNCHANGED <<fs, dkNamed>>
        /\ \/ dk' = [dk EXCEPT !.stamp = TRUE]
           \/ dk' = [dk EXCEPT !.stamp = TRUE, !.info[h].delete = TRUE]
    BY <1>9 DEF DispositionInformation
  <2>2. dk'.info = dk.info \/ dk'.info = [dk.info EXCEPT ![h].delete = TRUE]
    BY <1>1, <2>1 DEF DskTypes
  <2>3. \A g \in DiskFds : NameStays(g)
    BY <1>1, <2>2 DEF DskTypes, InfoFields
  <2> QED BY <1>4, <2>1, <2>3
<1>10. ASSUME NEW h \in DiskFds, NEW restart, NEW pattern, QueryDirectory(h, restart, pattern)
       PROVE  NamedInv'
  <2> DEFINE used == IF restart THEN pattern ELSE dk.info[h].pattern
             left == IF restart THEN Entries(fs) ELSE dk.left[h]
  <2>0. /\ UNCHANGED <<fs, dkNamed>>
        /\ \/ dk' = [dk EXCEPT !.info[h].pattern = used, !.left[h] = {}]
           \/ \E n, passed : dk' = [dk EXCEPT !.info[h].pattern = used,
                                              !.left[h] = left \ (passed \cup {n})]
    BY <1>10 DEF QueryDirectory
  <2> HIDE DEF used, left
  <2>1. /\ UNCHANGED <<fs, dkNamed>>
        /\ \E rest : dk' = [dk EXCEPT !.info[h].pattern = used, !.left[h] = rest]
    BY <2>0
  <2>2. dk'.info = [dk.info EXCEPT ![h].pattern = used]
    BY <1>1, <2>1 DEF DskTypes
  <2>3. \A g \in DiskFds : NameStays(g)
    BY <1>1, <2>2 DEF DskTypes, InfoFields
  <2> QED BY <1>4, <2>1, <2>3
<1>11. ASSUME NEW h \in DiskFds, DiskCloses(h) PROVE NamedInv'
  <2>1. dkNamed' = [StandsFor(fs') EXCEPT ![h] = 0]
        /\ \E s, i, w, u : dk' = [dk EXCEPT !.inUse = u, !.watchers = w, !.stamp = s,
                                            !.left[h] = {}, !.info[h] = i]
    BY <1>11 DEF DiskCloses
  <2>2. \E i : dk'.info = [dk.info EXCEPT ![h] = i]
    <3>1. PICK s, i, w, u : dk' = [dk EXCEPT !.inUse = u, !.watchers = w, !.stamp = s,
                                            !.left[h] = {}, !.info[h] = i]
      BY <2>1
    <3>2. dk'.info = [dk.info EXCEPT ![h] = i]
      BY <1>1, <3>1 DEF DskTypes
    <3> QED BY <3>2
  <2>3. \A g \in DiskFds : g # h => NameStays(g)
    BY <1>1, <2>2 DEF DskTypes
  <2>4. /\ DOMAIN dkNamed' = DiskFds /\ dkNamed'[h] = 0
        /\ \A g \in DiskFds : g # h => dkNamed'[g] \in {0, InodeOf(fs', dk.info[g].path)}
    BY <1>2, <2>1
  <2> QED BY <2>3, <2>4 DEF NamedInv, InodeOf
<1>12. ASSUME NEW n \in Paths, NEW disposition, NEW asDir, NEW access,
              DiskCreates(n, disposition, asDir, access)
       PROVE  NamedInv'
  <2> DEFINE o == OpenedFile(Prepared(fs, n, disposition), n, disposition, asDir)
             h == Min(DiskFds \ dk.inUse)
             info == FileinfoFor(h, n, IsDir(o.f, n), access)
  <2>1. h \in DiskFds
    <3>1. DiskFds \ dk.inUse \in SUBSET Nat /\ DiskFds \ dk.inUse # {}
      BY <1>1, <1>12, DiskConstants DEF DskTypes, DiskCreates
    <3> QED BY <3>1, MinIs
  <2>2. info.path = n
    BY <1>1, <2>1 DEF DskTypes, FileinfoFor, InfoFields
  <2>3. /\ fs' = o.f
        /\ \/ dk' = dk /\ dkNamed' = StandsFor(o.f)
           \/ /\ \E u, c, l, s : dk' = [dk EXCEPT !.inUse = u, !.opens = c, !.info[h] = info,
                                                  !.left[h] = l, !.stamp = s]
              /\ dkNamed' = [StandsFor(o.f) EXCEPT ![h] = InodeOf(o.f, n)]
    BY <1>12 DEF DiskCreates
  <2> HIDE DEF o, h, info
  <2>4. CASE dk' = dk /\ dkNamed' = StandsFor(o.f)
    BY <1>3, <2>3, <2>4
  <2>5. CASE /\ \E u, c, l, s : dk' = [dk EXCEPT !.inUse = u, !.opens = c, !.info[h] = info,
                                                 !.left[h] = l, !.stamp = s]
             /\ dkNamed' = [StandsFor(o.f) EXCEPT ![h] = InodeOf(o.f, n)]
    <3>1. dk'.info = [dk.info EXCEPT ![h] = info]
      BY <1>1, <2>5 DEF DskTypes
    <3>2. dk'.info[h] = info /\ \A g \in DiskFds : g # h => NameStays(g)
      BY <1>1, <2>1, <3>1 DEF DskTypes
    <3>3. /\ DOMAIN dkNamed' = DiskFds /\ dkNamed'[h] = InodeOf(fs', n)
          /\ \A g \in DiskFds : g # h => dkNamed'[g] \in {0, InodeOf(fs', dk.info[g].path)}
      BY <1>2, <2>1, <2>3, <2>5
    <3> QED BY <2>2, <3>2, <3>3 DEF NamedInv, InodeOf
  <2> QED BY <2>3, <2>4, <2>5
<1>13. CASE UNCHANGED diskVars
  BY <1>13 DEF diskVars, NamedInv, InodeOf
<1>14. CASE DiskNext
  <2>1. \/ OtherProcess \/ DiskCheckNotify
        \/ \E n \in Paths : \E disposition, asDir, access : DiskCreates(n, disposition, asDir, access)
        \/ \E h \in DiskFds :
               \/ DiskCloses(h) \/ SetBasicInformation(h) \/ DispositionInformation(h)
               \/ EndOfFileInformation(h) \/ CreateNotify(h)
               \/ \E n \in DiskNames : RenameInformation(h, n)
               \/ \E restart, pattern : QueryDirectory(h, restart, pattern)
    BY <1>14 DEF DiskNext, Paths
  <2> QED BY <1>5, <1>6, <1>7, <1>8, <1>9, <1>10, <1>11, <1>12, <2>1
<1> QED BY <1>13, <1>14

-----------------------------------------------------------------------------
(* Serial ports (serial.c) *)

SerFields == {"baud_rate", "stop_bits", "parity", "word_length", "cts", "xon", "xoff", "dtr"}

SerTypes ==
    /\ tio \in Termios /\ DOMAIN ser = SerFields
    /\ ser.baud_rate \in Bauds \cup {0}
    /\ {ser.cts, ser.xon, ser.xoff} \subseteq BOOLEAN
    /\ DOMAIN asked \subseteq SerFields

(* What the port makes of the bytes of a setting, and what it reads back.    *)
Stops(v) == IF v = 2 THEN 2 ELSE 0
ParityOf(v) == IF v \in {"even", "odd"} THEN v ELSE "none"
SizeOf(v) == IF v \in 5 .. 7 THEN v ELSE 8

(* What the server set is in the termios of the port, and in SERIAL_DEVICE   *)
(* as it was set or as it is read from the port.                             *)
SetInv ==
    /\ "stop_bits" \in DOMAIN asked =>
           /\ ser.stop_bits \in {asked["stop_bits"], Stops(asked["stop_bits"])}
           /\ (IF tio.cstopb THEN 2 ELSE 0) = Stops(asked["stop_bits"])
    /\ "parity" \in DOMAIN asked =>
           /\ ser.parity \in {asked["parity"], ParityOf(asked["parity"])}
           /\ tio.parity = ParityOf(asked["parity"])
    /\ "word_length" \in DOMAIN asked =>
           /\ ser.word_length \in {asked["word_length"], SizeOf(asked["word_length"])}
           /\ tio.size = SizeOf(asked["word_length"]) /\ asked["word_length"] \in Int
    /\ "cts" \in DOMAIN asked => /\ ser.cts = asked["cts"] /\ tio.crtscts = ser.cts
                                 /\ asked["cts"] \in BOOLEAN
    /\ "baud_rate" \in DOMAIN asked /\ asked["baud_rate"] \in {9600, 115200} =>
           ser.baud_rate = asked["baud_rate"] /\ tio.speed = ser.baud_rate

SerInv == SerTypes /\ SetInv

(* The properties of serial ports follow from it. *)
LEMMA SerInvGives == SerInv => SerialTypeOK /\ SettingsReadBack
<1> SUFFICES ASSUME SerInv PROVE SerialTypeOK /\ SettingsReadBack
  OBVIOUS
<1>1. SerTypes /\ SetInv
  BY DEF SerInv
<1>2. SerialTypeOK
  BY <1>1 DEF SerTypes, SerialTypeOK
<1> DEFINE t == GetTermios(tio)
<1>3. /\ t.baud_rate = BaudOf(tio.speed) /\ t.stop_bits = (IF tio.cstopb THEN 2 ELSE 0)
      /\ t.parity = tio.parity /\ t.word_length = tio.size /\ t.cts = tio.crtscts
  BY DEF GetTermios
<1> HIDE DEF t
<1>4. ASSUME NEW f \in DOMAIN asked \cap DOMAIN PortHolds
      PROVE  IF asked[f] \in PortHolds[f] THEN ser[f] = asked[f] /\ t[f] = asked[f]
             ELSE f # "baud_rate" => ser[f] \in {asked[f], NoSettings[f]} /\ t[f] = NoSettings[f]
  <2>1. f \in {"baud_rate", "stop_bits", "parity", "word_length", "cts"}
    BY <1>4 DEF PortHolds
  <2>2. CASE f = "baud_rate"
    <3>1. PortHolds[f] = {9600, 115200}
      BY <2>2 DEF PortHolds
    <3> QED BY <1>1, <1>3, <1>4, <2>2, <3>1 DEF SetInv, BaudOf
  <2>3. CASE f = "stop_bits"
    <3>1. PortHolds[f] = {0, 2} /\ NoSettings[f] = 0
      BY <2>3 DEF PortHolds, NoSettings
    <3> QED BY <1>1, <1>3, <1>4, <2>3, <3>1 DEF SetInv, Stops
  <2>4. CASE f = "parity"
    <3>1. PortHolds[f] = {"none", "even", "odd"} /\ NoSettings[f] = "none"
      BY <2>4 DEF PortHolds, NoSettings, Parities
    <3> QED BY <1>1, <1>3, <1>4, <2>4, <3>1 DEF SetInv, ParityOf
  <2>5. CASE f = "word_length"
    <3>1. PortHolds[f] = 5 .. 8 /\ NoSettings[f] = 8
      BY <2>5 DEF PortHolds, NoSettings
    <3> QED BY <1>1, <1>3, <1>4, <2>5, <3>1 DEF SetInv, SizeOf
  <2>6. CASE f = "cts"
    <3>1. PortHolds[f] = BOOLEAN
      BY <2>6 DEF PortHolds
    <3> QED BY <1>1, <1>3, <1>4, <2>6, <3>1 DEF SetInv
  <2> QED BY <2>1, <2>2, <2>3, <2>4, <2>5, <2>6
<1>5. SettingsReadBack
  BY <1>4 DEF SettingsReadBack, t
<1> QED BY <1>2, <1>5

(* Nothing is asked for at the start. *)
LEMMA SerInit == SerialInit => SerInv
<1> SUFFICES ASSUME SerialInit PROVE SerInv
  OBVIOUS
<1>1. tio \in Termios /\ ser = NoSettings /\ asked = [x \in {} |-> 0]
  BY SerialConstants DEF SerialInit
<1>2. DOMAIN asked = {}
  BY <1>1
<1>3. /\ DOMAIN ser = SerFields
      /\ ser.baud_rate = 0 /\ ser.cts = FALSE /\ ser.xon = FALSE /\ ser.xoff = FALSE
  BY <1>1 DEF NoSettings, SerFields
<1>4. SetInv
  BY <1>2 DEF SetInv
<1>5. /\ ser.baud_rate \in Bauds \cup {0}
      /\ {ser.cts, ser.xon, ser.xoff} \subseteq BOOLEAN
  BY <1>3, Zenon
<1>6. SerTypes
  BY <1>1, <1>2, <1>3, <1>5, Zenon DEF SerTypes
<1> QED BY <1>4, <1>6 DEF SerInv

(* get_termios fills the settings with what the port has. *)
LEMMA GetTermiosGives ==
    ASSUME SerTypes, ser' = GetTermios(tio)
    PROVE  /\ DOMAIN ser' = SerFields
           /\ ser'.baud_rate = BaudOf(tio.speed) /\ ser'.baud_rate \in Bauds
           /\ ser'.stop_bits = (IF tio.cstopb THEN 2 ELSE 0)
           /\ ser'.parity = tio.parity /\ ser'.word_length = tio.size
           /\ ser'.cts = tio.crtscts /\ ser'.xon = tio.ixon /\ ser'.xoff = tio.ixoff
BY DEF SerTypes, GetTermios, SerFields, Termios, BaudOf, Bauds

(* set_termios gives the port the settings it takes. *)
LEMMA SetTermiosGives ==
    ASSUME SerTypes, NEW s, {s.cts, s.xon, s.xoff} \subseteq BOOLEAN,
           tio' = SetTermios(s, tio)
    PROVE  /\ tio' \in Termios
           /\ tio'.speed = SpeedOf(s.baud_rate)
           /\ (IF tio'.cstopb THEN 2 ELSE 0) = Stops(s.stop_bits)
           /\ tio'.parity = ParityOf(s.parity) /\ tio'.size = SizeOf(s.word_length)
           /\ tio'.crtscts = s.cts
<1>0. /\ tio.ixon \in BOOLEAN /\ tio.ixoff \in BOOLEAN
      /\ s.cts \in BOOLEAN /\ s.xon \in BOOLEAN /\ s.xoff \in BOOLEAN
  BY DEF SerTypes, Termios
<1>1. SpeedOf(s.baud_rate) \in {9600, 115200}
  BY DEF SpeedOf
<1>2. /\ FlowOf(s, tio, tio.ixon, s.xon) \in BOOLEAN
      /\ FlowOf(s, tio, tio.ixoff, s.xoff) \in BOOLEAN
  BY <1>0 DEF FlowOf
<1>3. /\ SizeOf(s.word_length) \in 5 .. 8 /\ ParityOf(s.parity) \in Parities
      /\ (s.stop_bits = 2) \in BOOLEAN
  BY DEF SizeOf, ParityOf, Parities
<1>4. tio' \in Termios
  BY <1>0, <1>1, <1>2, <1>3 DEF SetTermios, Termios, SizeOf, ParityOf
<1> QED BY <1>3, <1>4 DEF SetTermios, SizeOf, ParityOf, Stops

(* Settings of the server are written through. *)
LEMMA SetsKeep ==
    ASSUME SerInv, NEW changes, DOMAIN changes \subseteq SerFields, Sets(changes),
           "baud_rate" \in DOMAIN changes => changes["baud_rate"] \in Bauds,
           "word_length" \in DOMAIN changes => changes["word_length"] \in Int,
           \A f \in {"cts", "xon", "xoff"} :
               f \in DOMAIN changes => changes[f] \in BOOLEAN
    PROVE  SerInv'
<1>1. SerTypes /\ SetInv
  BY DEF SerInv
<1> DEFINE s == [f \in DOMAIN ser |-> IF f \in DOMAIN changes THEN changes[f] ELSE ser[f]]
<1>2. ser' = s /\ tio' = SetTermios(s, tio)
      /\ asked' = [f \in DOMAIN asked \cup DOMAIN changes |->
                       IF f \in DOMAIN changes THEN changes[f] ELSE asked[f]]
  BY DEF Sets
<1>3. /\ DOMAIN s = SerFields
      /\ \A f \in SerFields : s[f] = IF f \in DOMAIN changes THEN changes[f] ELSE ser[f]
      /\ s.baud_rate \in Bauds \cup {0}
      /\ {s.cts, s.xon, s.xoff} \subseteq BOOLEAN
  BY <1>1 DEF SerTypes, SerFields
<1> HIDE DEF s
<1>4. /\ tio' \in Termios
      /\ tio'.speed = SpeedOf(s.baud_rate)
      /\ (IF tio'.cstopb THEN 2 ELSE 0) = Stops(s.stop_bits)
      /\ tio'.parity = ParityOf(s.parity) /\ tio'.size = SizeOf(s.word_length)
      /\ tio'.crtscts = s.cts
  BY <1>1, <1>2, <1>3, SetTermiosGives
<1>5. SerTypes'
  BY <1>1, <1>2, <1>3, <1>4 DEF SerTypes
<1>6. /\ DOMAIN asked' = DOMAIN asked \cup DOMAIN changes /\ DOMAIN asked' \subseteq SerFields
      /\ \A f \in DOMAIN asked' : \/ f \in DOMAIN changes /\ asked'[f] = changes[f]
                                  \/ f \in DOMAIN asked /\ asked'[f] = asked[f]
                                     /\ f \notin DOMAIN changes
  BY <1>1, <1>2 DEF SerTypes
<1>7. /\ \A b \in {9600, 115200} : SpeedOf(b) = b
      /\ \A v : Stops(Stops(v)) = Stops(v) /\ ParityOf(ParityOf(v)) = ParityOf(v)
                /\ SizeOf(SizeOf(v)) = SizeOf(v)
  BY DEF SpeedOf, Stops, ParityOf, SizeOf
<1>8. ASSUME NEW f \in DOMAIN asked'
      PROVE  \/ ser'[f] = asked'[f]
             \/ f \in DOMAIN asked /\ asked'[f] = asked[f] /\ ser'[f] = ser[f]
  <2>1. f \in SerFields /\ ser'[f] = s[f]
    BY <1>2, <1>6, <1>8
  <2>2. s[f] = IF f \in DOMAIN changes THEN changes[f] ELSE ser[f]
    BY <1>3, <2>1
  <2> QED BY <1>6, <1>8, <2>1, <2>2
<1>9. SetInv'
  <2>1. "stop_bits" \in DOMAIN asked' =>
            /\ ser'.stop_bits \in {asked'["stop_bits"], Stops(asked'["stop_bits"])}
            /\ (IF tio'.cstopb THEN 2 ELSE 0) = Stops(asked'["stop_bits"])
    BY <1>1, <1>2, <1>4, <1>7, <1>8 DEF SetInv
  <2>2. "parity" \in DOMAIN asked' =>
            /\ ser'.parity \in {asked'["parity"], ParityOf(asked'["parity"])}
            /\ tio'.parity = ParityOf(asked'["parity"])
    BY <1>1, <1>2, <1>4, <1>7, <1>8 DEF SetInv
  <2>3. "word_length" \in DOMAIN asked' =>
            /\ ser'.word_length \in {asked'["word_length"], SizeOf(asked'["word_length"])}
            /\ tio'.size = SizeOf(asked'["word_length"]) /\ asked'["word_length"] \in Int
    BY <1>1, <1>2, <1>4, <1>6, <1>7, <1>8 DEF SetInv
  <2>4. "cts" \in DOMAIN asked' => /\ ser'.cts = asked'["cts"] /\ tio'.crtscts = ser'.cts
                                   /\ asked'["cts"] \in BOOLEAN
    BY <1>1, <1>2, <1>4, <1>6, <1>8 DEF SetInv
  <2>5. "baud_rate" \in DOMAIN asked' /\ asked'["baud_rate"] \in {9600, 115200} =>
            ser'.baud_rate = asked'["baud_rate"] /\ tio'.speed = ser'.baud_rate
    <3> SUFFICES ASSUME "baud_rate" \in DOMAIN asked', asked'["baud_rate"] \in {9600, 115200}
                 PROVE  ser'.baud_rate = asked'["baud_rate"] /\ tio'.speed = ser'.baud_rate
      OBVIOUS
    <3>1. ser'["baud_rate"] = asked'["baud_rate"]
      BY <1>1, <1>8 DEF SetInv
    <3>2. tio'.speed = SpeedOf(ser'["baud_rate"])
      BY <1>2, <1>4
    <3> QED BY <1>7, <3>1, <3>2
  <2> QED BY <2>1, <2>2, <2>3, <2>4, <2>5 DEF SetInv
<1> QED BY <1>5, <1>9 DEF SerInv

(* Every step of serial.c keeps the invariant. *)
LEMMA SerStep == SerInv /\ [SerialNext]_serialVars => SerInv'
<1> SUFFICES ASSUME SerInv, [SerialNext]_serialVars PROVE SerInv'
  OBVIOUS
<1>1. SerTypes /\ SetInv
  BY DEF SerInv
<1>2. CASE SerialOpens
  <2>1. ser' = GetTermios(tio) /\ tio' = RawTermios(tio) /\ asked' = [x \in {} |-> 0]
    BY <1>2 DEF SerialOpens
  <2>2. DOMAIN asked' = {}
    BY <2>1
  <2>3. tio' \in Termios
    <3>1. tio \in Termios /\ "none" \in Parities /\ 8 \in 5 .. 8
      BY <1>1 DEF SerTypes, Parities
    <3> QED BY <2>1, <3>1 DEF RawTermios, Termios
  <2>4. SerTypes'
    BY <1>1, <2>1, <2>2, <2>3, GetTermiosGives DEF SerTypes, Termios
  <2> QED BY <2>2, <2>4 DEF SerInv, SetInv
<1>3. CASE SetBaudRate
  BY <1>3, SetsKeep DEF SetBaudRate, SerFields
<1>4. CASE SetLineControl
  BY <1>4, SetsKeep DEF SetLineControl, SerFields, WordLengths
<1>5. CASE SetHandflow
  BY <1>5, SetsKeep DEF SetHandflow, SerFields
<1>6. CASE GetHandflow
  <2>1. ser' = GetTermios(tio) /\ tio' = tio /\ asked' = asked
    BY <1>6 DEF GetHandflow
  <2>2. SerTypes'
    BY <1>1, <2>1, GetTermiosGives DEF SerTypes, Termios
  <2>3. \A b \in {9600, 115200} : BaudOf(b) = b
    BY DEF BaudOf
  <2>4. SetInv'
    BY <1>1, <2>1, <2>3, GetTermiosGives DEF SerTypes, SetInv, Termios
  <2> QED BY <2>2, <2>4 DEF SerInv
<1>7. CASE SetDtr
  BY <1>1, <1>7 DEF SetDtr, SerInv, SerTypes, SetInv, SerFields
<1>8. CASE UNCHANGED serialVars
  BY <1>1, <1>8 DEF serialVars, SerInv, SerTypes, SetInv
<1> QED BY <1>2, <1>3, <1>4, <1>5, <1>6, <1>7, <1>8 DEF SerialNext

-----------------------------------------------------------------------------
(* The printer cache (printercache.c) *)

PcCallTypes(c, files) ==
    /\ c.step \in {"idle", "open", "write", "unlink", "rmdir", "read", "ended"}
    /\ c.step \in {"open", "write", "unlink", "rmdir"} => c.printer \in Printers
    /\ c.step \in {"open", "write"} => c.blob \in DOMAIN PcBlobs
    /\ c.step \in {"write", "read"} => c.file \in 1 .. files
    /\ c.step = "read" => c.size \in Nat

PcTypes ==
    /\ DOMAIN pcHist = {"saves", "crashes", "mixed", "short", "overtaken", "announced"}
    /\ pcHist.saves \in 0 .. MaxPcSaves /\ pcHist.crashes \in 0 .. MaxPcCrashes
    /\ pcFiles \in Seq(Seq(DOMAIN PcBlobs))
    /\ DOMAIN pcDir = Printers
    /\ \A n \in Printers : pcDir[n] \in {NoDir, NoFile} \cup 1 .. Len(pcFiles)
    /\ DOMAIN pcCall = PcPrograms
    /\ \A p \in PcPrograms : PcCallTypes(pcCall[p], Len(pcFiles))

(* A file that no two processes were to write at once: one that is to write  *)
(* has it empty, and to itself; one that reads it knows its size, unless the *)
(* file was empty or has been opened for another save by then.               *)
PcFileInv(i) ==
    /\ IF i \in pcHist.short THEN PcPart(pcFiles[i]) ELSE PcWhole(pcFiles[i])
    /\ \A p \in WritersOf(i) : /\ pcFiles[i] = << >> /\ i \notin pcHist.short
                               /\ WritersOf(i) \subseteq {p}
    /\ \A p \in ReadersOf(i) \ pcHist.overtaken : pcCall[p].size \in {0, Len(pcFiles[i])}

PcAnnounced == pcHist.announced.disturbed \/ PcWhole(pcHist.announced.bytes)

PcInv ==
    /\ PcTypes /\ PcAnnounced
    /\ \A i \in (1 .. Len(pcFiles)) \ pcHist.mixed : PcFileInv(i)

(* The properties of the printer cache follow from it. *)
LEMMA PcInvGives == PcInv => PcTypeOK /\ BlobsAreWhole
<1> SUFFICES ASSUME PcInv PROVE PcTypeOK /\ BlobsAreWhole
  OBVIOUS
<1>1. DOMAIN pcFiles = 1 .. Len(pcFiles) /\ \A i \in DOMAIN pcFiles : pcFiles[i] \in Seq(DOMAIN PcBlobs)
  BY DEF PcInv, PcTypes
<1>2. PcTypeOK
  BY <1>1 DEF PcInv, PcTypes, PcTypeOK, PcCallTypes
<1>3. FilesAreWhole
  BY <1>1 DEF PcInv, PcFileInv, FilesAreWhole
<1> QED BY <1>2, <1>3 DEF PcInv, PcAnnounced, BlobsAreWhole

(* There are no directories at the start. *)
LEMMA PcInitInv == PcInit => PcInv
<1> SUFFICES ASSUME PcInit PROVE PcInv
  OBVIOUS
<1>1. /\ pcDir = [n \in Printers |-> NoDir] /\ pcFiles = << >>
      /\ pcCall = [p \in PcPrograms |-> PcIdle]
      /\ DOMAIN pcHist = {"saves", "crashes", "mixed", "short", "overtaken", "announced"}
      /\ pcHist.saves = 0 /\ pcHist.crashes = 0 /\ pcHist.announced.bytes = << >>
  BY DEF PcInit
<1>2. 0 \in 0 .. MaxPcSaves /\ 0 \in 0 .. MaxPcCrashes
  BY PcConstants
<1>3. Len(pcFiles) = 0 /\ pcFiles \in Seq(Seq(DOMAIN PcBlobs))
  BY <1>1
<1>4. \A p \in PcPrograms : PcCallTypes(pcCall[p], Len(pcFiles))
  BY <1>1 DEF PcIdle, PcCallTypes
<1>5. PcTypes
  BY <1>1, <1>2, <1>3, <1>4 DEF PcTypes
<1> QED BY <1>1, <1>3, <1>5 DEF PcInv, PcAnnounced, PcWhole

(* The bytes of a blob, whole and without the last. *)
LEMMA BlobDataIs ==
    ASSUME NEW b \in DOMAIN PcBlobs
    PROVE  /\ BlobData(b) \in Seq(DOMAIN PcBlobs) /\ Len(BlobData(b)) = PcBlobs[b]
           /\ PcBlobs[b] \in Nat \ {0}
           /\ SubSeq(BlobData(b), 1, PcBlobs[b]) = BlobData(b)
           /\ SubSeq(BlobData(b), 1, PcBlobs[b] - 1) \in Seq(DOMAIN PcBlobs)
<1>1. PcBlobs[b] \in Nat \ {0}
  BY PcConstants
<1>2. BlobData(b) \in Seq(DOMAIN PcBlobs) /\ Len(BlobData(b)) = PcBlobs[b]
  BY <1>1 DEF BlobData
<1> DEFINE data == BlobData(b)
<1>3. SubSeq(data, 1, Len(data)) = data
  BY <1>2, SubSeqFull
<1>4. \A k \in 1 .. PcBlobs[b] - 1 : data[k] \in DOMAIN PcBlobs
  BY <1>1, <1>2
<1>5. SubSeq(data, 1, PcBlobs[b] - 1) \in Seq(DOMAIN PcBlobs)
  BY <1>1, <1>4, SubSeqProperties
<1> QED BY <1>1, <1>2, <1>3, <1>5

(* A write over bytes leaves bytes, and all of what it writes to an empty file. *)
LEMMA OverwriteIs ==
    ASSUME NEW old \in Seq(DOMAIN PcBlobs), NEW d \in Seq(DOMAIN PcBlobs)
    PROVE  Overwrite(old, d) \in Seq(DOMAIN PcBlobs) /\ Overwrite(<< >>, d) = d
<1>1. SubSeq(old, Len(d) + 1, Len(old)) \in Seq(DOMAIN PcBlobs)
  <2>1. Len(d) \in Nat /\ Len(old) \in Nat
        /\ \A i \in Len(d) + 1 .. Len(old) : old[i] \in DOMAIN PcBlobs
    OBVIOUS
  <2> QED BY <2>1, SubSeqProperties
<1>2. Overwrite(old, d) \in Seq(DOMAIN PcBlobs)
  BY <1>1 DEF Overwrite
<1>3. SubSeq(<< >>, Len(d) + 1, 0) = << >>
  <2>1. Len(d) \in Nat
    OBVIOUS
  <2> QED BY <2>1, SubSeqEmpty
<1>4. d \o << >> = d
  OBVIOUS
<1> QED BY <1>2, <1>3, <1>4 DEF Overwrite

(* A step of one process that leaves the files, and what disturbs them, as    *)
(* they are: it writes and reads no more than before.                         *)
LEMMA PcFilesStay ==
    ASSUME PcInv, UNCHANGED <<pcFiles, pcHist.mixed, pcHist.short, pcHist.overtaken>>,
           DOMAIN pcHist' = DOMAIN pcHist, PcAnnounced',
           pcHist'.saves \in 0 .. MaxPcSaves, pcHist'.crashes \in 0 .. MaxPcCrashes,
           DOMAIN pcDir' = Printers,
           \A n \in Printers : pcDir'[n] \in {NoDir, NoFile} \cup 1 .. Len(pcFiles),
           NEW p \in PcPrograms, NEW c, c.step \notin {"write", "read"}, PcCallTypes(c, Len(pcFiles)),
           pcCall' = [pcCall EXCEPT ![p] = c] \/ UNCHANGED pcCall
    PROVE  PcInv'
<1>1. PcTypes /\ DOMAIN pcCall = PcPrograms
  BY DEF PcInv, PcTypes
<1>2. /\ DOMAIN pcCall' = PcPrograms
      /\ \A q \in PcPrograms : pcCall'[q] = pcCall[q] \/ pcCall'[q] = c
  BY <1>1
<1>3. \A q \in PcPrograms : PcCallTypes(pcCall'[q], Len(pcFiles'))
  BY <1>1, <1>2 DEF PcTypes, PcCallTypes
<1>4. PcTypes'
  BY <1>1, <1>2, <1>3 DEF PcTypes
<1>5. \A i : WritersOf(i)' \subseteq WritersOf(i) /\ ReadersOf(i)' \subseteq ReadersOf(i)
  BY <1>2 DEF WritersOf, ReadersOf
<1>6. \A i : \A q \in ReadersOf(i)' : pcCall'[q] = pcCall[q]
  BY <1>2 DEF ReadersOf
<1>7. ASSUME NEW i \in 1 .. Len(pcFiles), i \notin pcHist.mixed PROVE PcFileInv(i)'
  <2>1. PcFileInv(i)
    BY <1>7 DEF PcInv
  <2> QED BY <1>5, <1>6, <2>1 DEF PcFileInv, PcPart, PcWhole, BlobData
<1> QED BY <1>4, <1>7 DEF PcInv

(* What is announced does not change. *)
LEMMA PcAnnouncedStays ==
    PcAnnounced /\ UNCHANGED pcHist.announced => PcAnnounced'
BY DEF PcAnnounced, PcWhole, BlobData

(* Steps on directories alone, and a process that ends. *)
LEMMA PcQuietInv ==
    ASSUME PcInv, NEW p \in PcPrograms,
           \/ SaveUnlink(p) \/ RemoveDir(p) \/ PcCrash(p)
           \/ \E n \in Printers : \/ UnlinkBlob(p, n)
                                  \/ \E b \in DOMAIN PcBlobs : SaveBlob(p, n, b)
                                  \/ \E m \in Printers : RenameBlob(p, n, m)
    PROVE  PcInv'
<1>1. PcTypes /\ PcAnnounced
  BY DEF PcInv
<1>2. CASE SaveUnlink(p) \/ RemoveDir(p) \/ \E n \in Printers : UnlinkBlob(p, n)
  <2>1. \A n \in Printers : /\ PcCallTypes(PcIdle, Len(pcFiles)) /\ PcIdle.step = "idle"
                           /\ PcCallTypes([step |-> "rmdir", printer |-> n], Len(pcFiles))
    BY DEF PcIdle, PcCallTypes
  <2>2. \E c : /\ pcCall' = [pcCall EXCEPT ![p] = c]
               /\ c.step \notin {"write", "read"} /\ PcCallTypes(c, Len(pcFiles))
    <3>1. CASE SaveUnlink(p) \/ RemoveDir(p)
      <4> DEFINE c == PcIdle
      <4>1. pcCall' = [pcCall EXCEPT ![p] = c]
        BY <3>1 DEF SaveUnlink, RemoveDir
      <4>2. c.step \notin {"write", "read"} /\ PcCallTypes(c, Len(pcFiles))
        BY DEF PcIdle, PcCallTypes
      <4> HIDE DEF c
      <4> QED BY <4>1, <4>2
    <3>2. ASSUME NEW n \in Printers, UnlinkBlob(p, n)
          PROVE  \E c : /\ pcCall' = [pcCall EXCEPT ![p] = c]
                        /\ c.step \notin {"write", "read"} /\ PcCallTypes(c, Len(pcFiles))
      <4> DEFINE c == [step |-> "rmdir", printer |-> n]
      <4>1. pcCall' = [pcCall EXCEPT ![p] = c] /\ c.step = "rmdir" /\ PcCallTypes(c, Len(pcFiles))
        BY <2>1, <3>2 DEF UnlinkBlob
      <4> HIDE DEF c
      <4> QED BY <4>1
    <3> QED BY <1>2, <3>1, <3>2
  <2>3. UNCHANGED <<pcFiles, pcHist>>
    BY <1>2 DEF SaveUnlink, RemoveDir, UnlinkBlob
  <2>4. pcDir' = pcDir \/ \E n, d : d \in {NoDir, NoFile} /\ pcDir' = [pcDir EXCEPT ![n] = d]
    BY <1>2 DEF SaveUnlink, RemoveDir, UnlinkBlob
  <2>5. /\ DOMAIN pcDir' = Printers
        /\ \A n \in Printers : pcDir'[n] \in {NoDir, NoFile} \cup 1 .. Len(pcFiles)
    BY <1>1, <2>4 DEF PcTypes
  <2> QED BY <1>1, <2>2, <2>3, <2>5, PcAnnouncedStays, PcFilesStay DEF PcTypes
<1>3. CASE PcCrash(p)
  <2>1. /\ UNCHANGED <<pcDir, pcFiles>> /\ pcHist.crashes < MaxPcCrashes
        /\ pcCall' = [pcCall EXCEPT ![p] = [step |-> "ended"]]
        /\ pcHist' = [pcHist EXCEPT !.crashes = @ + 1]
    BY <1>3 DEF PcCrash
  <2>2. /\ DOMAIN pcHist' = DOMAIN pcHist /\ pcHist'.crashes = pcHist.crashes + 1
        /\ UNCHANGED <<pcHist.saves, pcHist.mixed, pcHist.short, pcHist.overtaken, pcHist.announced>>
    BY <1>1, <2>1 DEF PcTypes
  <2>3. pcHist'.crashes \in 0 .. MaxPcCrashes
    BY <1>1, <2>1, <2>2, PcConstants DEF PcTypes
  <2>4. PcCallTypes([step |-> "ended"], Len(pcFiles))
    BY DEF PcCallTypes
  <2> QED BY <1>1, <2>1, <2>2, <2>3, <2>4, PcAnnouncedStays, PcFilesStay DEF PcTypes
<1>4. ASSUME NEW n \in Printers, NEW b \in DOMAIN PcBlobs, SaveBlob(p, n, b) PROVE PcInv'
  <2> DEFINE c == [step |-> "open", printer |-> n, blob |-> b]
  <2>1. /\ pcDir' = pcDir \/ pcDir' = [pcDir EXCEPT ![n] = NoFile]
        /\ pcCall' = [pcCall EXCEPT ![p] = c] /\ UNCHANGED pcFiles
        /\ pcHist' = [pcHist EXCEPT !.saves = @ + 1] /\ pcHist.saves < MaxPcSaves
    BY <1>4 DEF SaveBlob
  <2>2. PcCallTypes(c, Len(pcFiles)) /\ c.step \notin {"write", "read"}
    BY DEF PcCallTypes
  <2>3. /\ DOMAIN pcHist' = DOMAIN pcHist /\ pcHist'.saves = pcHist.saves + 1
        /\ UNCHANGED <<pcHist.crashes, pcHist.mixed, pcHist.short, pcHist.overtaken, pcHist.announced>>
    BY <1>1, <2>1 DEF PcTypes
  <2>4. pcHist'.saves \in 0 .. MaxPcSaves
    BY <1>1, <2>1, <2>3, PcConstants DEF PcTypes
  <2>5. /\ DOMAIN pcDir' = Printers
        /\ \A m \in Printers : pcDir'[m] \in {NoDir, NoFile} \cup 1 .. Len(pcFiles)
    BY <1>1, <2>1 DEF PcTypes
  <2> HIDE DEF c
  <2> QED BY <1>1, <2>1, <2>2, <2>3, <2>4, <2>5, PcAnnouncedStays, PcFilesStay DEF PcTypes
<1>5. ASSUME NEW n \in Printers, NEW m \in Printers, RenameBlob(p, n, m) PROVE PcInv'
  <2>1. /\ UNCHANGED <<pcFiles, pcCall, pcHist>>
        /\ pcDir' = [pcDir EXCEPT ![m] = pcDir[n], ![n] = NoDir]
    BY <1>5 DEF RenameBlob
  <2>2. /\ DOMAIN pcDir' = Printers
        /\ \A k \in Printers : pcDir'[k] \in {NoDir, NoFile} \cup 1 .. Len(pcFiles)
    BY <1>1, <2>1 DEF PcTypes
  <2>3. PcCallTypes(PcIdle, Len(pcFiles)) /\ PcIdle.step = "idle"
    BY DEF PcIdle, PcCallTypes
  <2> QED BY <1>1, <2>1, <2>2, <2>3, PcAnnouncedStays, PcFilesStay DEF PcTypes
<1> QED BY <1>2, <1>3, <1>4, <1>5

(* The file is made, or emptied for the save. *)
LEMMA SaveOpenInv ==
    ASSUME PcInv, NEW p \in PcPrograms, SaveOpen(p)
    PROVE  PcInv'
<1>1. PcTypes /\ PcAnnounced
  BY DEF PcInv
<1>0. PICK n, i, b : /\ n = pcCall[p].printer /\ b = pcCall[p].blob
                     /\ i = IF HasFile(n) THEN pcDir[n] ELSE Len(pcFiles) + 1
  OBVIOUS
<1> DEFINE c == [step |-> "write", printer |-> n, file |-> i, blob |-> b]
<1>2. pcCall[p].step = "open" /\ n \in Printers /\ b \in DOMAIN PcBlobs
  BY <1>0, <1>1 DEF PcTypes, PcCallTypes, SaveOpen
<1>3. CASE pcDir[n] = NoDir
  <2>1. pcCall' = [pcCall EXCEPT ![p] = PcIdle] /\ UNCHANGED <<pcDir, pcFiles, pcHist>>
    BY <1>0, <1>3 DEF SaveOpen
  <2>2. PcCallTypes(PcIdle, Len(pcFiles)) /\ PcIdle.step = "idle"
    BY DEF PcIdle, PcCallTypes
  <2> QED BY <1>1, <2>1, <2>2, PcAnnouncedStays, PcFilesStay DEF PcTypes
<1>4. CASE pcDir[n] # NoDir
  <2>1. /\ pcDir' = [pcDir EXCEPT ![n] = i]
        /\ pcFiles' = IF HasFile(n) THEN [pcFiles EXCEPT ![i] = << >>] ELSE Append(pcFiles, << >>)
        /\ pcCall' = [pcCall EXCEPT ![p] = c]
        /\ pcHist' = [pcHist EXCEPT
                         !.mixed = IF WritersOf(i) = {} THEN @ \ {i} ELSE @ \cup {i},
                         !.short = @ \ {i}, !.overtaken = @ \cup ReadersOf(i)]
    BY <1>0, <1>4 DEF SaveOpen, OpenedBlob
  <2>2. Len(pcFiles) \in Nat /\ i \in 1 .. Len(pcFiles) + 1
        /\ (HasFile(n) => i \in 1 .. Len(pcFiles)) /\ (~HasFile(n) => i = Len(pcFiles) + 1)
    BY <1>0, <1>1, <1>2, <1>4 DEF PcTypes, HasFile
  <2>3. c.step = "write" /\ c.printer = n /\ c.file = i /\ c.blob = b
    OBVIOUS
  <2> HIDE DEF c
  <2>4. /\ pcFiles' \in Seq(Seq(DOMAIN PcBlobs)) /\ Len(pcFiles') \in {Len(pcFiles), Len(pcFiles) + 1}
        /\ i \in 1 .. Len(pcFiles') /\ pcFiles'[i] = << >>
        /\ \A j \in 1 .. Len(pcFiles') : j # i => j \in 1 .. Len(pcFiles) /\ pcFiles'[j] = pcFiles[j]
    <3>1. << >> \in Seq(DOMAIN PcBlobs) /\ pcFiles \in Seq(Seq(DOMAIN PcBlobs))
      BY <1>1 DEF PcTypes
    <3>2. CASE HasFile(n)
      BY <2>1, <2>2, <3>1, <3>2
    <3>3. CASE ~HasFile(n)
      BY <2>1, <2>2, <3>1, <3>3
    <3> QED BY <3>2, <3>3
  <2>5. /\ DOMAIN pcCall' = PcPrograms /\ pcCall'[p] = c
        /\ \A q \in PcPrograms : q # p => pcCall'[q] = pcCall[q]
    BY <1>1, <2>1 DEF PcTypes
  <2>6. /\ DOMAIN pcHist' = DOMAIN pcHist
        /\ UNCHANGED <<pcHist.saves, pcHist.crashes, pcHist.announced>>
        /\ pcHist'.short = pcHist.short \ {i}
        /\ pcHist'.overtaken = pcHist.overtaken \cup ReadersOf(i)
        /\ pcHist'.mixed = IF WritersOf(i) = {} THEN pcHist.mixed \ {i} ELSE pcHist.mixed \cup {i}
    BY <1>1, <2>1 DEF PcTypes
  <2>7. \A q \in PcPrograms : PcCallTypes(pcCall'[q], Len(pcFiles'))
    <3>1. \A j \in 1 .. Len(pcFiles) : j \in 1 .. Len(pcFiles')
      BY <2>2, <2>4
    <3>2. ASSUME NEW q \in PcPrograms, q # p PROVE PcCallTypes(pcCall'[q], Len(pcFiles'))
      BY <1>1, <2>5, <3>1, <3>2 DEF PcTypes, PcCallTypes
    <3>3. PcCallTypes(pcCall'[p], Len(pcFiles'))
      BY <1>2, <2>3, <2>4, <2>5 DEF PcCallTypes
    <3> QED BY <3>2, <3>3
  <2>8. PcTypes'
    <3>1. DOMAIN pcDir' = Printers /\ \A m \in Printers : pcDir'[m] = pcDir[m] \/ pcDir'[m] = i
      BY <1>1, <2>1 DEF PcTypes
    <3>2. \A m \in Printers : pcDir'[m] \in {NoDir, NoFile} \cup 1 .. Len(pcFiles')
      <4>1. \A j \in 1 .. Len(pcFiles) : j \in 1 .. Len(pcFiles')
        BY <2>2, <2>4
      <4> QED BY <1>1, <2>4, <3>1, <4>1 DEF PcTypes
    <3> QED BY <1>1, <2>4, <2>5, <2>6, <2>7, <3>1, <3>2 DEF PcTypes
  <2>9. /\ WritersOf(i)' = WritersOf(i) \cup {p} /\ ReadersOf(i)' \subseteq ReadersOf(i)
        /\ \A j : j # i => WritersOf(j)' = WritersOf(j) /\ ReadersOf(j)' = ReadersOf(j)
    BY <1>2, <2>3, <2>5 DEF WritersOf, ReadersOf
  <2>10. ASSUME NEW j \in 1 .. Len(pcFiles'), j \notin pcHist'.mixed PROVE PcFileInv(j)'
    <3>1. CASE j = i
      <4>1. WritersOf(i) = {} /\ i \notin pcHist'.short /\ ReadersOf(i)' \subseteq pcHist'.overtaken
        BY <2>6, <2>9, <2>10, <3>1
      <4> QED BY <2>4, <2>9, <3>1, <4>1 DEF PcFileInv, PcWhole
    <3>2. CASE j # i
      <4>1. /\ j \in 1 .. Len(pcFiles) /\ j \notin pcHist.mixed /\ pcFiles'[j] = pcFiles[j]
            /\ (j \in pcHist'.short <=> j \in pcHist.short)
        BY <2>4, <2>6, <2>10, <3>2
      <4>2. PcFileInv(j)
        BY <4>1 DEF PcInv
      <4>3. \A q \in ReadersOf(j) : pcCall'[q] = pcCall[q]
        BY <1>2, <2>5 DEF ReadersOf
      <4>4. pcHist.overtaken \subseteq pcHist'.overtaken
        BY <2>6
      <4> QED BY <2>9, <3>2, <4>1, <4>2, <4>3, <4>4 DEF PcFileInv, PcPart, PcWhole, BlobData
    <3> QED BY <3>1, <3>2
  <2> QED BY <1>1, <2>6, <2>8, <2>10, PcAnnouncedStays DEF PcInv
<1> QED BY <1>3, <1>4

(* The blob is written, or a part of it. *)
LEMMA SaveWriteInv ==
    ASSUME PcInv, NEW p \in PcPrograms, SaveWrite(p)
    PROVE  PcInv'
<1>1. PcTypes /\ PcAnnounced
  BY DEF PcInv
<1>0. PICK i, b, n : i = pcCall[p].file /\ b = pcCall[p].blob /\ n = pcCall[p].printer
  OBVIOUS
<1> DEFINE data == BlobData(b)
           bytes(k) == SubSeq(data, 1, k)
<1>2. /\ pcCall[p].step = "write" /\ i \in 1 .. Len(pcFiles) /\ b \in DOMAIN PcBlobs
      /\ n \in Printers /\ UNCHANGED pcDir
  BY <1>0, <1>1 DEF PcTypes, PcCallTypes, SaveWrite
<1>3. PICK k \in {Len(data), Len(data) - 1} :
          /\ pcFiles' = [pcFiles EXCEPT ![i] = Overwrite(@, bytes(k))]
          /\ pcCall' = [pcCall EXCEPT ![p] = IF k = Len(data) THEN PcIdle
                            ELSE [step |-> "unlink", printer |-> n]]
          /\ pcHist' = [pcHist EXCEPT !.short = IF k = Len(data) THEN @ ELSE @ \cup {i}]
  BY <1>0 DEF SaveWrite
<1>4. /\ Len(data) = PcBlobs[b] /\ PcBlobs[b] \in Nat \ {0}
      /\ bytes(k) \in Seq(DOMAIN PcBlobs)
      /\ k = Len(data) => bytes(k) = data
      /\ k # Len(data) => bytes(k) = SubSeq(data, 1, PcBlobs[b] - 1)
  BY <1>2, <1>3, BlobDataIs
<1> DEFINE c == IF k = Len(data) THEN PcIdle ELSE [step |-> "unlink", printer |-> n]
<1>5. c.step \in {"idle", "unlink"} /\ PcCallTypes(c, Len(pcFiles))
  BY <1>2 DEF PcIdle, PcCallTypes
<1> HIDE DEF c
<1>6. /\ DOMAIN pcCall' = PcPrograms /\ pcCall'[p] = c
      /\ \A q \in PcPrograms : q # p => pcCall'[q] = pcCall[q]
  BY <1>1, <1>3 DEF PcTypes, c
<1>7. /\ DOMAIN pcHist' = DOMAIN pcHist
      /\ UNCHANGED <<pcHist.saves, pcHist.crashes, pcHist.mixed, pcHist.overtaken, pcHist.announced>>
      /\ pcHist'.short = IF k = Len(data) THEN pcHist.short ELSE pcHist.short \cup {i}
  BY <1>1, <1>3 DEF PcTypes
<1>8. /\ pcFiles' \in Seq(Seq(DOMAIN PcBlobs)) /\ Len(pcFiles') = Len(pcFiles)
      /\ pcFiles'[i] = Overwrite(pcFiles[i], bytes(k))
      /\ \A j \in 1 .. Len(pcFiles) : j # i => pcFiles'[j] = pcFiles[j]
  <2> HIDE DEF bytes
  <2>1. pcFiles \in Seq(Seq(DOMAIN PcBlobs)) /\ pcFiles[i] \in Seq(DOMAIN PcBlobs)
    BY <1>1, <1>2 DEF PcTypes
  <2>2. Overwrite(pcFiles[i], bytes(k)) \in Seq(DOMAIN PcBlobs)
    BY <1>4, <2>1, OverwriteIs
  <2> QED BY <1>2, <1>3, <2>1, <2>2
<1>9. PcTypes'
  <2>1. \A q \in PcPrograms : PcCallTypes(pcCall'[q], Len(pcFiles'))
    BY <1>1, <1>5, <1>6, <1>8 DEF PcTypes, PcCallTypes
  <2> QED BY <1>1, <1>2, <1>6, <1>7, <1>8, <2>1 DEF PcTypes
<1>10. /\ WritersOf(i)' = WritersOf(i) \ {p} /\ p \in WritersOf(i)
       /\ \A j : ReadersOf(j)' = ReadersOf(j) /\ (j # i => WritersOf(j)' = WritersOf(j))
       /\ \A j : \A q \in ReadersOf(j) : pcCall'[q] = pcCall[q]
  BY <1>0, <1>2, <1>5, <1>6 DEF WritersOf, ReadersOf
<1>11. ASSUME NEW j \in 1 .. Len(pcFiles'), j \notin pcHist'.mixed PROVE PcFileInv(j)'
  <2>1. j \in 1 .. Len(pcFiles) /\ j \notin pcHist.mixed /\ PcFileInv(j)
    BY <1>7, <1>8, <1>11 DEF PcInv
  <2>2. CASE j = i
    <3>1. pcFiles[i] = << >> /\ i \notin pcHist.short /\ WritersOf(i)' = {}
      BY <1>10, <2>1, <2>2 DEF PcFileInv
    <3>2. pcFiles'[i] = bytes(k)
      <4> HIDE DEF bytes
      <4>1. << >> \in Seq(DOMAIN PcBlobs)
        OBVIOUS
      <4> QED BY <1>4, <1>8, <3>1, <4>1, OverwriteIs
    <3>3. IF i \in pcHist'.short THEN PcPart(pcFiles'[i]) ELSE PcWhole(pcFiles'[i])
      BY <1>2, <1>4, <1>7, <3>1, <3>2 DEF PcPart, PcWhole
    <3>4. \A q \in ReadersOf(i) \ pcHist.overtaken : pcCall[q].size = 0
      <4>1. Len(pcFiles[i]) = 0
        BY <3>1
      <4> QED BY <2>1, <2>2, <4>1 DEF PcFileInv
    <3>5. \A q \in ReadersOf(i)' \ pcHist'.overtaken : pcCall'[q].size = 0
      BY <1>7, <1>10, <3>4
    <3> QED BY <2>2, <3>1, <3>3, <3>5 DEF PcFileInv, PcPart, PcWhole, BlobData
  <2>3. CASE j # i
    <3>1. pcFiles'[j] = pcFiles[j] /\ (j \in pcHist'.short <=> j \in pcHist.short)
      BY <1>7, <1>8, <2>1, <2>3
    <3> QED BY <1>7, <1>10, <2>1, <2>3, <3>1 DEF PcFileInv, PcPart, PcWhole, BlobData
  <2> QED BY <2>2, <2>3
<1> QED BY <1>1, <1>7, <1>9, <1>11, PcAnnouncedStays DEF PcInv

(* A load learns the size of the file, and reads that much. *)
LEMMA LoadStatInv ==
    ASSUME PcInv, NEW p \in PcPrograms, NEW n \in Printers, LoadStat(p, n)
    PROVE  PcInv'
<1>1. PcTypes /\ PcAnnounced
  BY DEF PcInv
<1>2. UNCHANGED <<pcDir, pcFiles>> /\ pcCall[p] = PcIdle
  BY DEF LoadStat
<1>3. CASE ~HasFile(n)
  <2>1. UNCHANGED pcCall
        /\ pcHist' = [pcHist EXCEPT !.announced = [bytes |-> << >>, disturbed |-> FALSE]]
    BY <1>3 DEF LoadStat, Announces
  <2>2. /\ DOMAIN pcHist' = DOMAIN pcHist /\ pcHist'.announced.bytes = << >>
        /\ UNCHANGED <<pcHist.saves, pcHist.crashes, pcHist.mixed, pcHist.short, pcHist.overtaken>>
    BY <1>1, <2>1 DEF PcTypes
  <2>3. PcAnnounced'
    BY <2>2 DEF PcAnnounced, PcWhole
  <2>4. PcCallTypes(PcIdle, Len(pcFiles)) /\ PcIdle.step = "idle"
    BY DEF PcIdle, PcCallTypes
  <2> QED BY <1>1, <1>2, <2>1, <2>2, <2>3, <2>4, PcFilesStay DEF PcTypes
<1>4. CASE HasFile(n)
  <2> DEFINE i == pcDir[n]
             c == [step |-> "read", file |-> i, size |-> Len(pcFiles[i])]
  <2>1. pcCall' = [pcCall EXCEPT ![p] = c] /\ pcHist' = [pcHist EXCEPT !.overtaken = @ \ {p}]
    BY <1>4 DEF LoadStat
  <2>2. i \in 1 .. Len(pcFiles) /\ pcFiles[i] \in Seq(DOMAIN PcBlobs)
    BY <1>1, <1>4 DEF PcTypes, HasFile
  <2>3. c.step = "read" /\ c.file = i /\ c.size = Len(pcFiles[i]) /\ c.size \in Nat
    BY <2>2
  <2> HIDE DEF i, c
  <2>4. /\ DOMAIN pcCall' = PcPrograms /\ pcCall'[p] = c
        /\ \A q \in PcPrograms : q # p => pcCall'[q] = pcCall[q]
    BY <1>1, <2>1 DEF PcTypes
  <2>5. /\ DOMAIN pcHist' = DOMAIN pcHist /\ pcHist'.overtaken = pcHist.overtaken \ {p}
        /\ UNCHANGED <<pcHist.saves, pcHist.crashes, pcHist.mixed, pcHist.short, pcHist.announced>>
    BY <1>1, <2>1 DEF PcTypes
  <2>6. PcTypes'
    <3>1. \A q \in PcPrograms : PcCallTypes(pcCall'[q], Len(pcFiles'))
      BY <1>1, <1>2, <2>2, <2>3, <2>4 DEF PcTypes, PcCallTypes
    <3> QED BY <1>1, <1>2, <2>4, <2>5, <3>1 DEF PcTypes
  <2>7. pcCall[p].step = "idle"
    BY <1>2 DEF PcIdle
  <2>8. \A j : /\ WritersOf(j)' = WritersOf(j)
               /\ \A q \in ReadersOf(j)' : \/ q = p /\ j = i
                                           \/ q # p /\ q \in ReadersOf(j) /\ pcCall'[q] = pcCall[q]
    BY <2>3, <2>4, <2>7 DEF WritersOf, ReadersOf
  <2>9. ASSUME NEW j \in 1 .. Len(pcFiles'), j \notin pcHist'.mixed PROVE PcFileInv(j)'
    <3>1. PcFileInv(j)
      BY <1>2, <2>5, <2>9 DEF PcInv
    <3>2. \A q \in ReadersOf(j)' \ pcHist'.overtaken : pcCall'[q].size \in {0, Len(pcFiles[j])}
      BY <2>3, <2>4, <2>5, <2>8, <3>1 DEF PcFileInv
    <3> QED BY <1>2, <2>5, <2>8, <3>1, <3>2 DEF PcFileInv, PcPart, PcWhole, BlobData
  <2> QED BY <1>1, <2>5, <2>6, <2>9, PcAnnouncedStays DEF PcInv
<1> QED BY <1>3, <1>4

LEMMA LoadReadInv ==
    ASSUME PcInv, NEW p \in PcPrograms, LoadRead(p)
    PROVE  PcInv'
<1>1. PcTypes /\ PcAnnounced
  BY DEF PcInv
<1> DEFINE i == pcCall[p].file
           size == pcCall[p].size
           bytes == FirstBytes(pcFiles[i], size)
           disturbed == i \in pcHist.mixed \cup pcHist.short \/ p \in pcHist.overtaken
<1>2. /\ pcCall[p].step = "read" /\ UNCHANGED <<pcDir, pcFiles>>
      /\ pcCall' = [pcCall EXCEPT ![p] = PcIdle]
      /\ pcHist' = [pcHist EXCEPT !.announced = [bytes |-> bytes, disturbed |-> disturbed]]
  BY DEF LoadRead, Announces
<1>3. i \in 1 .. Len(pcFiles) /\ pcFiles[i] \in Seq(DOMAIN PcBlobs)
  BY <1>1, <1>2 DEF PcTypes, PcCallTypes
<1>4. disturbed \/ PcWhole(bytes)
  <2> SUFFICES ASSUME ~disturbed PROVE PcWhole(bytes)
    OBVIOUS
  <2>1. PcFileInv(i) /\ p \in ReadersOf(i) \ pcHist.overtaken
    BY <1>2, <1>3 DEF PcInv, ReadersOf
  <2>2. PcWhole(pcFiles[i]) /\ size \in {0, Len(pcFiles[i])}
    BY <2>1 DEF PcFileInv
  <2> HIDE DEF i, size
  <2>3. bytes = << >> \/ bytes = pcFiles[i]
    <3>1. CASE size < Len(pcFiles[i])
      <4>1. size = 0
        BY <1>3, <2>2, <3>1
      <4>2. SubSeq(pcFiles[i], 1, 0) = << >>
        BY <1>3, SubSeqEmpty
      <4> QED BY <3>1, <4>1, <4>2 DEF FirstBytes
    <3> QED BY <3>1 DEF FirstBytes
  <2> QED BY <2>2, <2>3 DEF PcWhole
<1> HIDE DEF i, size, bytes, disturbed
<1>5. /\ DOMAIN pcHist' = DOMAIN pcHist
      /\ pcHist'.announced.bytes = bytes /\ pcHist'.announced.disturbed = disturbed
      /\ UNCHANGED <<pcHist.saves, pcHist.crashes, pcHist.mixed, pcHist.short, pcHist.overtaken>>
  BY <1>1, <1>2 DEF PcTypes
<1>6. PcAnnounced'
  BY <1>4, <1>5 DEF PcAnnounced, PcWhole, BlobData
<1>7. PcCallTypes(PcIdle, Len(pcFiles)) /\ PcIdle.step = "idle"
  BY DEF PcIdle, PcCallTypes
<1> QED BY <1>1, <1>2, <1>5, <1>6, <1>7, PcFilesStay DEF PcTypes

(* Every step of printercache.c, or of a process that ends, keeps the invariant. *)
LEMMA PcStep == PcInv /\ [PcNext]_pcacheVars => PcInv'
<1> SUFFICES ASSUME PcInv, [PcNext]_pcacheVars PROVE PcInv'
  OBVIOUS
<1>1. CASE PcNext
  <2>1. PICK p \in PcPrograms :
            \/ SaveOpen(p) \/ SaveWrite(p) \/ SaveUnlink(p) \/ RemoveDir(p) \/ LoadRead(p) \/ PcCrash(p)
            \/ \E n \in Printers :
                   \/ UnlinkBlob(p, n) \/ LoadStat(p, n)
                   \/ \E b \in DOMAIN PcBlobs : SaveBlob(p, n, b)
                   \/ \E m \in Printers : RenameBlob(p, n, m)
    BY <1>1 DEF PcNext
  <2> QED BY <2>1, SaveOpenInv, SaveWriteInv, PcQuietInv, LoadStatInv, LoadReadInv
<1>2. CASE UNCHANGED pcacheVars
  BY <1>2 DEF pcacheVars, PcInv, PcTypes, PcCallTypes, PcAnnounced, PcFileInv, PcWhole, PcPart,
              WritersOf, ReadersOf
<1> QED BY <1>1, <1>2

-----------------------------------------------------------------------------
(* The table of device requests (rdpdr.c) *)

(* A sequence of whatever is in it. *)
IsSeq(s) == s \in Seq({s[i] : i \in 1 .. Len(s)})

(* A sequence is one over any set that has its elements. *)
LEMMA SeqOver ==
    ASSUME NEW S, NEW T, NEW s \in Seq(S), \A i \in 1 .. Len(s) : s[i] \in T
    PROVE  s \in Seq(T)
BY SeqDef

(* A sequence over any set is a sequence. *)
LEMMA IsSeqOf ==
    ASSUME NEW S, NEW s \in Seq(S)
    PROVE  IsSeq(s) /\ Len(s) \in Nat
<1>1. \A i \in 1 .. Len(s) : s[i] \in {s[j] : j \in 1 .. Len(s)}
  OBVIOUS
<1>2. Len(s) \in Nat
  OBVIOUS
<1> QED BY <1>1, <1>2, SeqOver DEF IsSeq

(* An element is appended ... *)
LEMMA IsSeqAppend ==
    ASSUME NEW s, IsSeq(s), NEW r
    PROVE  /\ IsSeq(Append(s, r)) /\ Len(Append(s, r)) = Len(s) + 1 /\ Len(s) \in Nat
           /\ Append(s, r)[Len(s) + 1] = r
           /\ \A i \in 1 .. Len(s) : Append(s, r)[i] = s[i]
<1> DEFINE S == {s[i] : i \in 1 .. Len(s)}
<1>1. s \in Seq(S)
  BY DEF IsSeq
<1>2. s \in Seq(S \cup {r})
  <2>1. \A i \in 1 .. Len(s) : s[i] \in S \cup {r}
    OBVIOUS
  <2> QED BY <1>1, <2>1, SeqOver
<1> DEFINE U == S \cup {r}
<1>3. s \in Seq(U) /\ r \in U
  BY <1>2
<1> HIDE DEF U, S
<1>4. /\ Append(s, r) \in Seq(U) /\ Len(Append(s, r)) = Len(s) + 1 /\ Len(s) \in Nat
      /\ Append(s, r)[Len(s) + 1] = r
      /\ \A i \in 1 .. Len(s) : Append(s, r)[i] = s[i]
  BY <1>3
<1> QED BY <1>4, IsSeqOf

(* ... taken out ... *)
LEMMA IsSeqRemove ==
    ASSUME NEW s, IsSeq(s), NEW i \in 1 .. Len(s)
    PROVE  /\ IsSeq(RemoveAt(s, i)) /\ Len(RemoveAt(s, i)) = Len(s) - 1 /\ Len(s) \in Nat
           /\ \A j \in 1 .. Len(s) - 1 :
                  RemoveAt(s, i)[j] = IF j < i THEN s[j] ELSE s[j + 1]
<1> DEFINE S == {s[j] : j \in 1 .. Len(s)}
<1>1. s \in Seq(S)
  BY DEF IsSeq
<1> HIDE DEF S
<1>2. /\ RemoveAt(s, i) \in Seq(S) /\ Len(RemoveAt(s, i)) = Len(s) - 1
      /\ \A j \in 1 .. Len(s) - 1 :
             RemoveAt(s, i)[j] = IF j < i THEN s[j] ELSE s[j + 1]
  BY <1>1, RemoveAtIs
<1>3. Len(s) \in Nat
  BY <1>1
<1> QED BY <1>2, <1>3, IsSeqOf

(* ... or replaced. *)
Replaces(u, s, i, r) == u = [s EXCEPT ![i] = r]

LEMMA IsSeqReplaced ==
    ASSUME NEW s, IsSeq(s), NEW i \in 1 .. Len(s), NEW r, NEW u, Replaces(u, s, i, r)
    PROVE  /\ IsSeq(u) /\ Len(u) = Len(s) /\ u[i] = r
           /\ \A j \in 1 .. Len(s) \ {i} : u[j] = s[j]
<1> DEFINE S == {s[j] : j \in 1 .. Len(s)}
           U == S \cup {r}
<1>1. s \in Seq(U) /\ r \in U
  <2>1. \A j \in 1 .. Len(s) : s[j] \in U
    OBVIOUS
  <2> QED BY <2>1, SeqOver DEF IsSeq
<1> HIDE DEF U
<1>2. /\ u \in Seq(U) /\ Len(u) = Len(s)
      /\ u[i] = r /\ \A j \in 1 .. Len(s) \ {i} : u[j] = s[j]
  BY <1>1 DEF Replaces
<1>3. IsSeq(u)
  BY <1>2, IsSeqOf
<1> QED BY <1>2, <1>3

DrFields == {"fd", "handle", "info", "list", "answers", "issued", "opens", "epoch", "inq",
             "mask", "stamp", "crashed", "crowded", "late", "torn"}
ReqFields == {"id", "dev", "fd", "major", "length", "partial", "offset", "timeout", "itv", "file"}

OnePort == \A p, q \in SerialPorts : p = q

DrTypes(t) ==
    /\ DOMAIN t = DrFields
    /\ t.handle \in [Ports -> Fds \cup {0}] /\ t.answers \in [DrIds -> Nat]
    /\ DOMAIN t.fd = Fds
    /\ \A h \in Fds : /\ DOMAIN t.fd[h] = {"dev", "file", "pos", "epoch"}
                      /\ t.fd[h].file \in 0 .. t.opens
                      /\ t.fd[h].dev # "none" => t.fd[h].file # 0
    /\ DOMAIN t.inq = SerialPorts /\ \A p \in SerialPorts : t.inq[p] \in Nat
    /\ DOMAIN t.mask = SerialPorts /\ DOMAIN t.info = Fds
    /\ t.issued \in 0 .. MaxRequests /\ t.opens \in Nat /\ t.epoch \in 1 .. MaxAnnounces + 1

(* The descriptor of a request still stands for the file it was made on.     *)
OwnsFile(t, r) ==
    \/ t.fd[r.fd].file = r.file /\ t.fd[r.fd].dev = r.dev
    \/ r.dev = "parallel"
    \/ r.file \in t.crowded

IsRequest(t, r) ==
    /\ DOMAIN r = ReqFields
    /\ r.id \in 1 .. t.issued /\ r.fd \in Fds /\ r.file \in 1 .. t.opens
    /\ r.partial \in 0 .. Word - 1
    /\ r.major \in DrMajors /\ r.dev \in Redirected \ {"printer"}
    /\ r.major = "control" => r.dev \in SerialPorts
    /\ OwnsFile(t, r)

(* Requests in the table have numbers of their own; the others are answered. *)
(* A port has one request that waits for an event.                           *)
DrListed(t) ==
    /\ IsSeq(t.list)
    /\ \A i \in 1 .. Len(t.list) : IsRequest(t, t.list[i])
    /\ \A i, j \in 1 .. Len(t.list) : t.list[i].id = t.list[j].id => i = j
    /\ \A id \in DrIds : t.answers[id] = IF id <= t.issued
                                            /\ \A i \in 1 .. Len(t.list) : t.list[i].id # id
                                         THEN 1 ELSE 0
    /\ \A i, j \in Listed(t, "control") : t.list[i].dev = t.list[j].dev => i = j

DrGood(t) == DrTypes(t) /\ DrListed(t) /\ ~t.torn /\ (OnePort => ~t.late)

(* The table gives every promise of RequestsAnswered. *)
LEMMA DrGoodGives == DrGood(dr) => RequestsAnswered
<1> SUFFICES ASSUME DrGood(dr) PROVE RequestsAnswered
  OBVIOUS
<1>1. DrTypes(dr) /\ DrListed(dr) /\ PiecesInOrder /\ EventsBeforeReads
  BY DEF DrGood, PiecesInOrder, EventsBeforeReads, OnePort
<1>2. RdpdrTypeOK
  BY <1>1 DEF RdpdrTypeOK, DrTypes, DrListed, IsRequest
<1>3. AnsweredOnce
  <2> SUFFICES ASSUME NEW id \in DrIds
               PROVE  Cardinality({i \in 1 .. Len(dr.list) : dr.list[i].id = id}) + dr.answers[id]
                          = IF id <= dr.issued THEN 1 ELSE 0
    BY DEF AnsweredOnce
  <2> DEFINE T == {i \in 1 .. Len(dr.list) : dr.list[i].id = id}
  <2>1. dr.answers[id] = IF id <= dr.issued /\ \A i \in 1 .. Len(dr.list) : dr.list[i].id # id
                         THEN 1 ELSE 0
    BY <1>1 DEF DrListed
  <2>2. ASSUME T = {} PROVE Cardinality(T) + dr.answers[id] = IF id <= dr.issued THEN 1 ELSE 0
    <3>1. Cardinality(T) = 0
      BY <2>2, FS_EmptySet
    <3>2. \A i \in 1 .. Len(dr.list) : dr.list[i].id # id
      BY <2>2
    <3> HIDE DEF T
    <3> QED BY <2>1, <3>1, <3>2
  <2>3. ASSUME NEW i \in T PROVE Cardinality(T) = 1 /\ id <= dr.issued
    <3>1. T = {i}
      BY <1>1, <2>3 DEF DrListed
    <3>2. Cardinality(T) = 1
      BY <3>1, FS_Singleton
    <3>3. id <= dr.issued
      BY <1>1, <2>3 DEF DrListed, IsRequest, DrTypes
    <3> QED BY <3>2, <3>3
  <2>4. ASSUME T # {} PROVE Cardinality(T) + dr.answers[id] = IF id <= dr.issued THEN 1 ELSE 0
    <3>1. PICK i \in T : TRUE
      BY <2>4
    <3>2. dr.answers[id] = 0
      BY <2>1, <3>1
    <3>3. Cardinality(T) = 1 /\ id <= dr.issued
      BY <2>3, <3>1
    <3> HIDE DEF T
    <3> QED BY <3>2, <3>3
  <2> QED BY <2>2, <2>4
<1>4. RequestsOwnTheirFile
  BY <1>1 DEF RequestsOwnTheirFile, DrListed, IsRequest, OwnsFile
<1> QED BY <1>1, <1>2, <1>3, <1>4 DEF RequestsAnswered

(* No request was made at the start. *)
LEMMA DrInitGood == RdpdrInit => DrGood(dr)
<1> SUFFICES ASSUME RdpdrInit PROVE DrGood(dr)
  OBVIOUS
<1>1. DrTypes(dr)
  BY RdpdrConstants DEF RdpdrInit, DrTypes, DrFields, ClosedFd
<1>2. dr.list = << >> /\ dr.issued = 0 /\ dr.answers = [id \in DrIds |-> 0]
      /\ dr.torn = FALSE /\ dr.late = FALSE
  BY DEF RdpdrInit
<1>3. Len(dr.list) = 0 /\ IsSeq(dr.list)
  <2>1. << >> \in Seq({})
    OBVIOUS
  <2> QED BY <1>2, <2>1, IsSeqOf
<1>4. \A id \in DrIds : ~(id <= dr.issued)
  BY <1>2, RdpdrConstants DEF DrIds
<1>5. DrListed(dr)
  BY <1>2, <1>3, <1>4 DEF DrListed, Listed
<1> QED BY <1>1, <1>2, <1>5 DEF DrGood

(* u differs from t in the fields F at most.                                 *)
Agree(t, u, F) == DOMAIN u = DrFields /\ \A f \in DrFields \ F : u[f] = t[f]

(* The answer to request i, which leaves the table.                          *)
AnswerAt(t, i) == RemoveIorequest(SendCompletion(t, t.list[i].id), i)

(* It is answered once, and the others stay in their order.                  *)
LEMMA AnswerIs ==
    ASSUME NEW t, DrGood(t), NEW i \in 1 .. Len(t.list)
    PROVE  /\ DrGood(AnswerAt(t, i)) /\ Agree(t, AnswerAt(t, i), {"list", "answers"})
           /\ Len(AnswerAt(t, i).list) = Len(t.list) - 1 /\ Len(t.list) \in Nat
           /\ \A j \in 1 .. Len(t.list) - 1 :
                  AnswerAt(t, i).list[j] = t.list[IF j < i THEN j ELSE j + 1]
<1> DEFINE u == AnswerAt(t, i)
           id == t.list[i].id
<1>1. DrTypes(t) /\ DrListed(t) /\ id \in 1 .. t.issued /\ t.issued \in 0 .. MaxRequests
  BY DEF DrGood, DrListed, IsRequest, DrTypes
<1>2. id \in DrIds
  BY <1>1, RdpdrConstants DEF DrIds
<1>3. /\ Agree(t, u, {"list", "answers"})
      /\ u.list = RemoveAt(t.list, i) /\ u.answers = [t.answers EXCEPT ![id] = @ + 1]
  BY <1>1 DEF AnswerAt, RemoveIorequest, SendCompletion, Agree, DrTypes, DrFields
<1> HIDE DEF u
<1>4. /\ u.fd = t.fd /\ u.handle = t.handle /\ u.info = t.info /\ u.issued = t.issued
      /\ u.opens = t.opens /\ u.epoch = t.epoch /\ u.inq = t.inq /\ u.mask = t.mask
      /\ u.crowded = t.crowded /\ u.late = t.late /\ u.torn = t.torn /\ DOMAIN u = DrFields
  BY <1>3 DEF Agree, DrFields
<1>5. /\ IsSeq(u.list) /\ Len(u.list) = Len(t.list) - 1 /\ Len(t.list) \in Nat
      /\ \A j \in 1 .. Len(t.list) - 1 :
             u.list[j] = IF j < i THEN t.list[j] ELSE t.list[j + 1]
  <2>1. IsSeq(t.list)
    BY <1>1 DEF DrListed
  <2> DEFINE l == t.list
             v == RemoveAt(l, i)
  <2>2. IsSeq(l) /\ i \in 1 .. Len(l)
    BY <2>1
  <2> HIDE DEF l
  <2>3. /\ IsSeq(v) /\ Len(v) = Len(l) - 1 /\ Len(l) \in Nat
        /\ \A j \in 1 .. Len(l) - 1 : v[j] = IF j < i THEN l[j] ELSE l[j + 1]
    BY <2>2, IsSeqRemove
  <2>4. u.list = v
    BY <1>3 DEF l
  <2> HIDE DEF v
  <2> QED BY <2>3, <2>4 DEF l
<1>6. u.answers \in [DrIds -> Nat]
  BY <1>1, <1>2, <1>3 DEF DrTypes
<1>7. DrTypes(u)
  BY <1>1, <1>4, <1>6 DEF DrTypes
<1> DEFINE at(j) == IF j < i THEN j ELSE j + 1
<1>8. \A j \in 1 .. Len(u.list) :
          at(j) \in 1 .. Len(t.list) \ {i} /\ u.list[j] = t.list[at(j)]
  BY <1>5
<1>9. \A j, k \in 1 .. Len(u.list) : at(j) = at(k) => j = k
  BY <1>5
<1>10. \A k \in 1 .. Len(t.list) \ {i} : \E j \in 1 .. Len(u.list) : at(j) = k
  <2> SUFFICES ASSUME NEW k \in 1 .. Len(t.list) \ {i} PROVE \E j \in 1 .. Len(u.list) : at(j) = k
    OBVIOUS
  <2>1. CASE k < i
    BY <1>5, <2>1
  <2>2. CASE ~(k < i)
    <3>1. k - 1 \in 1 .. Len(u.list) /\ at(k - 1) = k
      BY <1>5, <2>2
    <3> QED BY <3>1
  <2> QED BY <2>1, <2>2
<1> HIDE DEF at
<1>11. \A r : IsRequest(t, r) => IsRequest(u, r)
  BY <1>4 DEF IsRequest, OwnsFile
<1>12. \A j \in 1 .. Len(u.list) : IsRequest(u, u.list[j])
  <2> SUFFICES ASSUME NEW j \in 1 .. Len(u.list) PROVE IsRequest(u, u.list[j])
    OBVIOUS
  <2>1. at(j) \in 1 .. Len(t.list) /\ u.list[j] = t.list[at(j)]
    BY <1>8
  <2>2. IsRequest(t, t.list[at(j)])
    BY <1>1, <2>1, Zenon DEF DrListed
  <2> QED BY <1>11, <2>1, <2>2, Zenon
<1>13. ASSUME NEW j \in 1 .. Len(u.list), NEW k \in 1 .. Len(u.list),
              u.list[j].id = u.list[k].id
       PROVE  j = k
  <2>1. /\ at(j) \in 1 .. Len(t.list) /\ u.list[j] = t.list[at(j)]
        /\ at(k) \in 1 .. Len(t.list) /\ u.list[k] = t.list[at(k)]
    BY <1>8
  <2>2. at(j) = at(k)
    BY <1>1, <1>13, <2>1 DEF DrListed
  <2> QED BY <1>9, <2>2
<1>14. ASSUME NEW j \in Listed(u, "control"), NEW k \in Listed(u, "control"),
              u.list[j].dev = u.list[k].dev
       PROVE  j = k
  <2>1. /\ at(j) \in 1 .. Len(t.list) /\ u.list[j] = t.list[at(j)]
        /\ at(k) \in 1 .. Len(t.list) /\ u.list[k] = t.list[at(k)]
        /\ j \in 1 .. Len(u.list) /\ k \in 1 .. Len(u.list)
        /\ u.list[j].major = "control" /\ u.list[k].major = "control"
    BY <1>8, <1>14 DEF Listed
  <2>2. at(j) \in Listed(t, "control") /\ at(k) \in Listed(t, "control")
    BY <2>1 DEF Listed
  <2>3. at(j) = at(k)
    BY <1>1, <1>14, <2>1, <2>2 DEF DrListed
  <2> QED BY <1>9, <2>1, <2>3
<1>15. ASSUME NEW x \in DrIds
       PROVE  u.answers[x] = IF x <= u.issued /\ \A j \in 1 .. Len(u.list) : u.list[j].id # x
                             THEN 1 ELSE 0
  <2>1. t.answers[x] = IF x <= t.issued /\ \A j \in 1 .. Len(t.list) : t.list[j].id # x
                       THEN 1 ELSE 0
    BY <1>1 DEF DrListed
  <2>2. CASE x = id
    <3>1. t.answers[x] = 0 /\ x <= t.issued
      BY <1>1, <2>1, <2>2
    <3>2. \A j \in 1 .. Len(u.list) : u.list[j].id # x
      BY <1>1, <1>8, <2>2 DEF DrListed
    <3>3. u.answers[x] = 1
      BY <1>1, <1>2, <1>3, <2>2, <3>1 DEF DrTypes
    <3> QED BY <1>4, <3>1, <3>2, <3>3
  <2>3. CASE x # id
    <3>1. u.answers[x] = t.answers[x]
      BY <1>1, <1>2, <1>3, <2>3 DEF DrTypes
    <3>2. (\A j \in 1 .. Len(u.list) : u.list[j].id # x)
             <=> \A k \in 1 .. Len(t.list) : t.list[k].id # x
      <4>1. ASSUME NEW k \in 1 .. Len(t.list), t.list[k].id = x
            PROVE  \E j \in 1 .. Len(u.list) : u.list[j].id = x
        <5>1. k \in 1 .. Len(t.list) \ {i}
          BY <2>3, <4>1
        <5>2. PICK j \in 1 .. Len(u.list) : at(j) = k
          BY <1>10, <5>1
        <5> QED BY <1>8, <4>1, <5>2
      <4> QED BY <1>8, <4>1
    <3> QED BY <1>4, <2>1, <3>1, <3>2
  <2> QED BY <2>2, <2>3
<1>16. DrGood(u)
  BY <1>4, <1>5, <1>7, <1>12, <1>13, <1>14, <1>15 DEF DrGood, DrListed
<1>17. \A j \in 1 .. Len(t.list) - 1 : u.list[j] = t.list[IF j < i THEN j ELSE j + 1]
  BY <1>5
<1> QED BY <1>3, <1>5, <1>16, <1>17 DEF u

(* A step that leaves the requests and whose they are.                       *)
LEMMA KeepsRequests ==
    ASSUME NEW t, DrGood(t), NEW u, DrTypes(u),
           u.list = t.list, u.answers = t.answers, u.issued = t.issued, t.opens <= u.opens,
           u.torn = t.torn, u.late = t.late,
           \A i \in 1 .. Len(t.list) : OwnsFile(t, t.list[i]) => OwnsFile(u, t.list[i])
    PROVE  DrGood(u)
<1>1. DrTypes(t) /\ DrListed(t)
  BY DEF DrGood
<1>2. t.opens \in Nat /\ u.opens \in Nat
  BY <1>1 DEF DrTypes
<1>3. \A i \in 1 .. Len(t.list) : IsRequest(u, t.list[i])
  BY <1>1, <1>2 DEF DrListed, IsRequest
<1>4. DrListed(u)
  BY <1>1, <1>3 DEF DrListed, Listed
<1> QED BY <1>4 DEF DrGood

(* A step that leaves the requests and the descriptors. *)
LEMMA KeepsRest ==
    ASSUME NEW t, DrGood(t), NEW u, DrTypes(u),
           Agree(t, u, {"stamp", "mask", "inq", "info", "handle", "epoch", "crashed"})
    PROVE  DrGood(u)
<1>1. /\ u.list = t.list /\ u.answers = t.answers /\ u.issued = t.issued /\ u.opens = t.opens
      /\ u.torn = t.torn /\ u.late = t.late /\ u.fd = t.fd /\ u.crowded = t.crowded
  BY DEF Agree, DrFields
<1>2. t.opens \in Nat /\ t.opens <= u.opens
  BY <1>1 DEF DrGood, DrTypes
<1> QED BY <1>1, <1>2, KeepsRequests DEF OwnsFile

(* A request that is answered at once.                                       *)
LEMMA AnsweredIs ==
    ASSUME NEW t, DrGood(t), t.issued < MaxRequests
    PROVE  DrGood(Answered(t))
<1> DEFINE u == Answered(t)
           id == t.issued + 1
<1>1. DrTypes(t) /\ DrListed(t) /\ t.issued \in 0 .. MaxRequests /\ DOMAIN t = DrFields
  BY DEF DrGood, DrTypes
<1>2. id \in DrIds
  BY <1>1, RdpdrConstants DEF DrIds
<1>3. /\ Agree(t, u, {"issued", "answers"})
      /\ u.issued = id /\ u.answers = [t.answers EXCEPT ![id] = @ + 1]
  BY <1>1 DEF Answered, SendCompletion, Agree, DrTypes, DrFields
<1> HIDE DEF u
<1>4. /\ u.fd = t.fd /\ u.handle = t.handle /\ u.info = t.info /\ u.list = t.list
      /\ u.opens = t.opens /\ u.epoch = t.epoch /\ u.inq = t.inq /\ u.mask = t.mask
      /\ u.crowded = t.crowded /\ u.late = t.late /\ u.torn = t.torn /\ DOMAIN u = DrFields
  BY <1>3 DEF Agree, DrFields
<1>5. u.answers \in [DrIds -> Nat]
  BY <1>1, <1>2, <1>3 DEF DrTypes
<1>6. u.issued \in 0 .. MaxRequests
  BY <1>1, <1>3, RdpdrConstants
<1>7. DrTypes(u)
  BY <1>1, <1>4, <1>5, <1>6 DEF DrTypes
<1>8. ASSUME NEW i \in 1 .. Len(u.list) PROVE IsRequest(u, u.list[i]) /\ u.list[i].id # id
  <2>1. IsRequest(t, u.list[i])
    BY <1>1, <1>4 DEF DrListed
  <2> QED BY <1>1, <1>3, <1>4, <2>1 DEF IsRequest, OwnsFile
<1>9. ASSUME NEW x \in DrIds
      PROVE  u.answers[x] = IF x <= u.issued /\ \A j \in 1 .. Len(u.list) : u.list[j].id # x
                            THEN 1 ELSE 0
  <2>1. t.answers[x] = IF x <= t.issued /\ \A j \in 1 .. Len(t.list) : t.list[j].id # x
                       THEN 1 ELSE 0
    BY <1>1 DEF DrListed
  <2>2. CASE x = id
    <3>1. ~(x <= t.issued)
      BY <1>1, <2>2
    <3>2. t.answers[x] = 0
      BY <2>1, <3>1
    <3>3. u.answers[x] = 1
      BY <1>1, <1>2, <1>3, <2>2, <3>2 DEF DrTypes
    <3>4. x <= u.issued
      BY <1>1, <1>3, <2>2
    <3> QED BY <1>8, <2>2, <3>3, <3>4
  <2>3. CASE x # id
    <3>1. u.answers[x] = t.answers[x]
      BY <1>1, <1>2, <1>3, <2>3 DEF DrTypes
    <3>2. x <= u.issued <=> x <= t.issued
      BY <1>1, <1>3, <2>3 DEF DrIds
    <3> QED BY <1>4, <2>1, <3>1, <3>2
  <2> QED BY <2>2, <2>3
<1>10. DrListed(u)
  BY <1>1, <1>4, <1>8, <1>9 DEF DrListed, Listed
<1> QED BY <1>4, <1>7, <1>10 DEF u, DrGood

(* A request that is put at the end of the table.                            *)
LEMMA PendingIs ==
    ASSUME NEW t, DrGood(t), t.issued < MaxRequests, NEW d \in Redirected \ {"printer"},
           NEW h \in Fds, t.fd[h].dev = d, NEW major \in DrMajors,
           major = "control" => /\ d \in SerialPorts
                                /\ \A i \in Listed(t, "control") : t.list[i].dev # d,
           NEW length, NEW offset, NEW timeouts
    PROVE  DrGood(Pending(t, d, h, major, length, offset, timeouts))
<1> DEFINE u == Pending(t, d, h, major, length, offset, timeouts)
           r == [id |-> t.issued + 1, dev |-> d, fd |-> h, major |-> major, length |-> length,
                 partial |-> 0, offset |-> offset, timeout |-> timeouts[1], itv |-> timeouts[2],
                 file |-> t.fd[h].file]
           n == Len(t.list)
<1>1. DrTypes(t) /\ DrListed(t) /\ t.issued \in 0 .. MaxRequests /\ DOMAIN t = DrFields
  BY DEF DrGood, DrTypes
<1>2. Agree(t, u, {"issued", "list"}) /\ u.issued = t.issued + 1 /\ u.list = Append(t.list, r)
  BY <1>1 DEF Pending, AddAsyncIorequest, Agree, DrFields
<1>3. /\ DOMAIN r = ReqFields /\ r.id = t.issued + 1 /\ r.dev = d /\ r.fd = h /\ r.major = major
      /\ r.partial = 0 /\ r.file = t.fd[h].file
  BY DEF ReqFields
<1> HIDE DEF u, r
<1>4. /\ u.fd = t.fd /\ u.handle = t.handle /\ u.info = t.info /\ u.answers = t.answers
      /\ u.opens = t.opens /\ u.epoch = t.epoch /\ u.inq = t.inq /\ u.mask = t.mask
      /\ u.crowded = t.crowded /\ u.late = t.late /\ u.torn = t.torn /\ DOMAIN u = DrFields
  BY <1>2 DEF Agree, DrFields
<1>5. /\ IsSeq(u.list) /\ Len(u.list) = n + 1 /\ n \in Nat /\ u.list[n + 1] = r
      /\ \A i \in 1 .. n : u.list[i] = t.list[i]
  <2>1. IsSeq(t.list)
    BY <1>1 DEF DrListed
  <2> QED BY <1>2, <2>1, IsSeqAppend
<1>6. DrTypes(u)
  <2>1. u.issued \in 0 .. MaxRequests
    BY <1>1, <1>2, RdpdrConstants
  <2> QED BY <1>1, <1>4, <2>1 DEF DrTypes
<1>7. \A i \in 1 .. n : IsRequest(u, t.list[i]) /\ t.list[i].id # r.id
  <2> SUFFICES ASSUME NEW i \in 1 .. n PROVE IsRequest(u, t.list[i]) /\ t.list[i].id # r.id
    OBVIOUS
  <2>1. IsRequest(t, t.list[i])
    BY <1>1, Zenon DEF DrListed
  <2>2. t.list[i].id \in 1 .. t.issued /\ t.issued \in Nat
    BY <1>1, <2>1 DEF IsRequest
  <2>3. t.list[i].id # r.id /\ t.list[i].id \in 1 .. u.issued
    BY <1>2, <1>3, <2>2
  <2>4. OwnsFile(u, t.list[i])
    BY <1>4, <2>1, Zenon DEF IsRequest, OwnsFile
  <2> QED BY <1>4, <2>1, <2>3, <2>4, Zenon DEF IsRequest
<1>8. IsRequest(u, r)
  <2>1. d # "none"
    BY RdpdrConstants DEF Redirected, Ports
  <2>2. t.fd[h].file \in 1 .. t.opens
    BY <1>1, <2>1 DEF DrTypes
  <2>3. 0 \in 0 .. Word - 1
    BY RdpdrConstants
  <2> QED BY <1>1, <1>2, <1>3, <1>4, <2>2, <2>3 DEF IsRequest, OwnsFile
<1>9. \A i \in 1 .. Len(u.list) : IsRequest(u, u.list[i])
  BY <1>5, <1>7, <1>8
<1>10. \A i, j \in 1 .. Len(u.list) : u.list[i].id = u.list[j].id => i = j
  <2>1. \A i, j \in 1 .. n : t.list[i].id = t.list[j].id => i = j
    BY <1>1 DEF DrListed
  <2>2. \A i \in 1 .. Len(u.list) : i = n + 1 \/ i \in 1 .. n
    BY <1>5
  <2> QED BY <1>5, <1>7, <2>1, <2>2
<1>11. \A i, j \in Listed(u, "control") : u.list[i].dev = u.list[j].dev => i = j
  <2>1. \A i, j \in Listed(t, "control") : t.list[i].dev = t.list[j].dev => i = j
    BY <1>1 DEF DrListed
  <2>2. \A i \in Listed(u, "control") :
            \/ i = n + 1 /\ u.list[i].dev = d /\ major = "control"
            \/ i \in Listed(t, "control") /\ u.list[i].dev = t.list[i].dev
    BY <1>3, <1>5 DEF Listed
  <2> QED BY <2>1, <2>2
<1>12. ASSUME NEW x \in DrIds
       PROVE  u.answers[x] = IF x <= u.issued /\ \A j \in 1 .. Len(u.list) : u.list[j].id # x
                             THEN 1 ELSE 0
  <2>1. t.answers[x] = IF x <= t.issued /\ \A j \in 1 .. Len(t.list) : t.list[j].id # x
                       THEN 1 ELSE 0
    BY <1>1 DEF DrListed
  <2>2. CASE x = r.id
    <3>1. ~(x <= t.issued)
      BY <1>1, <1>3, <2>2
    <3>2. n + 1 \in 1 .. Len(u.list)
      BY <1>5
    <3> QED BY <1>4, <1>5, <2>1, <2>2, <3>1, <3>2
  <2>3. CASE x # r.id
    <3>1. x <= u.issued <=> x <= t.issued
      BY <1>1, <1>2, <1>3, <2>3 DEF DrIds
    <3>2. (\A j \in 1 .. Len(u.list) : u.list[j].id # x) <=> \A j \in 1 .. n : t.list[j].id # x
      <4>1. \A j \in 1 .. Len(u.list) : j = n + 1 \/ j \in 1 .. n
        BY <1>5
      <4>2. 1 .. n \subseteq 1 .. Len(u.list)
        BY <1>5
      <4> QED BY <1>5, <2>3, <4>1, <4>2
    <3> QED BY <1>4, <2>1, <3>1, <3>2
  <2> QED BY <2>2, <2>3
<1>13. DrListed(u)
  BY <1>5, <1>9, <1>10, <1>11, <1>12 DEF DrListed
<1> QED BY <1>4, <1>6, <1>13 DEF u, DrGood

(* An abort answers the first request that fits, if there is one.            *)
LEMMA AbortIs ==
    ASSUME NEW t, DrGood(t), NEW h, NEW majors
    PROVE  /\ DrGood(AbortIo(t, h, majors)) /\ Agree(t, AbortIo(t, h, majors), {"list", "answers"})
           /\ \/ /\ AbortIo(t, h, majors) = t
                 /\ \A i \in 1 .. Len(t.list) : ~(t.list[i].fd = h /\ t.list[i].major \in majors)
              \/ \E m \in 1 .. Len(t.list) :
                     t.list[m].fd = h /\ AbortIo(t, h, majors) = AnswerAt(t, m)
<1> DEFINE fits == {i \in 1 .. Len(t.list) : t.list[i].fd = h /\ t.list[i].major \in majors}
<1>1. CASE fits = {}
  <2>1. AbortIo(t, h, majors) = t
    BY <1>1 DEF AbortIo
  <2>2. Agree(t, t, {"list", "answers"})
    BY DEF DrGood, DrTypes, Agree
  <2> QED BY <1>1, <2>1, <2>2
<1>2. CASE fits # {}
  <2> fits \in SUBSET Nat
    OBVIOUS
  <2>1. Min(fits) \in fits
    BY <1>2, MinIs
  <2>2. AbortIo(t, h, majors) = AnswerAt(t, Min(fits))
    BY <1>2 DEF AbortIo, AnswerAt
  <2> DEFINE m == Min(fits)
  <2> HIDE DEF m
  <2>3. m \in 1 .. Len(t.list) /\ t.list[m].fd = h /\ AbortIo(t, h, majors) = AnswerAt(t, m)
    BY <2>1, <2>2 DEF m
  <2> QED BY <2>3, AnswerIs
<1> QED BY <1>1, <1>2

(* open() takes a free descriptor and makes a file of its own: no pending    *)
(* request is on it.                                                         *)
LEMMA OpenedGood ==
    ASSUME NEW t, DrGood(t), NEW h \in FreeFds(t), NEW r, NEW u,
           DOMAIN r = {"dev", "file", "pos", "epoch"}, r.file = t.opens + 1,
           Agree(t, u, {"opens", "fd", "handle", "info", "stamp"}),
           u.opens = t.opens + 1, u.fd = [t.fd EXCEPT ![h] = r],
           u.handle \in [Ports -> Fds \cup {0}], DOMAIN u.info = Fds
    PROVE  DrGood(u)
<1>1. DrTypes(t) /\ DrListed(t) /\ t.opens \in Nat
  BY DEF DrGood, DrTypes
<1>2. /\ u.list = t.list /\ u.answers = t.answers /\ u.issued = t.issued /\ u.epoch = t.epoch
      /\ u.torn = t.torn /\ u.late = t.late /\ u.inq = t.inq /\ u.mask = t.mask
      /\ u.crowded = t.crowded /\ DOMAIN u = DrFields
  BY DEF Agree, DrFields
<1>3. h \in Fds /\ t.fd[h] = ClosedFd
  BY DEF FreeFds
<1>4. /\ DOMAIN u.fd = Fds /\ u.fd[h] = r
      /\ \A g \in Fds \ {h} : u.fd[g] = t.fd[g]
  BY <1>1, <1>3 DEF DrTypes
<1>5. \A g \in Fds : /\ DOMAIN u.fd[g] = {"dev", "file", "pos", "epoch"}
                     /\ u.fd[g].file \in 0 .. u.opens
                     /\ u.fd[g].dev # "none" => u.fd[g].file # 0
  BY <1>1, <1>4 DEF DrTypes
<1>6. DrTypes(u)
  BY <1>1, <1>2, <1>4, <1>5 DEF DrTypes
<1>7. t.fd[h].file = 0
  BY <1>3 DEF ClosedFd
<1>8. ASSUME NEW i \in 1 .. Len(t.list), OwnsFile(t, t.list[i]) PROVE OwnsFile(u, t.list[i])
  <2>1. t.list[i].fd \in Fds /\ t.list[i].file \in 1 .. t.opens
    BY <1>1 DEF DrListed, IsRequest
  <2>2. t.list[i].fd = h => t.fd[t.list[i].fd].file # t.list[i].file
    BY <1>1, <1>7, <2>1
  <2> QED BY <1>2, <1>4, <1>8, <2>1, <2>2 DEF OwnsFile
<1>9. t.opens <= u.opens
  BY <1>1
<1> QED BY <1>2, <1>6, <1>8, <1>9, KeepsRequests

(* A create may open a device, and may take it for its handle. *)
LEMMA CreatesGood ==
    ASSUME NEW t, DrGood(t), FreeFds(t) # {}, NEW d \in Redirected, NEW u \in FnsCreate(t, d)
    PROVE  DrGood(u)
<1> DEFINE h == Min(FreeFds(t))
           r == [dev |-> d, file |-> t.opens + 1, pos |-> 0, epoch |-> t.epoch]
           v == Opened(t, d)
<1>1. DrTypes(t) /\ DOMAIN t = DrFields /\ t.opens \in Nat
  BY DEF DrGood, DrTypes
<1>2. h \in FreeFds(t) /\ h \in Fds
  <2> FreeFds(t) \in SUBSET Nat
    BY RdpdrConstants DEF FreeFds
  <2>1. h \in FreeFds(t)
    BY MinIs
  <2> QED BY <2>1 DEF FreeFds
<1>3. /\ DOMAIN r = {"dev", "file", "pos", "epoch"} /\ r.file = t.opens + 1
      /\ DOMAIN [r EXCEPT !.epoch = 0] = {"dev", "file", "pos", "epoch"}
      /\ [r EXCEPT !.epoch = 0].file = t.opens + 1
  OBVIOUS
<1> HIDE DEF h, r
<1>4. /\ Agree(t, v, {"opens", "fd"}) /\ v.opens = t.opens + 1 /\ v.fd = [t.fd EXCEPT ![h] = r]
  BY <1>1 DEF Opened, Agree, DrFields, h, r
<1> HIDE DEF v
<1>5. DOMAIN v = DrFields /\ v.handle = t.handle /\ v.info = t.info
  BY <1>4 DEF Agree, DrFields
<1>6. DrGood(v)
  <2>1. Agree(t, v, {"opens", "fd", "handle", "info", "stamp"})
    BY <1>4 DEF Agree
  <2>2. v.handle \in [Ports -> Fds \cup {0}] /\ DOMAIN v.info = Fds
    BY <1>1, <1>5 DEF DrTypes
  <2> QED BY <1>2, <1>3, <1>4, <2>1, <2>2, OpenedGood
<1>7. ASSUME d \in Ports PROVE DrGood([v EXCEPT !.handle[d] = h])
  <2> DEFINE w == [v EXCEPT !.handle[d] = h]
  <2>1. Agree(v, w, {"handle"}) /\ w.handle = [v.handle EXCEPT ![d] = h]
    BY <1>5 DEF Agree, DrFields
  <2> HIDE DEF w
  <2>2. w.handle \in [Ports -> Fds \cup {0}]
    BY <1>1, <1>2, <1>5, <2>1 DEF DrTypes
  <2>3. DrTypes(w)
    BY <1>6, <2>1, <2>2 DEF DrGood, DrTypes, Agree, DrFields
  <2>4. Agree(v, w, {"stamp", "mask", "inq", "info", "handle", "epoch", "crashed"})
    BY <2>1 DEF Agree
  <2> QED BY <1>6, <2>3, <2>4, KeepsRest DEF w
<1>8. DrGood([v EXCEPT !.fd[h].epoch = 0])
  <2> DEFINE w == [v EXCEPT !.fd[h].epoch = 0]
  <2>1. Agree(v, w, {"fd"}) /\ w.fd = [v.fd EXCEPT ![h] = [@ EXCEPT !.epoch = 0]]
    BY <1>5 DEF Agree, DrFields
  <2> HIDE DEF w
  <2>2. w.fd = [t.fd EXCEPT ![h] = [r EXCEPT !.epoch = 0]]
    <3>1. DOMAIN t.fd = Fds
      BY <1>1 DEF DrTypes
    <3>2. v.fd[h] = r
      BY <1>2, <1>4, <3>1
    <3> QED BY <1>2, <1>4, <2>1, <3>1, <3>2
  <2>3. Agree(t, w, {"opens", "fd", "handle", "info", "stamp"}) /\ w.opens = t.opens + 1
        /\ w.handle = t.handle /\ w.info = t.info
    BY <1>4, <1>5, <2>1 DEF Agree, DrFields
  <2>4. w.handle \in [Ports -> Fds \cup {0}] /\ DOMAIN w.info = Fds
    BY <1>1, <2>3 DEF DrTypes
  <2> DEFINE y == [r EXCEPT !.epoch = 0]
  <2>5. DOMAIN y = {"dev", "file", "pos", "epoch"} /\ y.file = t.opens + 1
    BY <1>2, <1>3
  <2>6. w.fd = [t.fd EXCEPT ![h] = y]
    BY <2>2
  <2> HIDE DEF y
  <2>7. DrGood(w)
    BY <1>2, <2>3, <2>4, <2>5, <2>6, OpenedGood
  <2> QED BY <2>7 DEF w
<1>9. /\ DrGood([v EXCEPT !.info[h] = "disk"])
      /\ DrGood([[v EXCEPT !.info[h] = "disk"] EXCEPT !.stamp = TRUE])
  <2> DEFINE w == [v EXCEPT !.info[h] = "disk"]
             x == [w EXCEPT !.stamp = TRUE]
  <2>1. Agree(v, w, {"info"}) /\ w.info = [v.info EXCEPT ![h] = "disk"]
    BY <1>5 DEF Agree, DrFields
  <2> HIDE DEF w
  <2>2. Agree(v, x, {"info", "stamp"}) /\ x.info = w.info
    BY <2>1 DEF Agree, DrFields
  <2> HIDE DEF x
  <2>3. DOMAIN w.info = Fds /\ DOMAIN x.info = Fds
    BY <1>1, <1>5, <2>1, <2>2 DEF DrTypes
  <2>4. DrTypes(w) /\ DrTypes(x)
    BY <1>6, <2>1, <2>2, <2>3 DEF DrGood, DrTypes, Agree, DrFields
  <2>5. /\ Agree(v, w, {"stamp", "mask", "inq", "info", "handle", "epoch", "crashed"})
        /\ Agree(v, x, {"stamp", "mask", "inq", "info", "handle", "epoch", "crashed"})
    BY <2>1, <2>2 DEF Agree
  <2>6. DrGood(w) /\ DrGood(x)
    BY <1>6, <2>4, <2>5, KeepsRest
  <2> QED BY <2>6 DEF w, x
<1>10. d \in Ports => d \in SerialPorts \/ d = "parallel" \/ d = "printer"
  BY DEF Ports
<1>11. \/ u = t
       \/ d \in Ports /\ u = [v EXCEPT !.handle[d] = h]
       \/ u = [v EXCEPT !.fd[h].epoch = 0]
       \/ u = [v EXCEPT !.info[h] = "disk"]
       \/ u = [[v EXCEPT !.info[h] = "disk"] EXCEPT !.stamp = TRUE]
  <2>1. CASE d \in SerialPorts
    BY <2>1, RdpdrConstants DEF FnsCreate, SerialCreate, OpenedAs, Ports, v, h
  <2>2. CASE d = "parallel"
    BY <2>2, RdpdrConstants DEF FnsCreate, ParallelCreate, OpenedAs, Ports, v, h
  <2>3. CASE d = "printer"
    BY <2>3, RdpdrConstants DEF FnsCreate, PrinterCreate, OpenedAs, Ports, v, h
  <2>4. CASE d = "disk"
    BY <2>4, RdpdrConstants DEF FnsCreate, DiskCreate, v, h
  <2> QED BY <2>1, <2>2, <2>3, <2>4 DEF Redirected, Ports
<1> QED BY <1>7, <1>8, <1>9, <1>11

(* The descriptor is closed: what is left on it is a parallel port's, or of  *)
(* a file that was closed with several requests.                             *)
LEMMA ClosedGood ==
    ASSUME NEW t, DrGood(t), NEW h \in Fds, NEW u,
           Agree(t, u, {"fd", "crowded"}), u.fd = [t.fd EXCEPT ![h] = ClosedFd],
           t.crowded \subseteq u.crowded,
           \A i \in 1 .. Len(t.list) :
               t.list[i].fd = h => t.list[i].dev = "parallel" \/ t.list[i].file \in u.crowded
    PROVE  DrGood(u)
<1>1. DrTypes(t) /\ DrListed(t) /\ t.opens \in Nat
  BY DEF DrGood, DrTypes
<1>2. /\ u.list = t.list /\ u.answers = t.answers /\ u.issued = t.issued /\ u.epoch = t.epoch
      /\ u.torn = t.torn /\ u.late = t.late /\ u.inq = t.inq /\ u.mask = t.mask
      /\ u.opens = t.opens /\ u.handle = t.handle /\ u.info = t.info /\ DOMAIN u = DrFields
  BY DEF Agree, DrFields
<1>3. /\ DOMAIN u.fd = Fds /\ u.fd[h] = ClosedFd
      /\ \A g \in Fds \ {h} : u.fd[g] = t.fd[g]
  BY <1>1 DEF DrTypes
<1>4. DOMAIN ClosedFd = {"dev", "file", "pos", "epoch"} /\ ClosedFd.file = 0 /\ ClosedFd.dev = "none"
  BY DEF ClosedFd
<1>5. DrTypes(u)
  BY <1>1, <1>2, <1>3, <1>4 DEF DrTypes
<1>6. \A i \in 1 .. Len(t.list) : OwnsFile(t, t.list[i]) => OwnsFile(u, t.list[i])
  BY <1>1, <1>3 DEF OwnsFile, DrListed, IsRequest
<1>7. t.opens <= u.opens
  BY <1>1, <1>2
<1> QED BY <1>2, <1>5, <1>6, <1>7, KeepsRequests

(* What the close of h records, if there were several requests on it.        *)
Crowds(t, h, u) ==
    IF Cardinality({i \in 1 .. Len(t.list) : t.list[i].fd = h}) > 1
    THEN [u EXCEPT !.crowded = @ \cup {t.fd[h].file}] ELSE u

(* Close, with the handle of the device reset: at most one request is ended. *)
LEMMA ClosesGood ==
    ASSUME NEW t, DrGood(t), NEW d \in Redirected, NEW h \in Fds, t.fd[h].dev = d,
           NEW u \in FnsClose(t, d, h), NEW v, v = Crowds(t, h, u)
    PROVE  DrGood(v)
<1> DEFINE T == {i \in 1 .. Len(t.list) : t.list[i].fd = h}
<1>1. DrTypes(t) /\ DrListed(t) /\ DOMAIN t = DrFields
  BY DEF DrGood, DrTypes
<1>2. ASSUME NEW x, Agree(t, x, {"handle", "stamp"}), x.handle \in [Ports -> Fds \cup {0}]
      PROVE  DrGood(x) /\ x.list = t.list /\ x.crowded = t.crowded /\ x.fd = t.fd
  <2>1. DrTypes(x)
    BY <1>1, <1>2 DEF DrTypes, Agree, DrFields
  <2>2. Agree(t, x, {"stamp", "mask", "inq", "info", "handle", "epoch", "crashed"})
    BY <1>2 DEF Agree
  <2>3. x.list = t.list /\ x.crowded = t.crowded /\ x.fd = t.fd
    BY <1>2 DEF Agree, DrFields
  <2> QED BY <2>1, <2>2, <2>3, KeepsRest
<1>3. \A i \in 1 .. Len(t.list) :
          t.list[i].fd = h => \/ t.list[i].dev \in {d, "parallel"} /\ t.list[i].file = t.fd[h].file
                              \/ t.list[i].dev = "parallel" \/ t.list[i].file \in t.crowded
  BY <1>1 DEF DrListed, IsRequest, OwnsFile
(* From the table without its first request on h *)
<1>4. ASSUME NEW x, DrGood(x), x.list = t.list, x.crowded = t.crowded, x.fd = t.fd,
             u = ClosedIn(AbortIo(x, h, DrMajors), h)
      PROVE  DrGood(v)
  <2> DEFINE y == AbortIo(x, h, DrMajors)
  <2>1. /\ DrGood(y) /\ Agree(x, y, {"list", "answers"})
        /\ \/ /\ y = x
              /\ \A i \in 1 .. Len(x.list) : ~(x.list[i].fd = h /\ x.list[i].major \in DrMajors)
           \/ \E m \in 1 .. Len(x.list) : x.list[m].fd = h /\ y = AnswerAt(x, m)
    BY <1>4, AbortIs
  <2> HIDE DEF y
  <2>2. y.crowded = t.crowded /\ y.fd = t.fd /\ DOMAIN y = DrFields
    BY <1>4, <2>1 DEF Agree, DrFields
  <2>3. u = [y EXCEPT !.fd[h] = ClosedFd]
    BY <1>4 DEF ClosedIn, y
  <2>4. /\ Agree(y, v, {"fd", "crowded"}) /\ v.fd = [y.fd EXCEPT ![h] = ClosedFd]
        /\ v.crowded = IF Cardinality(T) > 1 THEN y.crowded \cup {t.fd[h].file} ELSE y.crowded
    BY <2>2, <2>3 DEF Agree, DrFields, Crowds
  <2>5. ASSUME NEW j \in 1 .. Len(y.list), y.list[j].fd = h
        PROVE  y.list[j].dev = "parallel" \/ y.list[j].file \in v.crowded
    <3>1. \A i \in 1 .. Len(x.list) : x.list[i].major \in DrMajors
      BY <1>1, <1>4 DEF DrListed, IsRequest
    <3>2. CASE y = x
      <4>1. ASSUME NEW m \in 1 .. Len(x.list) PROVE Len(AnswerAt(x, m).list) # Len(x.list)
        <5>1. /\ Len(AnswerAt(x, m).list) = Len(x.list) - 1 /\ Len(x.list) \in Nat
          BY <1>4, AnswerIs, Zenon
        <5> QED BY <5>1
      <4>2. ~\E m \in 1 .. Len(x.list) : y = AnswerAt(x, m)
        BY <3>2, <4>1, Zenon
      <4>3. ~(x.list[j].fd = h /\ x.list[j].major \in DrMajors)
        BY <2>1, <2>5, <3>2, <4>2, Zenon
      <4> QED BY <2>5, <3>1, <3>2, <4>3, Zenon
    <3>3. ASSUME NEW m \in 1 .. Len(x.list), x.list[m].fd = h, y = AnswerAt(x, m)
          PROVE  y.list[j].dev = "parallel" \/ y.list[j].file \in v.crowded
      <4> DEFINE k == IF j < m THEN j ELSE j + 1
      <4>a. /\ Len(y.list) = Len(x.list) - 1 /\ Len(x.list) \in Nat
            /\ \A i \in 1 .. Len(x.list) - 1 : y.list[i] = x.list[IF i < m THEN i ELSE i + 1]
        <5>1. DrGood(x)
          BY <1>4
        <5> QED BY <3>3, <5>1, AnswerIs
      <4>b. j \in 1 .. Len(x.list) - 1
        BY <2>5, <4>a
      <4>c. y.list[j] = x.list[k]
        BY <4>a, <4>b
      <4>d. k \in 1 .. Len(x.list) /\ k # m
        BY <3>3, <4>a, <4>b
      <4>1. k \in 1 .. Len(x.list) /\ k # m /\ y.list[j] = x.list[k]
        BY <4>c, <4>d
      <4> HIDE DEF k
      <4>2. k \in T /\ m \in T
        BY <1>4, <2>5, <3>3, <4>1
      <4>3. IsFiniteSet(T) /\ Cardinality(T) \in Nat
        <5>1. Len(t.list) \in Nat
          BY <1>4, <3>3, AnswerIs
        <5>2. IsFiniteSet(1 .. Len(t.list))
          <6>1. 1 \in Int /\ Len(t.list) \in Int
            BY <5>1
          <6> QED BY <6>1, FS_Interval
        <5>3. T \subseteq 1 .. Len(t.list)
          OBVIOUS
        <5> QED BY <5>2, <5>3, FS_Subset, FS_CardinalityType
      <4>4. Cardinality(T) > 1
        <5>1. Cardinality(T \ {k}) = Cardinality(T) - 1 /\ IsFiniteSet(T \ {k})
          BY <4>2, <4>3, FS_RemoveElement
        <5>2. m \in T \ {k}
          BY <4>1, <4>2
        <5>3. Cardinality(T \ {k}) # 0
          BY <5>1, <5>2, FS_EmptySet
        <5> HIDE DEF T
        <5>4. Cardinality(T \ {k}) \in Nat
          BY <5>1, FS_CardinalityType
        <5> QED BY <4>3, <5>1, <5>3, <5>4
      <4>5. k \in 1 .. Len(t.list) /\ t.list[k].fd = h /\ y.list[j] = t.list[k]
        BY <1>4, <4>1, <4>2
      <4> QED BY <1>3, <2>2, <2>4, <4>4, <4>5
    <3> QED BY <2>1, <3>2, <3>3
  <2>6. y.crowded \subseteq v.crowded
    <3>1. CASE Cardinality(T) > 1
      <4>1. v.crowded = y.crowded \cup {t.fd[h].file}
        BY <2>4, <3>1
      <4> QED BY <4>1
    <3>2. CASE ~(Cardinality(T) > 1)
      <4>1. v.crowded = y.crowded
        BY <2>4, <3>2
      <4> QED BY <4>1
    <3> QED BY <3>1, <3>2
  <2>7. DrGood(y) /\ Agree(y, v, {"fd", "crowded"}) /\ v.fd = [y.fd EXCEPT ![h] = ClosedFd]
    BY <2>1, <2>4
  <2>8. \A i \in 1 .. Len(y.list) :
            y.list[i].fd = h => y.list[i].dev = "parallel" \/ y.list[i].file \in v.crowded
    BY <2>5
  <2> HIDE DEF T
  <2> QED BY <2>6, <2>7, <2>8, ClosedGood
(* From the table as it is *)
<1>5. ASSUME NEW x, DrGood(x), x.list = t.list, x.crowded = t.crowded, x.fd = t.fd,
             d \in {"parallel", "printer"}, u = ClosedIn(x, h)
      PROVE  DrGood(v)
  <2>1. u = [x EXCEPT !.fd[h] = ClosedFd] /\ DOMAIN x = DrFields
    BY <1>5 DEF ClosedIn, DrGood, DrTypes
  <2>2. /\ Agree(x, v, {"fd", "crowded"}) /\ v.fd = [x.fd EXCEPT ![h] = ClosedFd]
        /\ x.crowded \subseteq v.crowded
    BY <1>5, <2>1 DEF Agree, DrFields, Crowds
  <2>3. \A i \in 1 .. Len(t.list) :
            t.list[i].fd = h => t.list[i].dev = "parallel" \/ t.list[i].file \in t.crowded
    BY <1>1, <1>5 DEF DrListed, IsRequest, OwnsFile
  <2>4. \A i \in 1 .. Len(x.list) :
            x.list[i].fd = h => x.list[i].dev = "parallel" \/ x.list[i].file \in v.crowded
    BY <1>5, <2>2, <2>3
  <2> QED BY <1>5, <2>2, <2>4, ClosedGood
<1> DEFINE r == HandleReset(t, h)
<1>6. DrGood(r) /\ r.list = t.list /\ r.crowded = t.crowded /\ r.fd = t.fd
  <2>1. Agree(t, r, {"handle", "stamp"})
        /\ r.handle = [p \in Ports |-> IF t.handle[p] = h THEN 0 ELSE t.handle[p]]
    BY <1>1 DEF HandleReset, Agree, DrFields
  <2> HIDE DEF r
  <2>2. r.handle \in [Ports -> Fds \cup {0}]
    BY <1>1, <2>1 DEF DrTypes
  <2> QED BY <1>2, <2>1, <2>2
<1> HIDE DEF r
<1>7. CASE d \in SerialPorts
  <2>1. u = ClosedIn(AbortIo(r, h, DrMajors), h)
    BY <1>7, RdpdrConstants DEF FnsClose, SerialClose, r
  <2> QED BY <1>4, <1>6, <2>1
<1>8. CASE d = "parallel"
  <2>1. u = ClosedIn(r, h)
    BY <1>8, RdpdrConstants DEF FnsClose, ParallelClose, r
  <2> QED BY <1>5, <1>6, <1>8, <2>1
<1>9. CASE d = "printer"
  <2>1. u \in {PrinterClose(t, h)}
    BY <1>9, RdpdrConstants DEF FnsClose
  <2>2. CASE u = t
    <3>1. CASE v = u
      BY <2>2, <3>1
    <3>2. CASE v = [t EXCEPT !.crowded = @ \cup {t.fd[h].file}]
      <4>1. Agree(t, v, {"crowded"}) /\ v.crowded = t.crowded \cup {t.fd[h].file}
        BY <1>1, <3>2 DEF Agree, DrFields
      <4>2. DrTypes(v)
        BY <1>1, <4>1 DEF DrTypes, Agree, DrFields
      <4>3. /\ v.list = t.list /\ v.answers = t.answers /\ v.issued = t.issued
            /\ v.opens = t.opens /\ v.torn = t.torn /\ v.late = t.late /\ v.fd = t.fd
        BY <4>1 DEF Agree, DrFields
      <4>4. t.opens <= v.opens
        BY <1>1, <4>3 DEF DrTypes
      <4> QED BY <4>1, <4>2, <4>3, <4>4, KeepsRequests DEF OwnsFile
    <3> QED BY <2>2, <3>1, <3>2 DEF Crowds
  <2>3. CASE u = ClosedIn(r, h)
    BY <1>5, <1>6, <1>9, <2>3
  <2> QED BY <2>1, <2>2, <2>3 DEF PrinterClose, r
<1>10. CASE d = "disk"
  <2>1. PICK s \in {TRUE, t.stamp} : u = ClosedIn(AbortIo([t EXCEPT !.stamp = s], h, DrMajors), h)
    BY <1>10, RdpdrConstants DEF FnsClose, DiskClose
  <2> DEFINE x == [t EXCEPT !.stamp = s]
  <2>2. Agree(t, x, {"handle", "stamp"}) /\ x.handle = t.handle
    BY <1>1 DEF Agree, DrFields
  <2>3. u = ClosedIn(AbortIo(x, h, DrMajors), h)
    BY <2>1
  <2> HIDE DEF x
  <2>4. DrGood(x) /\ x.list = t.list /\ x.crowded = t.crowded /\ x.fd = t.fd
    BY <1>1, <1>2, <2>2 DEF DrTypes
  <2> QED BY <1>4, <2>3, <2>4
<1> QED BY <1>7, <1>8, <1>9, <1>10 DEF Redirected, Ports

(* What a transfer changes besides its request: bytes of a port, a position. *)
Moves(t, r, o) ==
    /\ Agree(t, o.t, {"inq", "fd"}) /\ o.n \in Nat
    /\ DOMAIN o.t.inq = SerialPorts /\ \A p \in SerialPorts : o.t.inq[p] \in 0 .. t.inq[p]
    /\ DOMAIN o.t.fd = Fds
    /\ \A h \in Fds : /\ DOMAIN o.t.fd[h] = {"dev", "file", "pos", "epoch"}
                      /\ o.t.fd[h].file = t.fd[h].file /\ o.t.fd[h].dev = t.fd[h].dev
    /\ ~(r.dev = "disk" /\ o.n = 1 /\ o.t.fd[r.fd].pos # r.offset + 1)

(* A read or write of any device moves a byte, or none. *)
LEMMA TransferIs ==
    ASSUME NEW t, DrGood(t), NEW r, IsRequest(t, r), r.major \in {"read", "write"},
           NEW o \in FnsTransfer(t, r)
    PROVE  Moves(t, r, o)
<1>1. DrTypes(t) /\ DOMAIN t = DrFields /\ r.fd \in Fds /\ r.dev \in Redirected \ {"printer"}
  BY DEF DrGood, DrTypes, IsRequest
<1>2. Failure \in Nat \ {0, 1}
  BY RdpdrConstants DEF Failure
(* Nothing but the result *)
<1>3. ASSUME o.t = t, o.n \in {0, 1, Failure}, r.dev = "disk" => o.n # 1 PROVE Moves(t, r, o)
  <2>1. o.n \in Nat
    BY <1>2, <1>3
  <2>2. Agree(t, t, {"inq", "fd"})
    BY <1>1 DEF Agree
  <2>3. \A p \in SerialPorts : t.inq[p] \in 0 .. t.inq[p]
    BY <1>1 DEF DrTypes
  <2> QED BY <1>1, <1>3, <2>1, <2>2, <2>3 DEF Moves, DrTypes
(* A byte of a port *)
<1>4. ASSUME NEW p \in SerialPorts, t.inq[p] > 0, r.dev \in SerialPorts,
             o = [n |-> 1, t |-> [t EXCEPT !.inq[p] = @ - 1]]
      PROVE  Moves(t, r, o)
  <2> DEFINE u == [t EXCEPT !.inq[p] = @ - 1]
  <2>1. Agree(t, u, {"inq"}) /\ u.inq = [t.inq EXCEPT ![p] = @ - 1]
    BY <1>1 DEF Agree, DrFields
  <2>2. o.t = u /\ o.n = 1
    BY <1>4
  <2> HIDE DEF u
  <2>3. u.fd = t.fd /\ Agree(t, u, {"inq", "fd"})
    BY <2>1 DEF Agree, DrFields
  <2>4. DOMAIN u.inq = SerialPorts /\ \A q \in SerialPorts : u.inq[q] \in 0 .. t.inq[q]
    BY <1>1, <1>4, <2>1 DEF DrTypes
  <2>5. r.dev # "disk"
    BY <1>4, RdpdrConstants
  <2>6. \A h \in Fds : /\ DOMAIN u.fd[h] = {"dev", "file", "pos", "epoch"}
                       /\ u.fd[h].file = t.fd[h].file /\ u.fd[h].dev = t.fd[h].dev
    BY <1>1, <2>3 DEF DrTypes
  <2>7. DOMAIN u.fd = Fds
    BY <1>1, <2>3 DEF DrTypes
  <2> QED BY <2>2, <2>3, <2>4, <2>5, <2>6, <2>7 DEF Moves
(* A byte of the file, at its offset *)
<1>5. ASSUME o.t = At(t, r.fd, r.offset + 1), o.n = 1 PROVE Moves(t, r, o)
  <2> DEFINE u == At(t, r.fd, r.offset + 1)
  <2>1. Agree(t, u, {"fd"}) /\ u.fd = [t.fd EXCEPT ![r.fd] = [@ EXCEPT !.pos = r.offset + 1]]
    BY <1>1 DEF At, Agree, DrFields
  <2> HIDE DEF u
  <2>2. Agree(t, u, {"inq", "fd"}) /\ u.inq = t.inq
    BY <2>1 DEF Agree, DrFields
  <2>3. DOMAIN t.fd = Fds /\ \A h \in Fds : DOMAIN t.fd[h] = {"dev", "file", "pos", "epoch"}
    BY <1>1 DEF DrTypes
  <2>4. /\ DOMAIN u.fd = Fds /\ u.fd[r.fd] = [t.fd[r.fd] EXCEPT !.pos = r.offset + 1]
        /\ \A h \in Fds \ {r.fd} : u.fd[h] = t.fd[h]
    BY <1>1, <2>1, <2>3
  <2>5. DOMAIN t.fd[r.fd] = {"dev", "file", "pos", "epoch"}
    BY <1>1, <2>3
  <2>6. /\ u.fd[r.fd].pos = r.offset + 1 /\ DOMAIN u.fd[r.fd] = {"dev", "file", "pos", "epoch"}
        /\ u.fd[r.fd].file = t.fd[r.fd].file /\ u.fd[r.fd].dev = t.fd[r.fd].dev
    BY <2>4, <2>5
  <2>7. \A h \in Fds : /\ DOMAIN u.fd[h] = {"dev", "file", "pos", "epoch"}
                       /\ u.fd[h].file = t.fd[h].file /\ u.fd[h].dev = t.fd[h].dev
    <3> SUFFICES ASSUME NEW h \in Fds
                 PROVE  /\ DOMAIN u.fd[h] = {"dev", "file", "pos", "epoch"}
                        /\ u.fd[h].file = t.fd[h].file /\ u.fd[h].dev = t.fd[h].dev
      OBVIOUS
    <3>1. CASE h = r.fd
      BY <2>6, <3>1
    <3>2. CASE h # r.fd
      BY <2>3, <2>4, <3>2
    <3> QED BY <3>1, <3>2
  <2>8. DOMAIN u.inq = SerialPorts /\ \A p \in SerialPorts : u.inq[p] \in 0 .. t.inq[p]
    BY <1>1, <2>2 DEF DrTypes
  <2>9. o.t = u /\ o.n = 1
    BY <1>5, Zenon DEF u
  <2>10. o.n \in Nat
    BY <2>9
  <2>11. ~(r.dev = "disk" /\ o.n = 1 /\ o.t.fd[r.fd].pos # r.offset + 1)
    BY <2>6, <2>9, Zenon
  <2> QED BY <2>2, <2>4, <2>7, <2>8, <2>9, <2>10, <2>11, Zenon DEF Moves
<1>6. CASE t.fd[r.fd] = ClosedFd
  BY <1>3, <1>6 DEF FnsTransfer
<1>7. CASE t.fd[r.fd] # ClosedFd /\ r.partial > r.length
  BY <1>2, <1>3, <1>7 DEF FnsTransfer
<1>8. CASE t.fd[r.fd] # ClosedFd /\ ~(r.partial > r.length)
  <2>1. CASE r.dev \in SerialPorts
    <3>1. "disk" \notin SerialPorts
      BY RdpdrConstants
    <3>2. o \in SerialRead(t, r.fd) \/ o \in SerialWrite(t)
      BY <1>8, <2>1, RdpdrConstants DEF FnsTransfer
    <3>3. CASE o \in SerialWrite(t)
      BY <1>3, <2>1, <3>1, <3>3 DEF SerialWrite
    <3>4. CASE o \in SerialRead(t, r.fd)
      <4>1. \/ o = [n |-> Failure, t |-> t]
            \/ \E p \in SerialPorts : t.inq[p] > 0 /\ o = [n |-> 1, t |-> [t EXCEPT !.inq[p] = @ - 1]]
        BY <3>4 DEF SerialRead
      <4> QED BY <1>3, <1>4, <2>1, <3>1, <4>1
    <3> QED BY <3>2, <3>3, <3>4
  <2>2. CASE r.dev = "parallel"
    <3>1. o \in ParallelRead(t) \/ o \in ParallelWrite(t)
      BY <1>8, <2>2, RdpdrConstants DEF FnsTransfer
    <3>2. o.t = t /\ o.n \in {0, 1, Failure}
      BY <3>1 DEF ParallelRead, ParallelWrite
    <3> QED BY <1>3, <2>2, <3>2
  <2>3. CASE r.dev = "disk"
    <3>1. o \in DiskRead(t, r.fd, r.offset) \/ o \in DiskWrite(t, r.fd, r.offset)
      BY <1>8, <2>3, RdpdrConstants DEF FnsTransfer
    <3>2. \/ o.t = t /\ o.n = 0
          \/ o.t = At(t, r.fd, r.offset + 1) /\ o.n = 1
      BY <3>1 DEF DiskRead, DiskWrite, Seek
    <3> QED BY <1>3, <1>5, <2>3, <3>2
  <2> QED BY <1>1, <2>1, <2>2, <2>3 DEF Redirected, Ports
<1> QED BY <1>6, <1>7, <1>8

(* A piece of request i is transferred: it stays the request it was, and no  *)
(* event happens.                                                            *)
Moved(t, i, o, u) ==
    /\ Moves(t, t.list[i], o) /\ Agree(o.t, u, {"list", "torn", "late"})
    /\ \E q : /\ u.list = [o.t.list EXCEPT ![i] = q]
              /\ DOMAIN q = ReqFields /\ q.partial \in 0 .. Word - 1
              /\ \A f \in ReqFields \ {"partial", "offset"} : q[f] = t.list[i][f]

(* ... and the table stays good. *)
LEMMA MovedGood ==
    ASSUME NEW t, DrGood(t), NEW i \in 1 .. Len(t.list), NEW o, NEW u, Moved(t, i, o, u),
           ~u.torn, OnePort => ~u.late
    PROVE  /\ DrGood(u) /\ Len(u.list) = Len(t.list)
           /\ \A j \in Listed(u, "control") :
                  j \in Listed(t, "control") /\ u.list[j].fd = t.list[j].fd
           /\ \A h : SerialGetEvent(u, h) => SerialGetEvent(t, h)
<1> PICK q : /\ u.list = [o.t.list EXCEPT ![i] = q]
             /\ DOMAIN q = ReqFields /\ q.partial \in 0 .. Word - 1
             /\ \A f \in ReqFields \ {"partial", "offset"} : q[f] = t.list[i][f]
  BY DEF Moved
<1> Moves(t, t.list[i], o) /\ Agree(o.t, u, {"list", "torn", "late"})
  BY DEF Moved
<1>1. DrTypes(t) /\ DrListed(t)
  BY DEF DrGood
<1>2. /\ u.fd = o.t.fd /\ u.inq = o.t.inq /\ u.handle = t.handle /\ u.info = t.info
      /\ u.answers = t.answers /\ u.issued = t.issued /\ u.opens = t.opens /\ u.epoch = t.epoch
      /\ u.mask = t.mask /\ u.crowded = t.crowded /\ o.t.list = t.list /\ DOMAIN u = DrFields
  BY DEF Agree, DrFields, Moves
<1>3. DrTypes(u)
  <2>1. \A p \in SerialPorts : u.inq[p] \in Nat
    <3>1. \A p \in SerialPorts : o.t.inq[p] \in 0 .. t.inq[p]
      BY Zenon DEF Moves
    <3>2. \A p \in SerialPorts : t.inq[p] \in Nat
      BY <1>1, Zenon DEF DrTypes
    <3> QED BY <1>2, <3>1, <3>2
  <2>2. \A h \in Fds : /\ DOMAIN u.fd[h] = {"dev", "file", "pos", "epoch"}
                       /\ u.fd[h].file \in 0 .. u.opens
                       /\ u.fd[h].dev # "none" => u.fd[h].file # 0
    <3>1. \A h \in Fds : /\ DOMAIN o.t.fd[h] = {"dev", "file", "pos", "epoch"}
                         /\ o.t.fd[h].file = t.fd[h].file /\ o.t.fd[h].dev = t.fd[h].dev
      BY Zenon DEF Moves
    <3>2. \A h \in Fds : /\ t.fd[h].file \in 0 .. t.opens
                         /\ t.fd[h].dev # "none" => t.fd[h].file # 0
      BY <1>1, Zenon DEF DrTypes
    <3>3. u.fd = o.t.fd /\ u.opens = t.opens
      BY <1>2
    <3> QED BY <3>1, <3>2, <3>3
  <2>3. DOMAIN u.fd = Fds /\ DOMAIN u.inq = SerialPorts
    BY <1>2 DEF Moves
  <2> QED BY <1>1, <1>2, <2>1, <2>2, <2>3 DEF DrTypes
<1>4. /\ q.id = t.list[i].id /\ q.fd = t.list[i].fd /\ q.dev = t.list[i].dev
      /\ q.major = t.list[i].major /\ q.file = t.list[i].file
  BY DEF ReqFields
<1>5. /\ IsSeq(u.list) /\ Len(u.list) = Len(t.list) /\ u.list[i] = q
      /\ \A j \in 1 .. Len(t.list) \ {i} : u.list[j] = t.list[j]
  <2> DEFINE l == t.list
             v == [l EXCEPT ![i] = q]
  <2>1. IsSeq(l) /\ i \in 1 .. Len(l)
    BY <1>1 DEF DrListed
  <2>2. u.list = v
    BY <1>2
  <2>a. Replaces(v, l, i, q)
    BY DEF Replaces
  <2> HIDE DEF l, v
  <2>3. /\ IsSeq(v) /\ Len(v) = Len(l) /\ v[i] = q
        /\ \A j \in 1 .. Len(l) \ {i} : v[j] = l[j]
    BY <2>1, <2>a, IsSeqReplaced
  <2> QED BY <2>2, <2>3 DEF l
<1>6. \A r : IsRequest(t, r) => IsRequest(u, r)
  BY <1>2 DEF IsRequest, OwnsFile, Moves
<1>7. \A j \in 1 .. Len(t.list) : IsRequest(t, t.list[j])
  BY <1>1 DEF DrListed
<1>8. IsRequest(t, q)
  <2>1. IsRequest(t, t.list[i])
    BY <1>7
  <2> QED BY <1>4, <2>1 DEF IsRequest, OwnsFile
<1>9. \A j \in 1 .. Len(u.list) : IsRequest(u, u.list[j])
  BY <1>5, <1>6, <1>7, <1>8
<1>10. \A j \in 1 .. Len(t.list) :
           /\ u.list[j].id = t.list[j].id /\ u.list[j].major = t.list[j].major
           /\ u.list[j].dev = t.list[j].dev /\ u.list[j].fd = t.list[j].fd
  BY <1>4, <1>5
<1>11. Listed(u, "control") = Listed(t, "control")
  BY <1>5, <1>10 DEF Listed
<1>12. \A j \in Listed(t, "control") : j \in 1 .. Len(t.list)
  BY DEF Listed
<1>13. DrListed(u)
  <2>1. \A j, k \in 1 .. Len(u.list) : u.list[j].id = u.list[k].id => j = k
    BY <1>1, <1>5, <1>10 DEF DrListed
  <2>2. \A id \in DrIds : u.answers[id] = IF /\ id <= u.issued
                                             /\ \A j \in 1 .. Len(u.list) : u.list[j].id # id
                                          THEN 1 ELSE 0
    <3>1. \A id \in DrIds : t.answers[id] = IF /\ id <= t.issued
                                               /\ \A j \in 1 .. Len(t.list) : t.list[j].id # id
                                            THEN 1 ELSE 0
      BY <1>1 DEF DrListed
    <3>2. \A id \in DrIds : (\A j \in 1 .. Len(u.list) : u.list[j].id # id)
                               <=> \A j \in 1 .. Len(t.list) : t.list[j].id # id
      BY <1>5, <1>10
    <3> QED BY <1>2, <3>1, <3>2
  <2>3. \A j, k \in Listed(t, "control") : t.list[j].dev = t.list[k].dev => j = k
    BY <1>1 DEF DrListed
  <2>4. \A j, k \in Listed(u, "control") : u.list[j].dev = u.list[k].dev => j = k
    BY <1>10, <1>11, <1>12, <2>3
  <2> QED BY <1>5, <1>9, <2>1, <2>2, <2>4 DEF DrListed
<1>14. DrGood(u)
  BY <1>3, <1>13 DEF DrGood
<1>15. ASSUME NEW h, SerialGetEvent(u, h) PROVE SerialGetEvent(t, h)
  <2>1. PICK p \in DeviceIndex(u, h) \cap SerialPorts : u.mask[p] /\ u.inq[p] > 0
    BY <1>15 DEF SerialGetEvent
  <2>2. p \in DeviceIndex(t, h)
    BY <1>2, <2>1 DEF DeviceIndex
  <2>3. u.inq[p] \in 0 .. t.inq[p] /\ t.inq[p] \in Nat
    BY <1>1, <1>2, <2>1 DEF Moves, DrTypes
  <2>4. t.inq[p] > 0
    BY <2>1, <2>3
  <2> QED BY <1>2, <2>1, <2>2, <2>4 DEF SerialGetEvent
<1> QED BY <1>5, <1>10, <1>11, <1>12, <1>14, <1>15

-----------------------------------------------------------------------------
(* A pass over the table: before step k + 1, w is behind request k or at the *)
(* end.  With one port an event can only wait ahead, and not once bytes move.*)
Waits(t, j) == SerialGetEvent(t, t.list[j].fd)

WalkGood(w, ready, n, k) ==
    /\ DOMAIN w = {"t", "i"} /\ DrGood(w.t)
    /\ w.i \in Nat \ {0} /\ Len(w.t.list) \in 0 .. n
    /\ w.t.crashed \/ w.i > k \/ w.i > Len(w.t.list)
    /\ w.t.crashed \/ (OnePort => \A j \in Listed(w.t, "control") :
                                      Waits(w.t, j) => ready = {} /\ j >= w.i)

(* The events that wait after an answer waited before it.                    *)
LEMMA AnswerQuiet ==
    ASSUME NEW t, DrGood(t), NEW i \in 1 .. Len(t.list),
           \A j \in Listed(t, "control") \ {i} : ~Waits(t, j)
    PROVE  \A j \in Listed(AnswerAt(t, i), "control") : ~Waits(AnswerAt(t, i), j)
<1> DEFINE u == AnswerAt(t, i)
<1>1. /\ Agree(t, u, {"list", "answers"}) /\ Len(u.list) = Len(t.list) - 1 /\ Len(t.list) \in Nat
      /\ \A j \in 1 .. Len(t.list) - 1 : u.list[j] = t.list[IF j < i THEN j ELSE j + 1]
  BY AnswerIs
<1> HIDE DEF u
<1>2. u.handle = t.handle /\ u.mask = t.mask /\ u.inq = t.inq
  BY <1>1 DEF Agree, DrFields
<1>3. \A h : SerialGetEvent(u, h) => SerialGetEvent(t, h)
  BY <1>2 DEF SerialGetEvent, DeviceIndex
<1>4. ASSUME NEW j \in Listed(u, "control") PROVE ~Waits(u, j)
  <2> DEFINE k == IF j < i THEN j ELSE j + 1
  <2>1. j \in 1 .. Len(t.list) - 1 /\ u.list[j].major = "control"
    BY <1>1, <1>4 DEF Listed
  <2>2. u.list[j] = t.list[k]
    BY <1>1, <2>1
  <2>3. k \in 1 .. Len(t.list) /\ k # i
    BY <1>1, <2>1
  <2> HIDE DEF k
  <2>4. k \in Listed(t, "control") \ {i}
    BY <2>1, <2>2, <2>3 DEF Listed
  <2>5. ~SerialGetEvent(t, t.list[k].fd)
    BY <2>4 DEF Waits
  <2> QED BY <1>3, <2>2, <2>5 DEF Waits
<1> QED BY <1>4 DEF u

(* A request is passed over on the way ... *)
LEMMA PassedGood ==
    ASSUME NEW ready, NEW n \in Nat, NEW k \in Nat, NEW w, NEW t, DrGood(t),
           w.i \in Nat \ {0}, Len(t.list) \in 0 .. n, w.i > k,
           OnePort => \A j \in Listed(t, "control") :
                          Waits(t, j) => ready = {} /\ j >= w.i + 1
    PROVE  WalkGood(Passed(w, t), ready, n, k + 1)
<1> DEFINE v == Passed(w, t)
<1>1. DOMAIN v = {"t", "i"} /\ v.t = t /\ v.i = w.i + 1
  BY DEF Passed
<1> HIDE DEF v
<1>2. v.i \in Nat \ {0} /\ v.i > k + 1
  BY <1>1
<1> QED BY <1>1, <1>2 DEF WalkGood, v

(* ... or completed: then the event it waited for was the only one. *)
LEMMA CompletedGood ==
    ASSUME NEW ready, NEW n \in Nat, NEW k \in Nat, NEW w, NEW t, DrGood(t),
           w.i \in 1 .. Len(t.list), Len(t.list) \in 0 .. n, w.i > k,
           OnePort => \A j \in Listed(t, "control") \ {w.i} : ~Waits(t, j)
    PROVE  WalkGood(Completed(w, t), ready, n, k + 1)
<1> DEFINE v == Completed(w, t)
           u == AnswerAt(t, w.i)
<1>1. DOMAIN v = {"t", "i"} /\ v.t = u /\ v.i = IF w.i = 1 THEN Len(t.list) + 1 ELSE w.i + 1
  BY DEF Completed, AnswerAt
<1> HIDE DEF v
<1>2. DrGood(u) /\ Len(u.list) = Len(t.list) - 1 /\ Len(t.list) \in Nat
  BY AnswerIs
<1>3. OnePort => \A j \in Listed(u, "control") : ~Waits(u, j)
  BY AnswerQuiet
<1> HIDE DEF u
<1>4. Len(u.list) \in 0 .. n
  BY <1>2
<1>5. v.i \in Nat \ {0} /\ (v.i > k + 1 \/ v.i > Len(u.list))
  BY <1>1, <1>2
<1> QED BY <1>1, <1>2, <1>3, <1>4, <1>5 DEF WalkGood, v

(* A piece is transferred, and its request completed with the last one.      *)
LEMMA TransferredGood ==
    ASSUME NEW ready, NEW n \in Nat, NEW k \in Nat, NEW w, WalkGood(w, ready, n, k),
           ~w.t.crashed, w.i \in 1 .. Len(w.t.list), w.i > k, ready # {},
           w.t.list[w.i].major \in {"read", "write"},
           NEW o \in FnsTransfer(w.t, w.t.list[w.i])
    PROVE  WalkGood(Transferred(w, o), ready, n, k + 1)
<1> DEFINE t == w.t
           r == t.list[w.i]
           partial == (r.partial + o.n) % Word
           q == [r EXCEPT !.partial = partial, !.offset = (@ + o.n) % Word]
           ends == TransferEnds(partial, r.length, o.n)
           torn == o.t.torn \/ (r.dev = "disk" /\ o.n = 1 /\ o.t.fd[r.fd].pos # r.offset + 1)
           late == o.t.late \/ (ends /\ r.major = "read" /\ EventWaits(t, r.fd))
           u == [o.t EXCEPT !.list[w.i] = q, !.torn = torn, !.late = late]
<1>1. DrGood(t) /\ Len(t.list) \in 0 .. n /\ w.i \in Nat \ {0}
  BY DEF WalkGood
<1>2. OnePort => \A j \in Listed(t, "control") : ~Waits(t, j)
  BY DEF WalkGood
<1>3. IsRequest(t, r)
  BY <1>1 DEF DrGood, DrListed
<1>4. Moves(t, r, o)
  BY <1>1, <1>3, TransferIs
<1>5. DOMAIN q = ReqFields /\ q.partial = partial
      /\ \A f \in ReqFields \ {"partial", "offset"} : q[f] = r[f]
  <2>1. DOMAIN r = ReqFields
    BY <1>3 DEF IsRequest
  <2> HIDE DEF r, partial
  <2> QED BY <2>1 DEF ReqFields
<1>6. partial \in 0 .. Word - 1
  <2> HIDE DEF t, r
  <2>1. r.partial \in 0 .. Word - 1
    BY <1>3, Zenon DEF IsRequest
  <2>2. o.n \in Nat
    BY <1>4, Zenon DEF Moves
  <2>3. r.partial + o.n \in Nat
    <3> DEFINE a == r.partial
               b == o.n
    <3>1. a \in 0 .. Word - 1 /\ b \in Nat
      BY <2>1, <2>2
    <3> HIDE DEF a, b
    <3>2. a + b \in Nat
      BY <3>1, RdpdrConstants
    <3> QED BY <3>2 DEF a, b
  <2> QED BY <2>3, RdpdrConstants DEF partial
<1>7. ~torn
  BY <1>1, <1>4 DEF Moves, Agree, DrFields, DrGood
<1>8. OnePort => ~late
  <2>1. OnePort => ~o.t.late
    BY <1>1, <1>4 DEF Moves, Agree, DrFields, DrGood
  <2>2. OnePort => ~EventWaits(t, r.fd)
    BY <1>2 DEF EventWaits, Waits
  <2> QED BY <2>1, <2>2
<1>9. Transferred(w, o) = IF ends THEN Completed(w, u) ELSE Passed(w, u)
  BY DEF Transferred
<1> HIDE DEF q, torn, late, ends
<1>10. /\ Agree(o.t, u, {"list", "torn", "late"}) /\ u.list = [o.t.list EXCEPT ![w.i] = q]
       /\ u.torn = torn /\ u.late = late
  BY <1>4 DEF Moves, Agree, DrFields
<1> HIDE DEF u
<1>11. q.partial \in 0 .. Word - 1 /\ ~u.torn /\ (OnePort => ~u.late)
  BY <1>5, <1>6, <1>7, <1>8, <1>10
<1> HIDE DEF partial
<1>12. /\ DrGood(u) /\ Len(u.list) = Len(t.list)
       /\ \A j \in Listed(u, "control") : j \in Listed(t, "control") /\ u.list[j].fd = t.list[j].fd
       /\ \A h : SerialGetEvent(u, h) => SerialGetEvent(t, h)
  <2>1. Moves(t, t.list[w.i], o) /\ w.i \in 1 .. Len(t.list)
    BY <1>4
  <2>2. \A f \in ReqFields \ {"partial", "offset"} : q[f] = t.list[w.i][f]
    BY <1>5
  <2>3. DOMAIN q = ReqFields
    BY <1>5
  <2>4. Moved(t, w.i, o, u)
    BY <1>10, <1>11, <2>1, <2>2, <2>3 DEF Moved
  <2> HIDE DEF r, t
  <2> QED BY <1>1, <1>11, <2>1, <2>4, MovedGood
<1>13. OnePort => \A j \in Listed(u, "control") : ~Waits(u, j)
  BY <1>2, <1>12 DEF Waits
<1>14. Len(u.list) \in 0 .. n /\ w.i \in 1 .. Len(u.list)
  BY <1>1, <1>12
<1>15. CASE ends
  <2>1. WalkGood(Completed(w, u), ready, n, k + 1)
    BY <1>12, <1>13, <1>14, CompletedGood
  <2> QED BY <1>9, <1>15, <2>1
<1>16. CASE ~ends
  <2>1. WalkGood(Passed(w, u), ready, n, k + 1)
    BY <1>1, <1>12, <1>13, <1>14, PassedGood
  <2> QED BY <1>9, <1>16, <2>1
<1> QED BY <1>15, <1>16

(* One step of a pass                                                        *)
LEMMA VisitGood ==
    ASSUME NEW ready, NEW n \in Nat, NEW k \in Nat, NEW w, WalkGood(w, ready, n, k),
           NEW v \in VisitIo(w, ready)
    PROVE  WalkGood(v, ready, n, k + 1)
<1> DEFINE t == w.t
           r == t.list[w.i]
<1>1. DrGood(t) /\ w.i \in Nat \ {0} /\ Len(t.list) \in 0 .. n /\ DOMAIN w = {"t", "i"}
  BY DEF WalkGood
<1>2. CASE t.crashed \/ w.i > Len(t.list)
  <2>1. v = w
    BY <1>2 DEF VisitIo
  <2>2. t.crashed \/ w.i > Len(t.list)
    BY <1>2
  <2>3. t.crashed \/ (OnePort => \A j \in Listed(t, "control") :
                                      Waits(t, j) => ready = {} /\ j >= w.i)
    BY DEF WalkGood
  <2> QED BY <1>1, <2>1, <2>2, <2>3 DEF WalkGood
<1>3. CASE ~t.crashed /\ ~(w.i > Len(t.list))
  <2>1. w.i \in 1 .. Len(t.list) /\ w.i > k
    BY <1>1, <1>3 DEF WalkGood
  <2>2. OnePort => \A j \in Listed(t, "control") : Waits(t, j) => ready = {} /\ j >= w.i
    BY <1>3 DEF WalkGood
  <2>3. DrListed(t) /\ DrTypes(t) /\ IsRequest(t, r)
    BY <1>1, <2>1 DEF DrGood, DrListed
  <2>4. \A j \in Listed(t, "control") : j \in 1 .. Len(t.list)
    BY DEF Listed
  <2>5. CASE r.major = "control" /\ Waits(t, w.i)
    <3>1. v = Completed(w, t)
      BY <1>3, <2>1, <2>5 DEF VisitIo, CheckEvent, Waits
    <3>2. ASSUME OnePort, NEW j \in Listed(t, "control") \ {w.i} PROVE FALSE
      <4>1. w.i \in Listed(t, "control")
        BY <2>1, <2>5 DEF Listed
      <4>2. IsRequest(t, t.list[j]) /\ t.list[j].major = "control"
        BY <2>3, <3>2 DEF DrListed, Listed
      <4>3. t.list[j].dev \in SerialPorts /\ r.dev \in SerialPorts
        BY <2>3, <2>5, <4>2 DEF IsRequest
      <4>4. t.list[j].dev = t.list[w.i].dev
        BY <3>2, <4>3 DEF OnePort
      <4>5. j = w.i
        BY <2>3, <3>2, <4>1, <4>4 DEF DrListed
      <4> QED BY <3>2, <4>5
    <3>3. OnePort => \A j \in Listed(t, "control") \ {w.i} : ~Waits(t, j)
      BY <3>2
    <3> QED BY <1>1, <2>1, <3>1, <3>3, CompletedGood
  <2>6. CASE v = Passed(w, t) /\ ~(w.i \in Listed(t, "control") /\ Waits(t, w.i))
    <3>1. OnePort => \A j \in Listed(t, "control") : Waits(t, j) => ready = {} /\ j >= w.i + 1
      BY <1>1, <2>2, <2>4, <2>6
    <3> QED BY <1>1, <2>1, <2>6, <3>1, PassedGood
  <2>7. CASE r.major = "control" /\ ~Waits(t, w.i)
    <3>1. v = Passed(w, t)
      BY <1>3, <2>1, <2>7 DEF VisitIo, CheckEvent, Waits
    <3> QED BY <2>6, <2>7, <3>1
  <2>8. CASE r.major # "control" /\ ~(r.major \in {"read", "write"} /\ r.fd \in ready)
    <3>1. v = Passed(w, t)
      BY <1>3, <2>1, <2>8 DEF VisitIo
    <3>2. w.i \notin Listed(t, "control")
      BY <2>8 DEF Listed
    <3> QED BY <2>6, <3>1, <3>2
  <2>9. CASE r.major \in {"read", "write"} /\ r.fd \in ready
    <3>1. v \in CheckTransfer(w)
      BY <1>3, <2>1, <2>9 DEF VisitIo
    <3>2. CASE v = [w EXCEPT !.t.crashed = TRUE]
      <4> DEFINE u == [t EXCEPT !.crashed = TRUE]
      <4>1. v = [w EXCEPT !.t = u]
        BY <3>2
      <4>2. Agree(t, u, {"stamp", "mask", "inq", "info", "handle", "epoch", "crashed"})
            /\ u.crashed = TRUE /\ DrTypes(u) /\ u.list = t.list
        BY <2>3 DEF DrTypes, Agree, DrFields
      <4> HIDE DEF u
      <4>3. DrGood(u)
        BY <1>1, <4>2, KeepsRest
      <4>4. DOMAIN v = {"t", "i"} /\ v.t = u /\ v.i = w.i
        BY <1>1, <4>1
      <4> QED BY <1>1, <4>2, <4>3, <4>4 DEF WalkGood
    <3>3. ASSUME NEW o \in FnsTransfer(t, r), v = Transferred(w, o)
          PROVE  WalkGood(v, ready, n, k + 1)
      BY <1>3, <2>1, <2>9, <3>3, TransferredGood
    <3> QED BY <3>1, <3>2, <3>3 DEF CheckTransfer
  <2> QED BY <2>5, <2>7, <2>8, <2>9
<1> QED BY <1>2, <1>3

(* f holds the states of a walk after each of its first n steps.             *)
Steps(s, ready) == UNION {VisitIo(w, ready) : w \in s}

IsWalk(f, t, ready, n) ==
    f = [k \in 0 .. n |-> IF k = 0 THEN {[t |-> t, i |-> 1]} ELSE Steps(f[k - 1], ready)]

(* There is such a function, for any number of steps. *)
LEMMA WalkExists ==
    ASSUME NEW t, NEW ready, NEW n \in Nat
    PROVE  \E f : IsWalk(f, t, ready, n)
<1> DEFINE S == {k \in Nat : \E f : IsWalk(f, t, ready, k)}
<1>1. 0 \in S
  <2> DEFINE f == [k \in 0 .. 0 |-> {[t |-> t, i |-> 1]}]
  <2>1. IsWalk(f, t, ready, 0)
    BY DEF IsWalk
  <2> QED BY <2>1
<1>2. ASSUME NEW m \in Nat, m \in S PROVE m + 1 \in S
  <2>1. PICK f : IsWalk(f, t, ready, m)
    BY <1>2
  <2> DEFINE g == [k \in 0 .. m + 1 |-> IF k = m + 1 THEN Steps(f[m], ready) ELSE f[k]]
  <2>2. \A k \in 0 .. m : f[k] = IF k = 0 THEN {[t |-> t, i |-> 1]} ELSE Steps(f[k - 1], ready)
    BY <2>1 DEF IsWalk
  <2>3. \A k \in 0 .. m : g[k] = f[k]
    OBVIOUS
  <2>4. g[m + 1] = Steps(f[m], ready)
    OBVIOUS
  <2>5. ASSUME NEW k \in 0 .. m + 1
        PROVE  g[k] = IF k = 0 THEN {[t |-> t, i |-> 1]} ELSE Steps(g[k - 1], ready)
    <3>1. CASE k = m + 1
      <4>1. k - 1 = m /\ m \in 0 .. m /\ k # 0
        BY <3>1
      <4>2. g[m] = f[m]
        BY <2>3, <4>1
      <4> HIDE DEF g
      <4> QED BY <2>4, <3>1, <4>1, <4>2
    <3>2. CASE k \in 0 .. m
      <4>1. k = 0 \/ k - 1 \in 0 .. m
        BY <3>2
      <4> HIDE DEF g
      <4> QED BY <2>2, <2>3, <3>2, <4>1
    <3> QED BY <3>1, <3>2
  <2>6. g = [k \in 0 .. m + 1 |-> g[k]]
    OBVIOUS
  <2> HIDE DEF g
  <2>7. IsWalk(g, t, ready, m + 1)
    BY <2>5, <2>6 DEF IsWalk
  <2> QED BY <2>7
<1> HIDE DEF S
<1>3. Nat \subseteq S
  BY <1>1, <1>2, Induct
<1> QED BY <1>3 DEF S

(* The states a pass may end in are those of a walk.                         *)
LEMMA CheckIoIs ==
    ASSUME NEW t, NEW ready, Len(t.list) \in Nat, NEW u \in CheckIo(t, ready)
    PROVE  \E f : IsWalk(f, t, ready, Len(t.list)) /\ \E w \in f[Len(t.list)] : u = w.t
<1> DEFINE n == Len(t.list)
    P(f) == f = [k \in 0 .. n |->
            IF k = 0 THEN {[t |-> t, i |-> 1]} ELSE UNION {VisitIo(w, ready) : w \in f[k - 1]}]
    g == CHOOSE f : P(f)
<1>1. CheckIo(t, ready) = {w.t : w \in g[n]}
  BY DEF CheckIo
<1>2. \A f : P(f) <=> IsWalk(f, t, ready, n)
  BY DEF IsWalk, Steps
<1>3. \E f : P(f)
  BY <1>2, WalkExists
<1>4. P(g)
  BY <1>3
<1> HIDE DEF P, g
<1>5. IsWalk(g, t, ready, n)
  BY <1>2, <1>4
<1>6. \E w \in g[n] : u = w.t
  BY <1>1
<1> QED BY <1>5, <1>6

(* No request waits for an event that has happened.                          *)
Quiet(t) == OnePort => \A j \in Listed(t, "control") : ~Waits(t, j)

(* A whole pass                                                              *)
LEMMA PassGood ==
    ASSUME NEW t, DrGood(t), NEW ready, ready = {} \/ t.crashed \/ Quiet(t),
           NEW u \in CheckIo(t, ready)
    PROVE  DrGood(u) /\ (u.crashed \/ Quiet(u))
<1> DEFINE n == Len(t.list)
<1>1. n \in Nat
  <2>1. IsSeq(t.list)
    BY DEF DrGood, DrListed
  <2> QED BY <2>1, IsSeqOf DEF IsSeq
<1>2. PICK f : IsWalk(f, t, ready, n) /\ \E w \in f[n] : u = w.t
  BY <1>1, CheckIoIs
<1> DEFINE Reached(k) == \A w \in f[k] : WalkGood(w, ready, n, k)
           S == {k \in Nat : k <= n => Reached(k)}
<1>3. \A k \in 0 .. n : f[k] = IF k = 0 THEN {[t |-> t, i |-> 1]} ELSE Steps(f[k - 1], ready)
  BY <1>2 DEF IsWalk
<1>4. Reached(0)
  <2> DEFINE w == [t |-> t, i |-> 1]
  <2>1. f[0] = {w}
    BY <1>1, <1>3
  <2>2. w.t = t /\ w.i = 1 /\ DOMAIN w = {"t", "i"}
    OBVIOUS
  <2> HIDE DEF w
  <2>3. t.crashed \/ (OnePort => \A j \in Listed(t, "control") : Waits(t, j) => ready = {} /\ j >= 1)
    BY DEF Quiet, Listed
  <2>4. Len(t.list) \in 0 .. n
    BY <1>1
  <2>5. WalkGood(w, ready, n, 0)
    BY <2>2, <2>3, <2>4 DEF WalkGood
  <2> QED BY <2>1, <2>5
<1>5. ASSUME NEW k \in Nat, k \in S PROVE k + 1 \in S
  <2> SUFFICES ASSUME k + 1 <= n, NEW v \in f[k + 1] PROVE WalkGood(v, ready, n, k + 1)
    OBVIOUS
  <2>1. k <= n /\ k + 1 \in 0 .. n /\ k + 1 # 0 /\ (k + 1) - 1 = k
    BY <1>1
  <2>2. Reached(k)
    BY <1>5, <2>1
  <2>3. v \in Steps(f[k], ready)
    BY <1>3, <2>1
  <2>4. PICK w \in f[k] : v \in VisitIo(w, ready)
    BY <2>3 DEF Steps
  <2>5. WalkGood(w, ready, n, k)
    BY <2>2, <2>4
  <2> QED BY <1>1, <2>4, <2>5, VisitGood
<1>6. 0 \in S
  BY <1>4
<1> HIDE DEF S
<1>7. Nat \subseteq S
  BY <1>5, <1>6, Induct
<1>8. Reached(n)
  BY <1>1, <1>7 DEF S
<1>9. PICK w \in f[n] : u = w.t
  BY <1>2
<1>10. WalkGood(w, ready, n, n)
  BY <1>8
<1> HIDE DEF Reached
<1>11. DrGood(u) /\ Len(u.list) \in 0 .. n /\ w.i \in Nat \ {0}
       /\ (u.crashed \/ w.i > n \/ w.i > Len(u.list))
       /\ (u.crashed \/ (OnePort => \A j \in Listed(u, "control") : Waits(u, j) => j >= w.i))
  BY <1>9, <1>10 DEF WalkGood
<1>12. ASSUME ~u.crashed, OnePort, NEW j \in Listed(u, "control"), Waits(u, j) PROVE FALSE
  <2>1. j \in 1 .. Len(u.list) /\ j >= w.i
    BY <1>11, <1>12 DEF Listed
  <2> HIDE DEF n
  <2> QED BY <1>1, <1>11, <1>12, <2>1
<1>13. u.crashed \/ Quiet(u)
  BY <1>12 DEF Quiet
<1> QED BY <1>11, <1>13

(* The notification of a changed directory makes no event.                   *)
LEMMA NotifyGood ==
    ASSUME NEW t, DrGood(t), t.crashed \/ Quiet(t), NEW u \in CheckNotify(t)
    PROVE  DrGood(u) /\ (u.crashed \/ Quiet(u))
<1> DEFINE watchers == Listed(t, "directory")
           seen == [t EXCEPT !.stamp = FALSE]
           first == Min(watchers)
<1>1. CASE u = t
  BY <1>1
<1>2. CASE watchers # {} /\ u \in {seen, RemoveIorequest(SendCompletion(seen, t.list[first].id), first)}
  <2> watchers \in SUBSET Nat
    BY DEF Listed
  <2>1. first \in watchers
    BY <1>2, MinIs
  <2>2. first \in 1 .. Len(t.list) /\ t.list[first].major = "directory"
    BY <2>1 DEF Listed
  <2> HIDE DEF first
  <2>3. /\ Agree(t, seen, {"stamp", "mask", "inq", "info", "handle", "epoch", "crashed"})
        /\ DrTypes(seen)
        /\ seen.list = t.list /\ seen.handle = t.handle /\ seen.mask = t.mask
        /\ seen.inq = t.inq /\ seen.crashed = t.crashed
    BY DEF DrGood, DrTypes, Agree, DrFields
  <2>4. u = seen \/ u = AnswerAt(seen, first)
    BY <1>2, <2>3 DEF AnswerAt
  <2> HIDE DEF seen
  <2>5. DrGood(seen)
    BY <2>3, KeepsRest
  <2>6. seen.crashed \/ Quiet(seen)
    BY <2>3 DEF Quiet, Waits, Listed, SerialGetEvent, DeviceIndex
  <2>7. CASE u = seen
    BY <2>5, <2>6, <2>7
  <2>8. CASE u = AnswerAt(seen, first)
    <3>1. first \in 1 .. Len(seen.list)
      BY <2>2, <2>3
    <3>2. DrGood(u) /\ Agree(seen, u, {"list", "answers"})
      BY <2>5, <2>8, <3>1, AnswerIs
    <3>3. u.crashed = seen.crashed
      BY <3>2 DEF Agree, DrFields
    <3>4. ASSUME OnePort, ~seen.crashed PROVE Quiet(u)
      <4>1. \A j \in Listed(seen, "control") \ {first} : ~Waits(seen, j)
        BY <2>6, <3>4 DEF Quiet
      <4>2. \A j \in Listed(AnswerAt(seen, first), "control") : ~Waits(AnswerAt(seen, first), j)
        BY <2>5, <3>1, <4>1, AnswerQuiet
      <4> QED BY <2>8, <4>2 DEF Quiet
    <3>5. ~OnePort => Quiet(u)
      BY DEF Quiet
    <3> QED BY <3>2, <3>3, <3>4, <3>5
  <2> QED BY <2>4, <2>7, <2>8
<1> QED BY <1>1, <1>2 DEF CheckNotify

(* The first pass answers the events that have happened; then bytes move.    *)
LEMMA EventsGood ==
    ASSUME NEW t, DrGood(t), NEW u \in CheckEvents(t)
    PROVE  DrGood(u) /\ (u.crashed \/ Quiet(u))
<1>1. PICK v \in CheckIo(t, {}) : u \in CheckNotify(v)
  BY DEF CheckEvents
<1>2. DrGood(v) /\ (v.crashed \/ Quiet(v))
  BY PassGood
<1> QED BY <1>1, <1>2, NotifyGood

(* Both passes, with the descriptors that are ready *)
LEMMA CheckFdsGood ==
    ASSUME NEW t, DrGood(t), NEW ready, NEW x \in CheckFds(t, ready)
    PROVE  DrGood(x)
<1>1. PICK u \in CheckEvents(t) : \E v \in CheckIo(u, ready) : x \in CheckNotify(v)
  BY DEF CheckFds
<1>2. DrGood(u) /\ (u.crashed \/ Quiet(u))
  BY EventsGood
<1>3. PICK v \in CheckIo(u, ready) : x \in CheckNotify(v)
  BY <1>1
<1>4. DrGood(v) /\ (v.crashed \/ Quiet(v))
  BY <1>2, PassGood
<1> QED BY <1>3, <1>4, NotifyGood

(* A timeout answers one request. *)
LEMMA TimeoutGood ==
    ASSUME NEW t, DrGood(t), NEW h
    PROVE  DrGood(CheckTimeout(t, h))
<1>1. CASE CheckTimeout(t, h) = AbortIo(t, h, DrMajors)
  BY <1>1, AbortIs
<1>2. CASE t.list # << >> /\ CheckTimeout(t, h) = RemoveIorequest(SendCompletion(t, Head(t.list).id), 1)
  <2>1. 1 \in 1 .. Len(t.list) /\ Head(t.list) = t.list[1]
    <3>1. t.list \in Seq({t.list[i] : i \in 1 .. Len(t.list)})
      BY DEF DrGood, DrListed, IsSeq
    <3> QED BY <1>2, <3>1
  <2>2. CheckTimeout(t, h) = AnswerAt(t, 1)
    BY <1>2, <2>1 DEF AnswerAt
  <2> QED BY <2>1, <2>2, AnswerIs
<1> QED BY <1>1, <1>2 DEF CheckTimeout

-----------------------------------------------------------------------------
(* The server opens and closes a device. *)
LEMMA OpeningKeeps ==
    ASSUME DrGood(dr), NEW d \in Redirected, IrpCreate(d) \/ IrpClose(d)
    PROVE  DrGood(dr')
<1>1. CASE IrpCreate(d)
  <2>1. FreeFds(dr) # {} /\ dr' \in FnsCreate(dr, d)
    BY <1>1 DEF IrpCreate
  <2> QED BY <2>1, CreatesGood
<1>2. CASE IrpClose(d)
  <2>1. PICK h \in DrHandles(d) : \E u \in FnsClose(dr, d, h) : dr' = Crowds(dr, h, u)
    BY <1>2 DEF IrpClose, Crowds
  <2>2. PICK u \in FnsClose(dr, d, h) : dr' = Crowds(dr, h, u)
    BY <2>1
  <2>3. h \in Fds /\ dr.fd[h].dev = d
    BY DEF DrHandles
  <2> QED BY <2>2, <2>3, ClosesGood
<1> QED BY <1>1, <1>2

(* A read or a write is put in the table, or answered at once. *)
LEMMA MovingKeeps ==
    ASSUME DrGood(dr), NEW d \in Redirected, IrpRead(d) \/ IrpWrite(d)
    PROVE  DrGood(dr')
<1>1. dr.issued < MaxRequests
  BY DEF IrpRead, IrpWrite, MayIssue
<1>2. PICK h \in DrHandles(d) :
          \/ dr' = Answered(dr)
          \/ d # "printer" /\ \E major \in {"read", "write"} : \E offset, timeouts :
                 dr' = Pending(dr, d, h, major, RequestLength, offset, timeouts)
  <2>1. CASE IrpRead(d)
    BY <2>1 DEF IrpRead
  <2>2. CASE IrpWrite(d)
    BY <2>2 DEF IrpWrite
  <2> QED BY <2>1, <2>2
<1>3. h \in Fds /\ dr.fd[h].dev = d
  BY DEF DrHandles
<1>4. CASE dr' = Answered(dr)
  BY <1>1, <1>4, AnsweredIs
<1>5. ASSUME d # "printer", NEW major \in {"read", "write"}, NEW offset, NEW timeouts,
             dr' = Pending(dr, d, h, major, RequestLength, offset, timeouts)
      PROVE  DrGood(dr')
  <2>1. major \in DrMajors /\ major # "control" /\ d \in Redirected \ {"printer"}
    BY <1>5 DEF DrMajors
  <2> QED BY <1>1, <1>3, <1>5, <2>1, PendingIs
<1> QED BY <1>2, <1>4, <1>5

(* A port has one wait for an event. *)
LEMMA WaitingKeeps ==
    ASSUME DrGood(dr), NEW p \in SerialPorts, IrpWaitOnMask(p)
    PROVE  DrGood(dr')
<1>1. /\ dr.issued < MaxRequests
      /\ \A i \in Listed(dr, "control") : dr.list[i].dev # p
  BY DEF IrpWaitOnMask, MayIssue, Listed
<1>2. PICK h \in DrHandles(p) :
          dr' = Answered(dr) \/ dr' = Pending(dr, p, h, "control", 0, 0, <<0, 0>>)
  BY DEF IrpWaitOnMask
<1>3. h \in Fds /\ dr.fd[h].dev = p
  BY DEF DrHandles
<1>4. p \in Redirected \ {"printer"} /\ "control" \in DrMajors
  BY RdpdrConstants DEF Redirected, Ports, DrMajors
<1>5. DrGood(Answered(dr))
  BY <1>1, AnsweredIs
<1>6. DrGood(Pending(dr, p, h, "control", 0, 0, <<0, 0>>))
  BY <1>1, <1>3, <1>4, PendingIs
<1> QED BY <1>2, <1>5, <1>6

(* A directory is watched, or the request refused. *)
LEMMA NotifyKeeps ==
    ASSUME DrGood(dr), IrpNotify
    PROVE  DrGood(dr')
<1>1. dr.issued < MaxRequests
  BY DEF IrpNotify, MayIssue
<1>2. PICK h \in DrHandles("disk") :
          dr' \in {Pending(dr, "disk", h, "directory", 0, 0, <<0, 0>>), Answered(dr)}
  BY DEF IrpNotify
<1>3. h \in Fds /\ dr.fd[h].dev = "disk"
  BY DEF DrHandles
<1>4. "disk" \in Redirected \ {"printer"} /\ "directory" \in DrMajors /\ "directory" # "control"
  BY DEF Redirected, DrMajors
<1>5. DrGood(Answered(dr))
  BY <1>1, AnsweredIs
<1>6. DrGood(Pending(dr, "disk", h, "directory", 0, 0, <<0, 0>>))
  BY <1>1, <1>3, <1>4, PendingIs
<1> QED BY <1>2, <1>5, <1>6

(* A purge answers a write, a read, or both. *)
LEMMA PurgeKeeps ==
    ASSUME DrGood(dr), NEW p \in SerialPorts, IrpPurge(p)
    PROVE  DrGood(dr')
<1>1. PICK h \in DrHandles(p), tx \in BOOLEAN, rx \in BOOLEAN, clear \in BOOLEAN :
          LET aborted == IF tx THEN AbortIo(dr, h, {"write"}) ELSE dr
              both == IF rx THEN AbortIo(aborted, h, {"read"}) ELSE aborted
          IN dr' = IF clear THEN [both EXCEPT !.inq[p] = 0] ELSE both
  BY DEF IrpPurge
<1> DEFINE aborted == IF tx THEN AbortIo(dr, h, {"write"}) ELSE dr
           both == IF rx THEN AbortIo(aborted, h, {"read"}) ELSE aborted
<1>2. dr' = IF clear THEN [both EXCEPT !.inq[p] = 0] ELSE both
  BY <1>1
<1>3. DrGood(aborted)
  BY AbortIs
<1> HIDE DEF aborted
<1>4. DrGood(both)
  BY <1>3, AbortIs
<1> HIDE DEF both
<1>5. CASE clear
  <2> DEFINE u == [both EXCEPT !.inq[p] = 0]
  <2>1. Agree(both, u, {"inq"}) /\ u.inq = [both.inq EXCEPT ![p] = 0]
    BY <1>4 DEF DrGood, DrTypes, Agree, DrFields
  <2>2. dr' = u
    BY <1>2, <1>5
  <2> HIDE DEF u
  <2>3. DrTypes(u)
    BY <1>4, <2>1 DEF DrGood, DrTypes, Agree, DrFields
  <2>4. Agree(both, u, {"stamp", "mask", "inq", "info", "handle", "epoch", "crashed"})
    BY <2>1 DEF Agree
  <2>5. DrGood(u)
    BY <1>4, <2>3, <2>4, KeepsRest
  <2> QED BY <2>2, <2>5
<1>6. CASE ~clear
  BY <1>2, <1>4, <1>6
<1> QED BY <1>5, <1>6

(* What only changes a port's settings, the stamp or the epoch *)
LEMMA RestKeeps ==
    ASSUME DrGood(dr),
           \/ \E p \in SerialPorts : IrpSetWaitMask(p) \/ CharReceived(p)
           \/ IrpSetInformation \/ ServerAnnounce
    PROVE  DrGood(dr')
<1> DEFINE u == dr'
<1>1. DrTypes(dr) /\ DOMAIN dr = DrFields
  BY DEF DrGood, DrTypes
<1>2. ASSUME NEW p \in SerialPorts, IrpSetWaitMask(p) PROVE DrGood(u)
  <2>1. PICK on \in BOOLEAN : dr' = [dr EXCEPT !.mask[p] = on]
    BY <1>2 DEF IrpSetWaitMask
  <2>2. Agree(dr, u, {"mask"}) /\ u.mask = [dr.mask EXCEPT ![p] = on]
    BY <1>1, <2>1 DEF Agree, DrFields
  <2> HIDE DEF u
  <2>3. DrTypes(u)
    BY <1>1, <2>2 DEF DrTypes, Agree, DrFields
  <2>4. Agree(dr, u, {"stamp", "mask", "inq", "info", "handle", "epoch", "crashed"})
    BY <2>2 DEF Agree
  <2> QED BY <2>3, <2>4, KeepsRest
<1>3. ASSUME NEW p \in SerialPorts, CharReceived(p) PROVE DrGood(u)
  <2>1. Agree(dr, u, {"inq"}) /\ u.inq = [dr.inq EXCEPT ![p] = 1]
    BY <1>1, <1>3 DEF CharReceived, Agree, DrFields
  <2> HIDE DEF u
  <2>2. DrTypes(u)
    BY <1>1, <2>1 DEF DrTypes, Agree, DrFields
  <2>3. Agree(dr, u, {"stamp", "mask", "inq", "info", "handle", "epoch", "crashed"})
    BY <2>1 DEF Agree
  <2> QED BY <2>2, <2>3, KeepsRest
<1>4. ASSUME IrpSetInformation PROVE DrGood(u)
  <2>1. Agree(dr, u, {"stamp"})
    BY <1>1, <1>4 DEF IrpSetInformation, Agree, DrFields
  <2> HIDE DEF u
  <2>2. DrTypes(u)
    BY <1>1, <2>1 DEF DrTypes, Agree, DrFields
  <2>3. Agree(dr, u, {"stamp", "mask", "inq", "info", "handle", "epoch", "crashed"})
    BY <2>1 DEF Agree
  <2> QED BY <2>2, <2>3, KeepsRest
<1>5. ASSUME ServerAnnounce PROVE DrGood(u)
  <2>1. Agree(dr, u, {"epoch"}) /\ u.epoch = dr.epoch + 1 /\ dr.epoch <= MaxAnnounces
    BY <1>1, <1>5 DEF ServerAnnounce, Agree, DrFields
  <2> HIDE DEF u
  <2>2. u.epoch \in 1 .. MaxAnnounces + 1
    BY <1>1, <2>1, RdpdrConstants DEF DrTypes
  <2>3. DrTypes(u)
    BY <1>1, <2>1, <2>2 DEF DrTypes, Agree, DrFields
  <2>4. Agree(dr, u, {"stamp", "mask", "inq", "info", "handle", "epoch", "crashed"})
    BY <2>1 DEF Agree
  <2> QED BY <2>3, <2>4, KeepsRest
<1> QED BY <1>2, <1>3, <1>4, <1>5

(* Every step of rdpdr.c, and every byte that arrives, keeps the table good. *)
LEMMA DrStep == DrGood(dr) /\ [RdpdrNext]_rdpdrVars => DrGood(dr')
<1> SUFFICES ASSUME DrGood(dr), [RdpdrNext]_rdpdrVars PROVE DrGood(dr')
  OBVIOUS
<1>1. CASE UNCHANGED rdpdrVars
  <2>1. dr' = dr
    BY <1>1 DEF rdpdrVars
  <2> QED BY <2>1
<1>2. ASSUME NEW d \in Redirected, IrpCreate(d) \/ IrpClose(d) PROVE DrGood(dr')
  BY <1>2, OpeningKeeps
<1>3. ASSUME NEW d \in Redirected, IrpRead(d) \/ IrpWrite(d) PROVE DrGood(dr')
  BY <1>3, MovingKeeps
<1>4. ASSUME NEW p \in SerialPorts, IrpWaitOnMask(p) PROVE DrGood(dr')
  BY <1>4, WaitingKeeps
<1>5. ASSUME NEW p \in SerialPorts, IrpPurge(p) PROVE DrGood(dr')
  BY <1>5, PurgeKeeps
<1>6. CASE IrpNotify
  BY <1>6, NotifyKeeps
<1>7. CASE \/ \E p \in SerialPorts : IrpSetWaitMask(p) \/ CharReceived(p)
           \/ IrpSetInformation \/ ServerAnnounce
  BY <1>7, RestKeeps
<1>8. CASE SelectReady
  <2>1. PICK more \in SUBSET (Selected \ AlwaysReady) : dr' \in CheckFds(dr, AlwaysReady \cup more)
    BY <1>8 DEF SelectReady
  <2> QED BY <2>1, CheckFdsGood
<1>9. CASE SelectNothing
  <2>1. CASE dr' \in CheckFds(dr, {})
    BY <2>1, CheckFdsGood
  <2>2. ASSUME NEW i \in TimedReads, NEW t \in CheckEvents(dr),
               dr' = CheckTimeout(t, dr.list[i].fd)
        PROVE  DrGood(dr')
    <3>1. DrGood(t)
      BY EventsGood
    <3> QED BY <2>2, <3>1, TimeoutGood
  <2> QED BY <1>9, <2>1, <2>2 DEF SelectNothing
<1> QED BY <1>1, <1>2, <1>3, <1>4, <1>5, <1>6, <1>7, <1>8, <1>9 DEF RdpdrNext

-----------------------------------------------------------------------------
(* Devices together *)

DevicesInv == DskInv /\ NamedInv /\ SerInv /\ PcInv /\ DrGood(dr)

(* A step of a device component leaves the other components as they are.     *)
LEMMA OneDevice ==
    [Next]_allVars => /\ [DiskNext]_diskVars /\ [SerialNext]_serialVars
                      /\ [PcNext]_pcacheVars /\ [RdpdrNext]_rdpdrVars
BY Zenon DEF Next, allVars

(* The invariant holds of every behaviour.                                   *)
LEMMA DevicesInvariant == Spec => []DevicesInv
<1>1. Init => DevicesInv
  BY DskInit, SerInit, PcInitInv, DrInitGood DEF Init, DevicesInv
<1>2. DevicesInv /\ [Next]_allVars => DevicesInv'
  <2>1. DrGood(dr) /\ [RdpdrNext]_rdpdrVars => DrGood(dr)'
    BY DrStep
  <2> QED BY OneDevice, DskStep, NamedStep, SerStep, PcStep, <2>1 DEF DevicesInv
<1> QED BY <1>1, <1>2, PTL DEF Spec

(* disk.c removes, when a handle is closed, only what was scheduled on this  *)
(* open, and the file that was opened unless the entry of its name changed   *)
(* meanwhile; a directory query gives every matching entry that stays; the   *)
(* settings of a serial port that termios can hold read back as they were    *)
(* set, and others as one stop bit, no parity and 8 bits (serial.c): for any *)
(* number of handles, names and patterns, with other processes at work in    *)
(* the directory, and whatever the port was set to before.                   *)
THEOREM DevicesKeepFiles == Spec => []FilesAreKept
<1>1. DevicesInv => FilesAreKept
  BY DskInvGives, SerInvGives DEF DevicesInv, FilesAreKept
<1> QED BY <1>1, DevicesInvariant, PTL

(* printercache.c keeps and announces whole blobs: for any number of         *)
(* processes, printers, saves and crashes, what is not whole on disk is a    *)
(* file that two processes were to write at once since it was last emptied,  *)
(* or one cut short by a full disk, and what is announced is whole unless    *)
(* it is one of those or was saved anew between fstat and read.              *)
THEOREM PrintersKeepBlobs == Spec => []BlobsAreKept
<1>1. DevicesInv => BlobsAreKept
  BY PcInvGives DEF DevicesInv, BlobsAreKept
<1> QED BY <1>1, DevicesInvariant, PTL

(* rdpdr.c answers every request of the server once, from the file it was    *)
(* made on and with its own bytes, and with one serial port a read only      *)
(* after the events that were waited for: for any number of requests, files, *)
(* descriptors and announces, whatever select reports.                       *)
THEOREM RequestsAreAnswered == Spec => []RequestsAnswered
<1>1. DevicesInv => RequestsAnswered
  BY DrGoodGives DEF DevicesInv
<1> QED BY <1>1, DevicesInvariant, PTL
=============================================================================
