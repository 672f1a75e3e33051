------------------------------- MODULE Rdpdr -------------------------------
(***************************************************************************)
(* Device redirection (rdpdr.c) over its devices (serial.c, parallel.c,    *)
(* printer.c, disk.c): the server's I/O requests, the table of pending     *)
(* ones, and the passes the main loop makes over that table around         *)
(* select().  A descriptor is reused as soon as it is closed; `file` is    *)
(* the number of the open() that made it and tells its uses apart.         *)
(***************************************************************************)
EXTENDS Naturals, Sequences, SequencesExt, FiniteSetsExt

CONSTANTS
    SerialPorts,    \* the redirected serial ports
    Fds,            \* file descriptors open() may return
    MaxOpens,       \* files opened (bound)
    MaxRequests,    \* I/O requests of the server (bound)
    MaxAnnounces,   \* SERVER_ANNOUNCE packets after the first (bound)
    FileSize,       \* length of the redirected file
    RequestLength,  \* pieces of 8192 bytes a read or write asks for
    Word            \* number of values of a uint32

ASSUME RdpdrConstants ==
    /\ Fds \subseteq Nat \ {0} /\ Fds # {} /\ Word \in Nat \ {0}
    /\ MaxOpens \in Nat /\ MaxRequests \in Nat /\ MaxAnnounces \in Nat /\ FileSize \in Nat
    /\ RequestLength \in 1 .. Word - 2
    /\ SerialPorts \cap {"none", "parallel", "printer", "disk"} = {}

Ports == SerialPorts \cup {"parallel", "printer"}
Redirected == Ports \cup {"disk"}
DrIds == 1 .. MaxRequests
ClosedFd == [dev |-> "none", file |-> 0, pos |-> 0, epoch |-> 0]

VARIABLE
    dr          \* descriptors, device handles, g_fileinfo, g_iorequest, g_epoch, the lines

rdpdrVars == dr

RdpdrTypeOK ==
    /\ dr.handle \in [Ports -> Fds \cup {0}]
    /\ dr.answers \in [DrIds -> Nat] /\ dr.issued \in 0 .. MaxRequests
    /\ \A i \in 1 .. Len(dr.list) :
           dr.list[i].fd \in Fds /\ dr.list[i].partial \in 0 .. Word - 1
    /\ dr.epoch \in 1 .. MaxAnnounces + 1

(* crowded, late and torn record what happened, for the properties. *)
RdpdrInit ==
    dr = [fd |-> [h \in Fds |-> ClosedFd], handle |-> [p \in Ports |-> 0],
          info |-> [h \in Fds |-> "none"], list |-> << >>,
          answers |-> [id \in DrIds |-> 0], issued |-> 0, opens |-> 0, epoch |-> 1,
          inq |-> [p \in SerialPorts |-> 0], mask |-> [p \in SerialPorts |-> FALSE],
          stamp |-> FALSE, crashed |-> FALSE,
          crowded |-> {}, late |-> FALSE, torn |-> FALSE]

-----------------------------------------------------------------------------
(* The table of pending requests *)

SendCompletion(t, id) == [t EXCEPT !.answers[id] = @ + 1]

(* get_device_index, get_serial_info and get_printer_data *)
DeviceIndex(t, h) == {p \in Ports : t.handle[p] = h}

HandleOk(t, d, h) == IF d \in Ports THEN t.handle[d] = h ELSE t.info[h] = d

AddAsyncIorequest(t, r) == [t EXCEPT !.list = Append(@, r)]

(* Mutant: what follows the head is lost with it. *)
RemoveIorequest_Head(t, i) ==
    [t EXCEPT !.list = IF i = 1 THEN << >> ELSE RemoveAt(@, i)]

RemoveIorequest(t, i) == [t EXCEPT !.list = RemoveAt(@, i)]

(* Only the first request that fits is aborted. *)
AbortIo(t, h, majors) ==
    LET fits == {i \in 1 .. Len(t.list) : t.list[i].fd = h /\ t.list[i].major \in majors}
    IN IF fits = {} THEN t
       ELSE RemoveIorequest(SendCompletion(t, t.list[Min(fits)].id), Min(fits))

DrMajors == {"read", "write", "control", "directory"}

-----------------------------------------------------------------------------
(* Devices: open and close.  open() returns the lowest free descriptor. *)

FreeFds(t) == {h \in Fds : t.fd[h] = ClosedFd}

Opened(t, d) ==
    LET h == Min(FreeFds(t))
    IN [t EXCEPT !.opens = @ + 1,
                 !.fd[h] = [dev |-> d, file |-> t.opens + 1, pos |-> 0, epoch |-> t.epoch]]

OpenedAs(t, d) == [Opened(t, d) EXCEPT !.handle[d] = Min(FreeFds(t))]

(* A port whose settings cannot be read stays open, without a handle. *)
SerialCreate(t, d) == {OpenedAs(t, d), [Opened(t, d) EXCEPT !.fd[Min(FreeFds(t))].epoch = 0], t}

ParallelCreate(t) == {OpenedAs(t, "parallel"), t}

PrinterCreate(t) == {OpenedAs(t, "printer")}

DiskCreate(t) ==
    LET opened == [Opened(t, "disk") EXCEPT !.info[Min(FreeFds(t))] = "disk"]
    IN {t, opened, [opened EXCEPT !.stamp = TRUE]}

FnsCreate(t, d) ==
    CASE d \in SerialPorts -> SerialCreate(t, d)
      [] d = "parallel" -> ParallelCreate(t)
      [] d = "printer" -> PrinterCreate(t)
      [] d = "disk" -> DiskCreate(t)

ClosedIn(t, h) == [t EXCEPT !.fd[h] = ClosedFd]
HandleReset(t, h) ==
    [t EXCEPT !.handle = [p \in Ports |-> IF @[p] = h THEN 0 ELSE @[p]]]

SerialClose(t, h) == ClosedIn(AbortIo(HandleReset(t, h), h, DrMajors), h)

ParallelClose(t, h) == ClosedIn(HandleReset(t, h), h)

PrinterClose(t, h) ==
    IF DeviceIndex(t, h) = {} THEN t ELSE ClosedIn(HandleReset(t, h), h)

DiskClose(t, h) ==
    {ClosedIn(AbortIo([t EXCEPT !.stamp = s], h, DrMajors), h) : s \in {TRUE, t.stamp}}

FnsClose(t, d, h) ==
    CASE d \in SerialPorts -> {SerialClose(t, h)}
      [] d = "parallel" -> {ParallelClose(t, h)}
      [] d = "printer" -> {PrinterClose(t, h)}
      [] d = "disk" -> DiskClose(t, h)

-----------------------------------------------------------------------------
(* Devices: reading and writing one piece.  The outcomes are [n, t] with n *)
(* the result: bytes moved, or Word - 1 where the C code stores -1.        *)

Failure == Word - 1

SerialRead(t, h) ==
    LET ports == DeviceIndex(t, h) \cap SerialPorts
    IN {[n |-> 1, t |-> [t EXCEPT !.inq[p] = @ - 1]] : p \in {q \in ports : t.inq[q] > 0}}
       \cup {[n |-> Failure, t |-> t]}

SerialWrite(t) == {[n |-> 1, t |-> t], [n |-> Failure, t |-> t]}

ParallelRead(t) == {[n |-> n, t |-> t] : n \in {0, 1, Failure}}

(* The 0 stored for a failed write is overwritten with its -1. *)
ParallelWrite(t) == {[n |-> 1, t |-> t], [n |-> Failure, t |-> t]}

At(t, h, pos) == [t EXCEPT !.fd[h].pos = pos]

(* lseek in disk_read and disk_write *)
Seek(t, h, offset) == offset

DiskRead(t, h, offset) ==
    LET pos == Seek(t, h, offset)
    IN {[n |-> 0, t |-> t],
        IF pos < FileSize THEN [n |-> 1, t |-> At(t, h, pos + 1)] ELSE [n |-> 0, t |-> t]}

DiskWrite(t, h, offset) ==
    {[n |-> 0, t |-> t], [n |-> 1, t |-> At(t, h, Seek(t, h, offset) + 1)]}

FnsTransfer(t, r) ==
    IF t.fd[r.fd] = ClosedFd THEN {[n |-> IF r.dev = "disk" THEN 0 ELSE Failure, t |-> t]}
    ELSE IF r.partial > r.length THEN {[n |-> Failure, t |-> t]}
    ELSE CASE r.dev \in SerialPorts /\ r.major = "read" -> SerialRead(t, r.fd)
           [] r.dev \in SerialPorts /\ r.major = "write" -> SerialWrite(t)
           [] r.dev = "parallel" /\ r.major = "read" -> ParallelRead(t)
           [] r.dev = "parallel" /\ r.major = "write" -> ParallelWrite(t)
           [] r.dev = "disk" /\ r.major = "read" -> DiskRead(t, r.fd, r.offset)
           [] r.dev = "disk" /\ r.major = "write" -> DiskWrite(t, r.fd, r.offset)

(* serial_get_event, for the arrival of characters *)
SerialGetEvent(t, h) == \E p \in DeviceIndex(t, h) \cap SerialPorts : t.mask[p] /\ t.inq[p] > 0

-----------------------------------------------------------------------------
(* rdpdr_process_irp: the server knows the handles it opened since the     *)
(* last SERVER_ANNOUNCE and uses no other.                                 *)

DrHandles(d) == {h \in Fds : dr.fd[h].dev = d /\ dr.fd[h].epoch = dr.epoch}
Answered(t) == SendCompletion([t EXCEPT !.issued = @ + 1], t.issued + 1)

Pending(t, d, h, major, length, offset, timeouts) ==
    AddAsyncIorequest([t EXCEPT !.issued = @ + 1],
        [id |-> t.issued + 1, dev |-> d, fd |-> h, major |-> major, length |-> length,
         partial |-> 0, offset |-> offset, timeout |-> timeouts[1], itv |-> timeouts[2],
         file |-> t.fd[h].file])

MayIssue == ~dr.crashed /\ dr.issued < MaxRequests

(* A port is opened once at a time. *)
IrpCreate(d) ==
    /\ ~dr.crashed /\ dr.opens < MaxOpens /\ FreeFds(dr) # {}
    /\ d \in Ports => DrHandles(d) = {}
    /\ dr' \in FnsCreate(dr, d)

IrpClose(d) ==
    /\ ~dr.crashed
    /\ \E h \in DrHandles(d) : \E t \in FnsClose(dr, d, h) :
           dr' = IF Cardinality({i \in 1 .. Len(dr.list) : dr.list[i].fd = h}) > 1
                 THEN [t EXCEPT !.crowded = @ \cup {dr.fd[h].file}] ELSE t

(* The total and the interval timeout; serial_get_timeout sets none for the *)
(* other devices, whose timeout is whatever the variable held.              *)
ReadTimeouts(d) == IF d \in SerialPorts THEN {<<0, 0>>, <<0, 1>>, <<1, 0>>} ELSE {<<0, 0>>, <<1, 0>>}

(* A printer has no read; it is answered at once, like a bad handle. *)
IrpRead(d) ==
    /\ MayIssue
    /\ \E h \in DrHandles(d), timeouts \in ReadTimeouts(d) :
           dr' = IF d # "printer" /\ HandleOk(dr, d, h)
                 THEN Pending(dr, d, h, "read", RequestLength, 0, timeouts)
                 ELSE Answered(dr)

(* A printer is written to at once. *)
IrpWrite(d) ==
    /\ MayIssue
    /\ \E h \in DrHandles(d) :
           dr' = IF d # "printer" /\ HandleOk(dr, d, h)
                 THEN Pending(dr, d, h, "write", RequestLength, 1, <<0, 0>>)
                 ELSE Answered(dr)

(* SERIAL_WAIT_ON_MASK, of which a port has one at a time *)
IrpWaitOnMask(d) ==
    /\ MayIssue /\ ~\E i \in 1 .. Len(dr.list) : dr.list[i].major = "control" /\ dr.list[i].dev = d
    /\ \E h \in DrHandles(d) :
           dr' = IF SerialGetEvent(dr, h) THEN Answered(dr)
                 ELSE Pending(dr, d, h, "control", 0, 0, <<0, 0>>)

IrpSetWaitMask(d) ==
    /\ ~dr.crashed /\ DrHandles(d) # {}
    /\ \E on \in BOOLEAN : dr' = [dr EXCEPT !.mask[d] = on]

(* SERIAL_PURGE: the write is aborted first. *)
IrpPurge(d) ==
    /\ ~dr.crashed
    /\ \E h \in DrHandles(d), tx \in BOOLEAN, rx \in BOOLEAN, clear \in BOOLEAN :
           LET aborted == IF tx THEN AbortIo(dr, h, {"write"}) ELSE dr
               both == IF rx THEN AbortIo(aborted, h, {"read"}) ELSE aborted
           IN dr' = IF clear THEN [both EXCEPT !.inq[d] = 0] ELSE both

(* IRP_MN_NOTIFY_CHANGE_DIRECTORY, or an error of NotifyInfo *)
IrpNotify ==
    /\ MayIssue
    /\ \E h \in DrHandles("disk") :
           dr' \in {Pending(dr, "disk", h, "directory", 0, 0, <<0, 0>>), Answered(dr)}

(* Of the queries and settings of a disk, disk_set_information: *)
IrpSetInformation ==
    /\ ~dr.crashed /\ DrHandles("disk") # {}
    /\ dr' = [dr EXCEPT !.stamp = TRUE]

(* PAKID_CORE_SERVER_ANNOUNCE: the pending requests stay. *)
ServerAnnounce ==
    /\ ~dr.crashed /\ dr.epoch <= MaxAnnounces
    /\ dr' = [dr EXCEPT !.epoch = @ + 1]

-----------------------------------------------------------------------------
(* The main loop: rdpdr_add_fds, select, rdpdr_check_fds.  A walk over the *)
(* table goes through states [t, i], request i being next.                 *)

Listed(t, major) == {i \in 1 .. Len(t.list) : t.list[i].major = major}
IsOpen(t, i) == t.fd[t.list[i].fd] # ClosedFd

Passed(w, t) == [t |-> t, i |-> w.i + 1]

(* A completed head ends the walk; any other makes it pass over the next.  *)
Completed(w, t) ==
    LET left == RemoveIorequest(SendCompletion(t, t.list[w.i].id), w.i)
    IN [t |-> left, i |-> IF w.i = 1 THEN Len(t.list) + 1 ELSE w.i + 1]

(* Does a request wait for an event that has happened on h? *)
EventWaits(t, h) == \E i \in Listed(t, "control") : t.list[i].fd = h /\ SerialGetEvent(t, h)

TransferEnds(partial, length, n) == partial = length \/ n = 0

Transferred(w, o) ==
    LET r == w.t.list[w.i]
        partial == (r.partial + o.n) % Word
        ends == TransferEnds(partial, r.length, o.n)
        moved == [o.t EXCEPT
            !.list[w.i] = [r EXCEPT !.partial = partial, !.offset = (@ + o.n) % Word],
            !.torn = @ \/ (r.dev = "disk" /\ o.n = 1 /\ o.t.fd[r.fd].pos # r.offset + 1),
            !.late = @ \/ (ends /\ r.major = "read" /\ EventWaits(w.t, r.fd))]
    IN IF ends THEN Completed(w, moved) ELSE Passed(w, moved)

(* A serial read or write without a device for its descriptor follows a null pointer. *)
CheckTransfer(w) ==
    LET r == w.t.list[w.i]
    IN IF r.dev \in SerialPorts /\ DeviceIndex(w.t, r.fd) = {}
       THEN {[w EXCEPT !.t.crashed = TRUE]}
       ELSE {Transferred(w, o) : o \in FnsTransfer(w.t, r)}

CheckEvent(w) ==
    {IF SerialGetEvent(w.t, w.t.list[w.i].fd) THEN Completed(w, w.t) ELSE Passed(w, w.t)}

VisitIo(w, ready) ==
    LET major == w.t.list[w.i].major
    IN IF w.t.crashed \/ w.i > Len(w.t.list) THEN {w}
       ELSE IF major = "control" THEN CheckEvent(w)
       ELSE IF major \in {"read", "write"} /\ w.t.list[w.i].fd \in ready THEN CheckTransfer(w)
       ELSE {Passed(w, w.t)}

CheckIo(t, ready) ==
    LET walk[k \in 0 .. Len(t.list)] ==
            IF k = 0 THEN {[t |-> t, i |-> 1]}
            ELSE UNION {VisitIo(w, ready) : w \in walk[k - 1]}
    IN {w.t : w \in walk[Len(t.list)]}

(* The first watcher clears g_notify_stamp, whether it saw a change or not. *)
CheckNotify(t) ==
    LET watchers == Listed(t, "directory")
        seen == [t EXCEPT !.stamp = FALSE]
        first == Min(watchers)
    IN IF t.crashed \/ ~t.stamp \/ watchers = {} THEN {t}
       ELSE {seen, RemoveIorequest(SendCompletion(seen, t.list[first].id), first)}

(* timed_out: only the head is looked at for characters already read. *)
CheckTimeout(t, h) ==
    IF /\ t.list # << >> /\ Head(t.list).fd = h
       /\ Head(t.list).partial > 0 /\ Head(t.list).dev \in SerialPorts
    THEN RemoveIorequest(SendCompletion(t, Head(t.list).id), 1)
    ELSE AbortIo(t, h, DrMajors)

(* The first pass, with empty descriptor sets *)
CheckEvents(t) == UNION {CheckNotify(u) : u \in CheckIo(t, {})}

CheckFds(t, ready) ==
    UNION {UNION {CheckNotify(v) : v \in CheckIo(u, ready)} : u \in CheckEvents(t)}

(* The reads that set a timeout for select, and the descriptors given to it. *)
TimedReads ==
    {i \in Listed(dr, "read") :
        dr.list[i].timeout > 0 \/ (dr.list[i].itv > 0 /\ dr.list[i].partial > 0)}
Selected ==
    {dr.list[i].fd : i \in Listed(dr, "read") \cup {j \in Listed(dr, "write") : IsOpen(dr, j)}}

(* A file is always ready; a closed descriptor makes select fail. *)
AlwaysReady == {h \in Selected : dr.fd[h].dev = "disk"}
SelectFails == \E i \in Listed(dr, "read") : ~IsOpen(dr, i)

(* select reports descriptors, or data on the RDP or X sockets. *)
SelectReady ==
    /\ ~dr.crashed /\ ~SelectFails
    /\ \E more \in SUBSET (Selected \ AlwaysReady) : dr' \in CheckFds(dr, AlwaysReady \cup more)

(* select fails or times out: a read expires if one has set the timeout. *)
SelectNothing ==
    /\ ~dr.crashed /\ (SelectFails \/ AlwaysReady = {})
    /\ IF TimedReads # {}
       THEN \E i \in TimedReads, t \in CheckEvents(dr) : dr' = CheckTimeout(t, dr.list[i].fd)
       ELSE ~SelectFails /\ dr' \in CheckFds(dr, {})

CharReceived(p) == dr.inq[p] = 0 /\ dr' = [dr EXCEPT !.inq[p] = 1]

RdpdrNext ==
    \/ \E d \in Redirected : IrpCreate(d) \/ IrpClose(d) \/ IrpRead(d) \/ IrpWrite(d)
    \/ \E p \in SerialPorts : IrpWaitOnMask(p) \/ IrpSetWaitMask(p) \/ IrpPurge(p) \/ CharReceived(p)
    \/ IrpNotify \/ IrpSetInformation \/ ServerAnnounce
    \/ SelectReady \/ SelectNothing

RdpdrSpec == RdpdrInit /\ [][RdpdrNext]_rdpdrVars

-----------------------------------------------------------------------------
(* Every request the server sent is either in the table, once, or has been *)
(* answered, once: neither the passes, which remove requests while they    *)
(* walk over them, nor an abort, a purge or a timeout loses or repeats one. *)
AnsweredOnce ==
    \A id \in DrIds :
        Cardinality({i \in 1 .. Len(dr.list) : dr.list[i].id = id}) + dr.answers[id]
            = IF id <= dr.issued THEN 1 ELSE 0

(* Requests on one file that are served in pieces do not disturb each      *)
(* other: each moves the bytes of its own range, in order (disk_read and   *)
(* disk_write seek before every piece).                                    *)
PiecesInOrder == ~dr.torn

(* A pending request of a disk or serial port is never left on a descriptor *)
(* that was closed, or that has come to stand for another file, as long as  *)
(* the file was closed with at most one request pending: rdpdr_abort_io     *)
(* ends one request only.                                                   *)
RequestsOwnTheirFile ==
    \A i \in 1 .. Len(dr.list) :
        \/ dr.fd[dr.list[i].fd].file = dr.list[i].file
        \/ dr.list[i].dev = "parallel" \/ dr.list[i].file \in dr.crowded

(* "any serial wait event must be done before read block will be sent":    *)
(* no read of a port is completed while a request waits for an event that  *)
(* has happened on it.  With two ports it does not hold: a request at the  *)
(* head that completes ends the first pass before the other port's event.  *)
EventsBeforeReads == (\A p, q \in SerialPorts : p = q) => ~dr.late

(* "only delete link if all data has been transfered or we couldn't write": *)
(* no write whose failure was added to its length stays in the table.       *)
FailedWritesComplete ==
    \A i \in Listed(dr, "write") : dr.list[i].partial <= dr.list[i].length

(* What rdpdr.c owes the server: one answer for every request, taken from  *)
(* the file it was made on, in its own bytes, and after the port's events. *)
RequestsAnswered ==
    /\ RdpdrTypeOK
    /\ AnsweredOnce /\ PiecesInOrder /\ RequestsOwnTheirFile /\ EventsBeforeReads
=============================================================================
