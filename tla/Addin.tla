-------------------------------- MODULE Addin --------------------------------
(***************************************************************************)
(* Add-ins (addin.c): a child process bridges a static virtual channel.    *)
(* What the server sends is queued, and written to the child's standard    *)
(* input through a non-blocking pipe; what the child writes is sent to the *)
(* server.  The child runs, closes its ends and exits when it likes; the   *)
(* main loop polls it around select.  ad[i] holds the add-in's record, its *)
(* child and the two pipes; bytes are numbered as the server sends them.   *)
(***************************************************************************)
EXTENDS Integers, Sequences, FiniteSets

CONSTANTS
    AddinIds,       \* add-ins of the command line
    AddinPipe,      \* bytes a pipe holds
    MaxAddinBytes,  \* bytes the server sends to each (bounds)
    MaxAddinOutput  \* bytes each child writes (bound)

ASSUME AddinConstants ==
    /\ MaxAddinBytes \in [AddinIds -> Nat]
    /\ {AddinPipe, MaxAddinOutput} \subseteq Nat \ {0}

VARIABLES
    ad,     \* add-in, child and pipes
    adMain  \* the main loop: where it is, what it selects on

addinVars == <<ad, adMain>>

UpTo(n) == [k \in 1 .. n |-> k]
Least(m, n) == IF m < n THEN m ELSE n

AddinTypeOK ==
    /\ adMain.phase \in {"start", "loop", "select", "exited"}
    /\ adMain.rset \subseteq AddinIds /\ adMain.wset \subseteq AddinIds
    /\ \A i \in AddinIds :
           /\ ad[i].proc \in {"none", "runs", "zombie", "reaped"}
           /\ {ad[i].pid, ad[i].stdin, ad[i].stdout, ad[i].reads, ad[i].writes} \subseteq BOOLEAN
           /\ ad[i].offset \in 0 .. Len(ad[i].pending)
           /\ Len(ad[i].inpipe) <= AddinPipe /\ Len(ad[i].outpipe) <= AddinPipe

Remaining(a) == SubSeq(a.pending, a.offset + 1, Len(a.pending))
ReleasePending(a) == [a EXCEPT !.pending = << >>, !.offset = 0]

-----------------------------------------------------------------------------
(* The child's end *)

(* addin_shutdown_child: both pipes are closed; a child that still runs is *)
(* killed and waited for, one that has ended was reaped by the caller.     *)
ShutdownChild(a, terminate) ==
    LET closed == [ReleasePending(a) EXCEPT !.stdin = FALSE, !.stdout = FALSE, !.pid = FALSE]
    IN  IF a.pid /\ (terminate \/ a.proc = "zombie")
        THEN [closed EXCEPT !.proc = "reaped", !.reads = FALSE, !.writes = FALSE]
        ELSE closed

PollChild(a) ==
    IF a.pid /\ a.proc = "zombie"
    THEN ShutdownChild([a EXCEPT !.proc = "reaped"], FALSE)
    ELSE a

-----------------------------------------------------------------------------
(* The queue towards the child *)

(* addin_flush_to_child: as much as the pipe takes; without a reader the   *)
(* write fails and the add-in is stopped.                                  *)
FlushToChild(a) ==
    LET p == PollChild(a)
        n == Least(AddinPipe - Len(p.inpipe), Len(Remaining(p)))
        w == [p EXCEPT !.inpipe = @ \o SubSeq(Remaining(p), 1, n), !.offset = @ + n]
    IN  IF ~p.stdin \/ p.pending = << >> THEN p
        ELSE IF ~p.reads THEN ShutdownChild(p, TRUE)
        ELSE IF Remaining(w) = << >> THEN ReleasePending(w)
        ELSE w

QueueToChild_KeepsOffset(a, data) ==
    IF ~a.stdin THEN a
    ELSE FlushToChild([a EXCEPT !.pending = Remaining(a) \o data])

(* addin_queue_to_child: what is left moves to the front of a new buffer.  *)
QueueToChild(a, data) ==
    IF ~a.stdin THEN a
    ELSE FlushToChild([a EXCEPT !.pending = Remaining(a) \o data, !.offset = 0])

(* addin_send_from_child: reads until the pipe is empty, or closed.        *)
SendFromChild(a) ==
    LET p == PollChild(a)
        s == [p EXCEPT !.got = @ \o p.outpipe, !.outpipe = << >>]
    IN  IF ~p.stdout THEN p ELSE IF p.writes THEN s ELSE ShutdownChild(s, TRUE)

-----------------------------------------------------------------------------
(* The main program *)

Spawned(a) ==
    [a EXCEPT !.proc = "runs", !.pid = TRUE, !.stdin = TRUE, !.stdout = TRUE,
              !.reads = TRUE, !.writes = TRUE]

(* addin_init: one that cannot be started ends the program, after the      *)
(* others were started.                                                    *)
StartAddins ==
    /\ adMain.phase = "start"
    /\ \E ok \in SUBSET AddinIds :
           LET started == [i \in AddinIds |-> IF i \in ok THEN Spawned(ad[i]) ELSE ad[i]]
           IN  IF ok = AddinIds
               THEN /\ ad' = started
                    /\ adMain' = [adMain EXCEPT !.phase = "loop"]
               ELSE /\ ad' = [i \in AddinIds |-> ShutdownChild(started[i], TRUE)]
                    /\ adMain' = [adMain EXCEPT !.phase = "exited"]

(* A full queue waits for the pipe. *)
WriteSet(f) == {i \in AddinIds : f[i].stdin /\ f[i].pending # << >>}

AddFds ==
    /\ adMain.phase = "loop"
    /\ ad' = [i \in AddinIds |-> PollChild(ad[i])]
    /\ adMain' = [phase |-> "select", rset |-> {i \in AddinIds : ad'[i].stdout},
                  wset |-> WriteSet(ad')]

(* What select reports: room or no reader, output or no writer. *)
Writable(i) == i \in adMain.wset /\ (Len(ad[i].inpipe) < AddinPipe \/ ~ad[i].reads)
Readable(i) == i \in adMain.rset /\ (ad[i].outpipe # << >> \/ ~ad[i].writes)

(* addin_check_fds; select may also return for another descriptor. *)
AddinCheckFds ==
    /\ adMain.phase = "select"
    /\ ad' = [i \in AddinIds |->
                  LET w == IF ad[i].stdin /\ Writable(i) THEN FlushToChild(ad[i]) ELSE ad[i]
                      r == IF w.stdout /\ Readable(i) THEN SendFromChild(w) ELSE w
                  IN  PollChild(r)]
    /\ adMain' = [adMain EXCEPT !.phase = "loop", !.rset = {}, !.wset = {}]

(* A channel message for add-in i. *)
ProcessIndex(i) ==
    /\ adMain.phase = "loop"
    /\ \E n \in 1 .. MaxAddinBytes[i] - ad[i].sent :
           ad' = [ad EXCEPT ![i] = QueueToChild([ad[i] EXCEPT !.sent = @ + n],
                                                [k \in 1 .. n |-> ad[i].sent + k])]
    /\ UNCHANGED adMain

Deinit ==
    /\ adMain.phase = "loop"
    /\ ad' = [i \in AddinIds |-> ShutdownChild(ad[i], TRUE)]
    /\ adMain' = [adMain EXCEPT !.phase = "exited"]

-----------------------------------------------------------------------------
(* The children *)

ChildReads(i) ==
    /\ ad[i].proc = "runs" /\ ad[i].reads /\ ad[i].inpipe # << >>
    /\ ad' = [ad EXCEPT ![i].read = Append(@, Head(ad[i].inpipe)), ![i].inpipe = Tail(@)]
    /\ UNCHANGED adMain

ChildWrites(i) ==
    /\ ad[i].proc = "runs" /\ ad[i].writes /\ ad[i].stdout
    /\ ad[i].wrote < MaxAddinOutput /\ Len(ad[i].outpipe) < AddinPipe
    /\ ad' = [ad EXCEPT ![i].wrote = @ + 1, ![i].outpipe = Append(@, ad[i].wrote + 1)]
    /\ UNCHANGED adMain

(* It closes its input, its output, or exits. *)
ChildEnds(i) ==
    /\ ad[i].proc = "runs"
    /\ \E r \in {FALSE, ad[i].reads}, w \in {FALSE, ad[i].writes} :
       \E p \in IF r \/ w THEN {"runs"} ELSE {"runs", "zombie"} :
           ad' = [ad EXCEPT ![i].reads = r, ![i].writes = w, ![i].proc = p]
    /\ UNCHANGED adMain

-----------------------------------------------------------------------------
AddinInit ==
    /\ ad = [i \in AddinIds |->
                [proc |-> "none", pid |-> FALSE, stdin |-> FALSE, stdout |-> FALSE,
                 pending |-> << >>, offset |-> 0, reads |-> FALSE, writes |-> FALSE,
                 inpipe |-> << >>, outpipe |-> << >>, read |-> << >>, wrote |-> 0,
                 sent |-> 0, got |-> << >>]]
    /\ adMain = [phase |-> "start", rset |-> {}, wset |-> {}]

AddinLoop == AddFds \/ AddinCheckFds

AddinNext ==
    \/ StartAddins \/ AddinLoop \/ Deinit
    \/ \E i \in AddinIds :
           ProcessIndex(i) \/ ChildReads(i) \/ ChildWrites(i) \/ ChildEnds(i)

AddinSpec == AddinInit /\ [][AddinNext]_addinVars

(* The main loop runs, and a child that has input reads it. *)
AddinFairSpec ==
    /\ AddinSpec
    /\ WF_addinVars(AddinLoop)
    /\ \A i \in AddinIds : WF_addinVars(ChildReads(i))

-----------------------------------------------------------------------------
(* The bytes a child has read, those in its pipe and those queued are the  *)
(* bytes the server sent, in order, for as long as the add-in is open,     *)
(* however often the queue was moved half written.                         *)
InputInOrder ==
    \A i \in AddinIds :
        ad[i].stdin => ad[i].read \o ad[i].inpipe \o Remaining(ad[i]) = UpTo(ad[i].sent)

(* Whichever way an add-in stops (its exit seen by the poll, a failed      *)
(* write, end of output, a failed start of another, the end of the         *)
(* session), its child is reaped and both pipes and the queue are gone.    *)
StoppedIsReaped ==
    \A i \in AddinIds :
        ~ad[i].pid => /\ ad[i].proc \in {"none", "reaped"}
                      /\ ~ad[i].stdin /\ ~ad[i].stdout /\ ad[i].pending = << >>

(* What waits for a full pipe is written, or the add-in stops. *)
QueueDrains == \A i \in AddinIds : ad[i].pending # << >> ~> ad[i].pending = << >>
=============================================================================
