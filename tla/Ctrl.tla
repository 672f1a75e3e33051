-------------------------------- MODULE Ctrl --------------------------------
(***************************************************************************)
(* The control socket (ctrl.c).  The first rdesktop for a server, user and *)
(* domain binds a socket and is the master; later ones are slaves: they    *)
(* send it a command and wait for the result.  A master that crashed leaves*)
(* its socket's name behind.                                               *)
(***************************************************************************)
EXTENDS Integers, Sequences, SequencesExt

CONSTANTS
    Instances,      \* processes
    Commands,       \* what slaves send: "plain", or "backslash" at the end
    MaxCtrlCrashes  \* crashes (bound)

ASSUME CtrlConstants ==
    Commands \subseteq {"plain", "backslash"} /\ MaxCtrlCrashes \in Nat

VARIABLES
    ct,         \* the name's owner, processes, connections
    ctRun       \* commands run and results received, per slave; crashes

ctrlVars == <<ct, ctRun>>

Nobody == 0
Knock(p) == <<p, "probe">>
Call(p) == <<p, "call">>
Newline == "newline"

CtrlTypeOK ==
    /\ ct.name \in Instances \cup {Nobody}
    /\ \A p \in Instances :
           /\ ct.pc[p] \in {"start", "verify", "unlink", "bind", "listen", "master", "cleanup",
                            "slave", "send", "newline", "wait", "done"}
           /\ \A i \in 1 .. Len(ct.slaves[p]) : ct.slaves[p][i].sock[1] \in Instances
           /\ \A i \in 1 .. Len(ct.backlog[p]) : ct.backlog[p][i][1] \in Instances
           /\ Len(ct.wire[p]) <= 2
    /\ ctRun.crashes \in 0 .. MaxCtrlCrashes

Goto(t, p, pc) == [t EXCEPT !.pc[p] = pc]

Listens(p) == p # Nobody /\ ct.pc[p] = "master"

-----------------------------------------------------------------------------
(* ctrl_init *)

(* A name that exists is verified: the process may be gone. *)
Stat(p) ==
    /\ ct.pc[p] = "start"
    /\ ct' = Goto(ct, p, IF ct.name = Nobody THEN "bind" ELSE "verify")
    /\ UNCHANGED ctRun

(* _ctrl_verify_unix_socket: the connection made is closed at once. *)
Verify(p) ==
    /\ ct.pc[p] = "verify"
    /\ ct' = IF Listens(ct.name)
             THEN Goto([ct EXCEPT !.backlog[ct.name] = Append(@, Knock(p))], p, "slave")
             ELSE Goto(ct, p, "unlink")
    /\ UNCHANGED ctRun

Unlink(p) ==
    /\ ct.pc[p] = "unlink"
    /\ ct' = Goto([ct EXCEPT !.name = Nobody], p, "bind")
    /\ UNCHANGED ctRun

(* A name somebody else bound meanwhile ends this process. *)
Bind(p) ==
    /\ ct.pc[p] = "bind"
    /\ ct' = IF ct.name = Nobody THEN Goto([ct EXCEPT !.name = p], p, "listen")
             ELSE Goto(ct, p, "done")
    /\ UNCHANGED ctRun

Listen(p) ==
    /\ ct.pc[p] = "listen"
    /\ ct' = Goto(ct, p, "master")
    /\ UNCHANGED ctRun

-----------------------------------------------------------------------------
(* The master *)

(* ctrl_cleanup: the socket is closed, then its name removed.              *)
CloseSlaves(t, p) == [t EXCEPT !.slaves[p] = << >>, !.backlog[p] = << >>]

Exit(p) ==
    /\ ct.pc[p] = "master"
    /\ ct' = Goto(CloseSlaves(ct, p), p, "cleanup")
    /\ UNCHANGED ctRun

Cleanup(p) ==
    /\ ct.pc[p] = "cleanup"
    /\ ct' = Goto([ct EXCEPT !.name = Nobody], p, "done")
    /\ UNCHANGED ctRun

CtrlCrash(p) ==
    /\ ctRun.crashes < MaxCtrlCrashes /\ ct.pc[p] = "master"
    /\ ct' = Goto(CloseSlaves(ct, p), p, "done")
    /\ ctRun' = [ctRun EXCEPT !.crashes = @ + 1]

(* A line ends at a newline that has no backslash before it. *)
LineComplete(buf) ==
    \E i \in 2 .. Len(buf) : buf[i] = Newline /\ buf[i - 1] # "backslash"

(* _ctrl_dispatch_command *)
Dispatch(u, slave) ==
    [u EXCEPT !.t.replies[slave] = Append(@, "OK"), !.run[slave] = @ + 1]

(* _ctrl_slave_new, _ctrl_slave_disconnect *)
SlaveNew(t, p, sock) == [t EXCEPT !.slaves[p] = Append(@, [sock |-> sock, buf |-> << >>])]
SlaveDisconnect(t, p, k) == [t EXCEPT !.slaves[p] = RemoveAt(@, k)]

Ready(t, sock) ==
    \/ sock[2] = "probe"
    \/ t.wire[sock[1]] # << >> \/ t.pc[sock[1]] = "done"

SetBuffer(t, p, k, buf) == [t EXCEPT !.slaves[p][k].buf = buf]

(* Slave k in the walk of ctrl_check_fds; a disconnect ends the walk.      *)
(* Lines of slaves are shorter than the buffer.                            *)
CheckSlave(p, u, k) ==
    LET s == u.t.slaves[p][k]
        slave == s.sock[1]
        buf == s.buf \o u.t.wire[slave]
        received == [u EXCEPT !.t.wire[slave] = << >>]
    IN IF u.over \/ ~Ready(u.t, s.sock) THEN u
       ELSE IF s.sock[2] = "probe" \/ u.t.wire[slave] = << >>
       THEN [u EXCEPT !.t = SlaveDisconnect(u.t, p, k), !.over = TRUE]
       ELSE IF LineComplete(buf)
       THEN Dispatch([received EXCEPT !.t = SetBuffer(received.t, p, k, << >>)], slave)
       ELSE [received EXCEPT !.t = SetBuffer(received.t, p, k, buf)]

CheckSlaves(p, u) ==
    LET walk[k \in 0 .. Len(u.t.slaves[p])] ==
            IF k = 0 THEN u ELSE CheckSlave(p, walk[k - 1], k)
    IN walk[Len(u.t.slaves[p])]

(* ctrl_check_fds: one connection is accepted, or the slaves are read.     *)
CtrlCheckFds(p) ==
    /\ ct.pc[p] = "master"
    /\ LET u == [t |-> ct, run |-> ctRun.run, over |-> FALSE]
           v == IF ct.backlog[p] # << >>
                THEN [u EXCEPT !.t = [SlaveNew(ct, p, Head(ct.backlog[p]))
                                          EXCEPT !.backlog[p] = Tail(@)]]
                ELSE CheckSlaves(p, u)
       IN /\ v # u
          /\ ct' = v.t
          /\ ctRun' = [ctRun EXCEPT !.run = v.run]

-----------------------------------------------------------------------------
(* ctrl_send_command *)

Connected(p) ==
    \E m \in Instances :
        \/ \E i \in 1 .. Len(ct.backlog[m]) : ct.backlog[m][i] = Call(p)
        \/ \E i \in 1 .. Len(ct.slaves[m]) : ct.slaves[m][i].sock = Call(p)

SlaveConnect(p) ==
    /\ ct.pc[p] = "slave"
    /\ ct' = IF Listens(ct.name)
             THEN Goto([ct EXCEPT !.backlog[ct.name] = Append(@, Call(p))], p, "send")
             ELSE Goto(ct, p, "done")
    /\ UNCHANGED ctRun

(* The command and its newline are sent apart; a slave whose master is     *)
(* gone ends.                                                              *)
SlaveSend(p) ==
    /\ \/ /\ ct.pc[p] = "send" /\ Connected(p)
          /\ \E c \in Commands :
                 ct' = Goto([ct EXCEPT !.wire[p] = Append(@, c)], p, "newline")
       \/ /\ ct.pc[p] = "newline" /\ Connected(p)
          /\ ct' = Goto([ct EXCEPT !.wire[p] = Append(@, Newline)], p, "wait")
       \/ /\ ct.pc[p] \in {"send", "newline"} /\ ~Connected(p)
          /\ ct' = Goto(ct, p, "done")
    /\ UNCHANGED ctRun

(* The result, or the end of the connection. *)
SlaveResult(p) ==
    /\ ct.pc[p] = "wait" /\ (ct.replies[p] # << >> \/ ~Connected(p))
    /\ ct' = Goto(ct, p, "done")
    /\ ctRun' = [ctRun EXCEPT !.answered[p] = IF ct.replies[p] # << >> THEN "OK" ELSE "none"]

CtrlInit ==
    /\ ct = [name |-> Nobody, pc |-> [p \in Instances |-> "start"],
             slaves |-> [p \in Instances |-> << >>], backlog |-> [p \in Instances |-> << >>],
             wire |-> [p \in Instances |-> << >>], replies |-> [p \in Instances |-> << >>]]
    /\ ctRun = [run |-> [p \in Instances |-> 0], answered |-> [p \in Instances |-> "none"],
                crashes |-> 0]

InstanceStep(p) ==
    \/ Stat(p) \/ Verify(p) \/ Unlink(p) \/ Bind(p) \/ Listen(p) \/ Cleanup(p)
    \/ CtrlCheckFds(p) \/ SlaveConnect(p) \/ SlaveSend(p) \/ SlaveResult(p)

CtrlNext == \E p \in Instances : InstanceStep(p) \/ Exit(p) \/ CtrlCrash(p)

CtrlSpec == CtrlInit /\ [][CtrlNext]_ctrlVars

(* Masters keep serving their loop and slaves keep running; a process may  *)
(* exit or crash at any time, or never.                                    *)
CtrlFairSpec == CtrlSpec /\ \A p \in Instances : WF_ctrlVars(InstanceStep(p))

-----------------------------------------------------------------------------
(* Properties *)

(* A command is run at most once and answered once, however its pieces     *)
(* arrive, and a slave told OK had its command run.                        *)
CommandsRunOnce ==
    \A p \in Instances :
        /\ ctRun.run[p] <= 1 /\ Len(ct.replies[p]) <= 1
        /\ ctRun.answered[p] = "OK" => ctRun.run[p] = 1

(* The exception to SlavesAnswered.  doc/ctrl.txt:11 returns a result for  *)
(* every command, and by line 37 only the percent sign escapes; but a line *)
(* that ends in a backslash is read as an escaped newline and waits for    *)
(* another one.                                                            *)
NewlineEscaped(p) ==
    \E m \in Instances : \E i \in 1 .. Len(ct.slaves[m]) :
        ct.slaves[m][i].sock = Call(p) /\ ct.slaves[m][i].buf = <<"backslash", Newline>>

(* A slave that sent its command gets a result, or the end of its master:  *)
(* it never waits for ever (ctrl_send_command has no timeout).             *)
SlavesAnswered ==
    \A p \in Instances : ct.pc[p] = "wait" ~> ct.pc[p] = "done" \/ NewlineEscaped(p)
=============================================================================
