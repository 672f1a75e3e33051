------------------------------- MODULE Scard -------------------------------
(***************************************************************************)
(* The smart card request queue of scard.c: device control requests are    *)
(* queued by the main thread, taken by the queue handler thread and, apart *)
(* from context requests, given to worker threads that may block in the    *)
(* PC/SC library.  Epochs tell the requests of the present session from    *)
(* those of an earlier one: curEpoch (scard.c) is raised when the          *)
(* connection is reset, g_epoch (rdpdr.c) when the server announces        *)
(* itself, and each request copies g_epoch into curEpoch.                  *)
(***************************************************************************)
EXTENDS Naturals, Sequences, FiniteSets

CONSTANTS
    Requests,       \* completion ids
    Workers,        \* threads that SC_handleRequest may create
    None,           \* no request
    MaxEpochs       \* resets and announcements in a behaviour (bound)

ASSUME ScardConstants ==
    /\ None \notin Requests
    /\ MaxEpochs \in Nat

VARIABLES
    phase,          \* connection of the main thread: down, connecting, up
    announced,      \* environment: SERVER_ANNOUNCE came on this connection
    period,         \* history: resets and announcements so far
    conn,           \* history: number of the connection
    g_epoch,
    curEpoch,
    queue,          \* queueFirst .. queueLast
    state,          \* progress of each request
    kind,           \* context: run inline; call; wait: blocks in PC/SC
    epoch,          \* data->epoch
    born,           \* history: period in which the request was made
    origin,         \* history: connection on which it was made
    target,         \* history: connection its completion went to
    handler,        \* the request the queue handler thread holds
    scan,           \* workers SC_handleRequest has not looked at yet
    threadList,
    data            \* listElement->data of each worker

connVars == <<phase, announced, period, conn>>
epochVars == <<g_epoch, curEpoch>>
reqVars == <<kind, epoch, born, origin>>
threadVars == <<handler, scan, threadList, data>>
vars == <<connVars, epochVars, queue, state, reqVars, target, threadVars>>

Kinds == {"context", "call", "wait"}
Pending == {"queued", "taken", "running", "returned"}
States == Pending \cup {"new", "approved", "sent", "dropped"}

TypeOK ==
    /\ phase \in {"down", "connecting", "up"}
    /\ announced \in BOOLEAN
    /\ period \in Nat /\ conn \in Nat
    /\ g_epoch \in Nat /\ curEpoch \in Nat
    /\ queue \in Seq(Requests)
    /\ state \in [Requests -> States]
    /\ kind \in [Requests -> Kinds]
    /\ epoch \in [Requests -> Nat]
    /\ born \in [Requests -> Nat]
    /\ origin \in [Requests -> Nat]
    /\ target \in [Requests -> Nat]
    /\ handler \in Requests \cup {None}
    /\ scan \subseteq threadList
    /\ threadList \subseteq Workers
    /\ data \in [Workers -> Requests \cup {None}]

(* main() calls rdesktop_reset_state before its first connection. *)
Init ==
    /\ phase = "down" /\ announced = FALSE
    /\ period = 0 /\ conn = 0
    /\ g_epoch = 0 /\ curEpoch = 0
    /\ queue = <<>>
    /\ state = [r \in Requests |-> "new"]
    /\ kind \in [Requests -> Kinds]
    /\ epoch = [r \in Requests |-> 0]
    /\ born = [r \in Requests |-> 0]
    /\ origin = [r \in Requests |-> 0]
    /\ target = [r \in Requests |-> 0]
    /\ handler = None
    /\ scan = {} /\ threadList = {}
    /\ data = [w \in Workers |-> None]

-----------------------------------------------------------------------------
(* The main thread *)

(* scard_reset_state: scard_invalidate_state before each attempt. *)
ResetState ==
    /\ phase # "up" /\ period < MaxEpochs
    /\ curEpoch' = curEpoch + 1
    /\ period' = period + 1
    /\ conn' = conn + 1
    /\ announced' = FALSE
    /\ phase' = "connecting"
    /\ UNCHANGED <<g_epoch, queue, state, reqVars, target, threadVars>>

Connected ==
    /\ phase = "connecting"
    /\ phase' = "up"
    /\ UNCHANGED <<announced, period, conn, epochVars, queue, state, reqVars,
                   target, threadVars>>

Disconnect ==
    /\ phase = "up"
    /\ phase' = "down"
    /\ UNCHANGED <<announced, period, conn, epochVars, queue, state, reqVars,
                   target, threadVars>>

(* Mutant: the announcement does not start a new epoch. *)
ServerAnnounce_KeepsEpoch ==
    /\ phase = "up" /\ period < MaxEpochs
    /\ curEpoch' = curEpoch + 1
    /\ period' = period + 1
    /\ announced' = TRUE
    /\ UNCHANGED <<phase, conn, g_epoch, queue, state, reqVars, target,
                   threadVars>>

(* PAKID_CORE_SERVER_ANNOUNCE: a new epoch, scard_release_all_contexts. *)
ServerAnnounce ==
    /\ phase = "up" /\ period < MaxEpochs
    /\ g_epoch' = g_epoch + 1
    /\ curEpoch' = curEpoch + 1
    /\ period' = period + 1
    /\ announced' = TRUE
    /\ UNCHANGED <<phase, conn, queue, state, reqVars, target, threadVars>>

(* IRP_MJ_DEVICE_CONTROL: scardSetInfo, then SC_addToQueue. *)
IoRequest(r) ==
    /\ phase = "up" /\ announced /\ state[r] = "new"
    /\ curEpoch' = g_epoch
    /\ epoch' = [epoch EXCEPT ![r] = g_epoch]
    /\ born' = [born EXCEPT ![r] = period]
    /\ origin' = [origin EXCEPT ![r] = conn]
    /\ state' = [state EXCEPT ![r] = "queued"]
    /\ queue' = Append(queue, r)
    /\ UNCHANGED <<connVars, g_epoch, kind, target, threadVars>>

-----------------------------------------------------------------------------
(* The queue handler thread *)

(* Mutant: the scan list also holds threads that were never created. *)
SC_getNextInQueue_AllWorkers ==
    /\ handler = None /\ queue # <<>>
    /\ handler' = Head(queue)
    /\ queue' = Tail(queue)
    /\ state' = [state EXCEPT ![Head(queue)] = "taken"]
    /\ scan' = Workers
    /\ UNCHANGED <<connVars, epochVars, reqVars, target, threadList, data>>

SC_getNextInQueue ==
    /\ handler = None /\ queue # <<>>
    /\ handler' = Head(queue)
    /\ queue' = Tail(queue)
    /\ state' = [state EXCEPT ![Head(queue)] = "taken"]
    /\ scan' = threadList
    /\ UNCHANGED <<connVars, epochVars, reqVars, target, threadList, data>>

(* Mutant: every request runs in the queue handler thread. *)
Inline_All(r) == TRUE

(* Requests the queue handler runs itself. *)
Inline(r) == kind[r] = "context"

HandlerRuns ==
    /\ handler # None /\ state[handler] = "taken" /\ Inline(handler)
    /\ state' = [state EXCEPT ![handler] = "running"]
    /\ UNCHANGED <<connVars, epochVars, queue, reqVars, target, threadVars>>

HandRequest(w) ==
    /\ data' = [data EXCEPT ![w] = handler]
    /\ state' = [state EXCEPT ![handler] = "running"]
    /\ handler' = None
    /\ scan' = {}

Dispatching ==
    handler # None /\ state[handler] = "taken" /\ ~Inline(handler)

(* SC_handleRequest looks at one element of threadList. *)
WorkerIdle(w) ==
    /\ Dispatching /\ w \in scan /\ data[w] = None
    /\ HandRequest(w)
    /\ UNCHANGED <<connVars, epochVars, queue, reqVars, target, threadList>>

WorkerBusy(w) ==
    /\ Dispatching /\ w \in scan /\ data[w] # None
    /\ scan' = scan \ {w}
    /\ UNCHANGED <<connVars, epochVars, queue, state, reqVars, target,
                   handler, threadList, data>>

(* All of them were busy: a new thread. *)
NewWorker(w) ==
    /\ Dispatching /\ scan = {} /\ w \in Workers \ threadList
    /\ threadList' = threadList \cup {w}
    /\ HandRequest(w)
    /\ UNCHANGED <<connVars, epochVars, queue, reqVars, target>>

-----------------------------------------------------------------------------
(* SC_deviceControl, in the handler or in a worker *)

(* scard_device_control returns; a wait may take for ever. *)
CallReturns(r) ==
    /\ state[r] = "running"
    /\ state' = [state EXCEPT ![r] = "returned"]
    /\ UNCHANGED <<connVars, epochVars, queue, reqVars, target, threadVars>>

(* Mutant: listElement->data is not cleared. *)
ThreadFree_KeepsData(r) ==
    /\ handler' = IF handler = r THEN None ELSE handler
    /\ UNCHANGED <<data, scan, threadList>>

(* The thread is free again. *)
ThreadFree(r) ==
    /\ handler' = IF handler = r THEN None ELSE handler
    /\ data' = [w \in Workers |-> IF data[w] = r THEN None ELSE data[w]]
    /\ UNCHANGED <<scan, threadList>>

EpochIsCurrent(r) ==
    /\ state[r] = "returned" /\ epoch[r] = curEpoch
    /\ state' = [state EXCEPT ![r] = "approved"]
    /\ UNCHANGED <<connVars, epochVars, queue, reqVars, target, threadVars>>

EpochIsStale(r) ==
    /\ state[r] = "returned" /\ epoch[r] # curEpoch
    /\ state' = [state EXCEPT ![r] = "dropped"]
    /\ ThreadFree(r)
    /\ UNCHANGED <<connVars, epochVars, queue, reqVars, target>>

(* rdpdr_send_completion; without a connection tcp_send fails. *)
SendCompletion(r) ==
    /\ state[r] = "approved"
    /\ target' = [target EXCEPT ![r] = IF phase = "down" THEN 0 ELSE conn]
    /\ state' = [state EXCEPT ![r] = "sent"]
    /\ ThreadFree(r)
    /\ UNCHANGED <<connVars, epochVars, queue, reqVars>>

-----------------------------------------------------------------------------

Serve(r) == EpochIsCurrent(r) \/ EpochIsStale(r) \/ SendCompletion(r)

Handle ==
    \/ SC_getNextInQueue
    \/ HandlerRuns
    \/ \E w \in Workers : WorkerIdle(w) \/ WorkerBusy(w) \/ NewWorker(w)

Next ==
    \/ ResetState \/ Connected \/ Disconnect \/ ServerAnnounce
    \/ Handle
    \/ \E r \in Requests : IoRequest(r) \/ CallReturns(r) \/ Serve(r)

Spec == Init /\ [][Next]_vars

(* Threads are scheduled; PC/SC calls other than waits return. *)
FairSpec ==
    /\ Spec
    /\ WF_vars(Handle)
    /\ \A r \in Requests : WF_vars(Serve(r))
    /\ \A r \in Requests : WF_vars(kind[r] # "wait" /\ CallReturns(r))

-----------------------------------------------------------------------------
(* Properties *)

(* The epoch test of SC_deviceControl is exact: while a request is pending    *)
(* its epoch equals curEpoch if and only if neither a reset nor an            *)
(* announcement came after it, although two modules count epochs and each     *)
(* request moves curEpoch back to g_epoch.                                    *)
EpochTestIsExact ==
    \A r \in Requests :
        state[r] \in Pending => (epoch[r] = curEpoch <=> born[r] = period)

(* A request that blocks in PC/SC, even for ever, does not keep any other     *)
(* request from being finished.                                               *)
OthersAreServed ==
    \A r \in Requests :
        state[r] = "queued" /\ kind[r] # "wait" ~>
            state[r] \in {"sent", "dropped"}

(* A request in the hands of a thread is in the hands of exactly one: the     *)
(* handler and the workers never work on the same request, and a request      *)
(* that is being worked on is not queued.                                     *)
OneThreadPerRequest ==
    \A r \in Requests :
        Cardinality({w \in Workers : data[w] = r})
            + (IF handler = r THEN 1 ELSE 0)
            = (IF state[r] \in {"taken", "running", "returned", "approved"}
               THEN 1 ELSE 0)

-----------------------------------------------------------------------------
(* What a comment says and the code does not do *)

(* scard.c:2893 stale requests are drained "without sending completions on    *)
(* the wrong connection": a completion only goes to the connection its        *)
(* request came from.                                                         *)
CompletionsStayOnConnection ==
    \A r \in Requests : target[r] \in {0, origin[r]}
=============================================================================
