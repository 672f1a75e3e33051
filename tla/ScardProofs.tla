---------------------------- MODULE ScardProofs ----------------------------
(***************************************************************************)
(* The epoch test of SC_deviceControl is exact for any number of requests, *)
(* threads, resets and announcements.  The invariant orders the two epoch  *)
(* counters, g_epoch <= curEpoch, and keeps the epoch of an outdated       *)
(* request below both as soon as the server has announced itself: that is  *)
(* why moving curEpoch back to g_epoch never revives a request.            *)
(***************************************************************************)
EXTENDS Scard, FiniteSetTheorems, TLAPS

CountersInv ==
    /\ announced \in BOOLEAN
    /\ period \in Nat /\ g_epoch \in Nat /\ curEpoch \in Nat
    /\ epoch \in [Requests -> Nat]
    /\ born \in [Requests -> Nat]
    /\ state \in [Requests -> States]
    /\ handler \in Requests \cup {None}
    /\ g_epoch <= curEpoch

QueueInv ==
    /\ queue \in Seq(Requests)
    /\ \A i \in 1 .. Len(queue) : state[queue[i]] # "new"

EpochInv ==
    \A r \in Requests : state[r] # "new" =>
        /\ epoch[r] <= g_epoch
        /\ born[r] <= period
        /\ born[r] = period => epoch[r] = g_epoch /\ curEpoch = g_epoch
        /\ born[r] < period => /\ epoch[r] < curEpoch
                               /\ announced => epoch[r] < g_epoch

IInv == CountersInv /\ QueueInv /\ EpochInv

-----------------------------------------------------------------------------

(* A step that leaves the epochs alone and gives some requests, none of them *)
(* new, another state keeps the invariant.                                   *)
LEMMA StateStep ==
    ASSUME IInv, NEW r \in Requests, state[r] # "new",
           NEW s \in States \ {"new"},
           state' = [state EXCEPT ![r] = s],
           handler' \in Requests \cup {None},
           queue' = queue,
           UNCHANGED <<connVars, epochVars, reqVars>>
    PROVE  IInv'
<1> USE DEF IInv, connVars, epochVars, reqVars
<1>1. CountersInv'
  BY DEF CountersInv
<1>2. QueueInv'
  BY DEF QueueInv, CountersInv
<1>3. EpochInv'
  BY DEF EpochInv, CountersInv
<1> QED BY <1>1, <1>2, <1>3

(* A reset outdates every request: all epochs are below the new curEpoch. *)
LEMMA KeepResetState == IInv /\ ResetState => IInv'
<1> SUFFICES ASSUME IInv, ResetState PROVE IInv'
  OBVIOUS
<1> USE DEF IInv, ResetState, reqVars, threadVars
<1>1. CountersInv'
  <2>1. announced' \in BOOLEAN
    BY Zenon
  <2> QED BY <2>1 DEF CountersInv
<1>2. QueueInv'
  BY DEF QueueInv
<1>3. EpochInv'
  BY DEF EpochInv, CountersInv
<1> QED BY <1>1, <1>2, <1>3

(* An announcement outdates every request: all epochs are below g_epoch. *)
LEMMA KeepServerAnnounce == IInv /\ ServerAnnounce => IInv'
<1> SUFFICES ASSUME IInv, ServerAnnounce PROVE IInv'
  OBVIOUS
<1> USE DEF IInv, ServerAnnounce, reqVars, threadVars
<1>1. CountersInv'
  <2>1. announced' \in BOOLEAN
    BY Zenon
  <2> QED BY <2>1 DEF CountersInv
<1>2. QueueInv'
  BY DEF QueueInv
<1>3. EpochInv'
  BY DEF EpochInv, CountersInv
<1> QED BY <1>1, <1>2, <1>3

(* A request copies g_epoch into curEpoch; outdated requests stay below it. *)
LEMMA KeepIoRequest ==
    ASSUME IInv, NEW r \in Requests, IoRequest(r)
    PROVE  IInv'
<1> USE DEF IInv, IoRequest, connVars, threadVars
<1>1. CountersInv'
  BY DEF CountersInv, States, Pending
<1>2. QueueInv'
  <2>1. queue' \in Seq(Requests) /\ Len(queue') = Len(queue) + 1
    BY DEF QueueInv
  <2>2. \A i \in 1 .. Len(queue') :
            queue'[i] = IF i <= Len(queue) THEN queue[i] ELSE r
    BY DEF QueueInv
  <2> QED BY <2>1, <2>2 DEF QueueInv, CountersInv
<1>3. EpochInv'
  BY DEF EpochInv, CountersInv
<1> QED BY <1>1, <1>2, <1>3

(* Taking a request from the queue keeps the invariant. *)
LEMMA KeepGetNext == IInv /\ SC_getNextInQueue => IInv'
<1> SUFFICES ASSUME IInv, SC_getNextInQueue PROVE IInv'
  OBVIOUS
<1> USE DEF IInv, SC_getNextInQueue, connVars, epochVars, reqVars
<1>1. Len(queue) >= 1 /\ Len(queue) \in Nat /\ Head(queue) = queue[1]
  BY DEF QueueInv
<1>2. Head(queue) \in Requests /\ state[Head(queue)] # "new"
  BY <1>1 DEF QueueInv
<1>3. CountersInv'
  BY <1>2 DEF CountersInv, States, Pending
<1>4. QueueInv'
  <2>1. queue' \in Seq(Requests) /\ Len(queue') = Len(queue) - 1
    BY <1>1 DEF QueueInv
  <2>2. \A i \in 1 .. Len(queue') : queue'[i] = queue[i + 1]
    BY <1>1 DEF QueueInv
  <2>3. \A i \in 1 .. Len(queue') :
            queue'[i] \in Requests /\ state[queue'[i]] # "new"
    BY <1>1, <2>1, <2>2 DEF QueueInv
  <2> QED BY <1>2, <2>1, <2>3 DEF QueueInv, CountersInv
<1>5. EpochInv'
  BY <1>2 DEF EpochInv, CountersInv
<1> QED BY <1>3, <1>4, <1>5

(* The epoch counters order every request in every reachable state. *)
THEOREM Invariance == Spec => []IInv
<1>1. Init => IInv
  <2> SUFFICES ASSUME Init PROVE IInv
    OBVIOUS
  <2>1. announced \in BOOLEAN
    BY Zenon DEF Init
  <2>2. CountersInv
    BY <2>1 DEF Init, CountersInv, States, Pending
  <2>3. QueueInv /\ EpochInv
    BY DEF Init, QueueInv, EpochInv
  <2> QED BY <2>2, <2>3 DEF IInv
<1>2. IInv /\ [Next]_vars => IInv'
  <2> SUFFICES ASSUME IInv, [Next]_vars PROVE IInv'
    OBVIOUS
  <2> USE ScardConstants
  <2>1. CASE ResetState
    BY <2>1, KeepResetState
  <2>2. CASE Connected \/ Disconnect \/ UNCHANGED vars
    <3> USE DEF IInv, CountersInv, QueueInv, EpochInv, connVars, epochVars, reqVars, threadVars
    <3>1. CASE Connected
      BY <3>1 DEF Connected
    <3>2. CASE Disconnect
      BY <3>2 DEF Disconnect
    <3>3. CASE UNCHANGED vars
      BY <3>3 DEF vars
    <3> QED BY <2>2, <3>1, <3>2, <3>3
  <2>3. CASE ServerAnnounce
    BY <2>3, KeepServerAnnounce
  <2>4. CASE Handle
    <3>1. CASE SC_getNextInQueue
      BY <3>1, KeepGetNext
    <3>2. CASE HandlerRuns
      BY <3>2, StateStep
      DEF HandlerRuns, IInv, CountersInv, States, Pending, threadVars
    <3>3. CASE \E w \in Workers : WorkerIdle(w)
      BY <3>3, StateStep
      DEF WorkerIdle, Dispatching, HandRequest, IInv, CountersInv, States,
          Pending
    <3>4. CASE \E w \in Workers : WorkerBusy(w)
      BY <3>4
      DEF WorkerBusy, IInv, CountersInv, QueueInv, EpochInv, connVars,
          epochVars, reqVars
    <3>5. CASE \E w \in Workers : NewWorker(w)
      BY <3>5, StateStep
      DEF NewWorker, Dispatching, HandRequest, IInv, CountersInv, States,
          Pending
    <3> QED BY <2>4, <3>1, <3>2, <3>3, <3>4, <3>5 DEF Handle
  <2>5. ASSUME NEW r \in Requests, IoRequest(r)
        PROVE  IInv'
    BY <2>5, KeepIoRequest
  <2>6. ASSUME NEW r \in Requests, CallReturns(r) \/ Serve(r)
        PROVE  IInv'
    <3>1. handler' \in Requests \cup {None}
      BY <2>6
      DEF CallReturns, Serve, EpochIsCurrent, EpochIsStale, SendCompletion,
          ThreadFree, threadVars, IInv, CountersInv
    <3>2. CASE CallReturns(r)
      BY <3>1, <3>2, StateStep DEF CallReturns, States, Pending
    <3>3. CASE EpochIsCurrent(r)
      BY <3>1, <3>3, StateStep DEF EpochIsCurrent, States, Pending
    <3>4. CASE EpochIsStale(r)
      BY <3>1, <3>4, StateStep DEF EpochIsStale, States, Pending
    <3>5. CASE SendCompletion(r)
      BY <3>1, <3>5, StateStep DEF SendCompletion, States, Pending
    <3> QED BY <2>6, <3>2, <3>3, <3>4, <3>5 DEF Serve
  <2> QED BY <2>1, <2>2, <2>3, <2>4, <2>5, <2>6 DEF Next
<1> QED BY <1>1, <1>2, PTL DEF Spec

(* A pending request passes the epoch test exactly when no reset and no      *)
(* announcement came after it.                                               *)
THEOREM EpochsAreExact == Spec => []EpochTestIsExact
<1>1. IInv => EpochTestIsExact
  BY DEF IInv, CountersInv, EpochInv, EpochTestIsExact, Pending
<1> QED BY <1>1, Invariance, PTL

-----------------------------------------------------------------------------
(* Who works on a request *)

Held == {"taken", "running", "returned", "approved"}

(* Requests wait in the queue once each, before any thread has them. *)
WaitInv ==
    \A i \in 1 .. Len(queue) :
        /\ state[queue[i]] = "queued"
        /\ \A j \in 1 .. Len(queue) : queue[i] = queue[j] => i = j

(* The handler and the workers hold different requests, a worker without a   *)
(* list element holds none, and every request in progress is held.           *)
HoldInv ==
    /\ handler # None => state[handler] \in Held
    /\ \A w \in Workers : data[w] # None =>
           /\ w \in threadList
           /\ state[data[w]] \in Held \ {"taken"}
           /\ data[w] # handler
           /\ \A v \in Workers : data[v] = data[w] => v = w
    /\ \A r \in Requests : state[r] \in Held =>
           handler = r \/ \E w \in Workers : data[w] = r

ThreadInv == TypeOK /\ WaitInv /\ HoldInv

(* The client begins without requests or workers. *)
LEMMA ThreadInit == Init => ThreadInv
<1> SUFFICES ASSUME Init PROVE ThreadInv
  OBVIOUS
<1>1. TypeOK
  <2>1. /\ state \in [Requests -> States] /\ epoch \in [Requests -> Nat]
        /\ born \in [Requests -> Nat] /\ origin \in [Requests -> Nat]
        /\ target \in [Requests -> Nat] /\ queue \in Seq(Requests)
        /\ data \in [Workers -> Requests \cup {None}]
        /\ scan \subseteq threadList /\ threadList \subseteq Workers
        /\ period \in Nat /\ conn \in Nat /\ g_epoch \in Nat /\ curEpoch \in Nat
    BY DEF Init, States, Pending
  <2> QED BY <2>1, Zenon DEF Init, TypeOK
<1>2. WaitInv /\ HoldInv
  BY DEF Init, WaitInv, HoldInv, Held
<1> QED BY <1>1, <1>2 DEF ThreadInv

(* The main thread never touches the threads' data, only the queue. *)
LEMMA ThreadMain ==
    ThreadInv /\ (ResetState \/ Connected \/ Disconnect \/ ServerAnnounce
                     \/ UNCHANGED vars) => ThreadInv'
<1> SUFFICES ASSUME ThreadInv,
                    ResetState \/ Connected \/ Disconnect \/ ServerAnnounce
                        \/ UNCHANGED vars
             PROVE  ThreadInv'
  OBVIOUS
<1> USE DEF ThreadInv, vars, reqVars, threadVars, connVars, epochVars
<1>1. /\ announced' \in BOOLEAN /\ phase' \in {"down", "connecting", "up"}
      /\ UNCHANGED <<queue, state, reqVars, target, threadVars>>
  BY Zenon
  DEF ResetState, Connected, Disconnect, ServerAnnounce, TypeOK
<1>2. /\ period' \in Nat /\ conn' \in Nat
      /\ g_epoch' \in Nat /\ curEpoch' \in Nat
  BY DEF ResetState, Connected, Disconnect, ServerAnnounce, TypeOK
<1>3. TypeOK'
  BY <1>1, <1>2, Zenon DEF TypeOK
<1>4. WaitInv' /\ HoldInv'
  BY <1>1 DEF WaitInv, HoldInv
<1> QED BY <1>3, <1>4

(* A request is queued and held by nobody. *)
LEMMA ThreadIoRequest ==
    ASSUME ThreadInv, NEW r \in Requests, IoRequest(r)
    PROVE  ThreadInv'
<1> USE DEF ThreadInv, IoRequest, connVars, threadVars
<1>1. TypeOK'
  <2>1. /\ announced' \in BOOLEAN /\ phase' \in {"down", "connecting", "up"}
        /\ UNCHANGED <<period, conn, g_epoch, kind, target, threadVars>>
    BY Zenon DEF TypeOK
  <2>2. curEpoch' \in Nat /\ epoch' \in [Requests -> Nat]
        /\ born' \in [Requests -> Nat] /\ origin' \in [Requests -> Nat]
    BY DEF TypeOK
  <2>3. queue' \in Seq(Requests)
    BY DEF TypeOK
  <2>4. "queued" \in States
    BY DEF States, Pending
  <2>5. state' \in [Requests -> States]
    BY <2>4 DEF TypeOK
  <2> QED BY <2>1, <2>2, <2>3, <2>5, Zenon DEF TypeOK
<1>2. WaitInv'
  <2>1. queue \in Seq(Requests) /\ state \in [Requests -> States]
    BY DEF TypeOK
  <2>2. queue' \in Seq(Requests) /\ Len(queue') = Len(queue) + 1
    BY <2>1
  <2>3. \A i \in 1 .. Len(queue') :
            queue'[i] = IF i <= Len(queue) THEN queue[i] ELSE r
    BY <2>1
  <2>4. \A i \in 1 .. Len(queue) : queue[i] \in Requests /\ queue[i] # r
    BY <2>1 DEF WaitInv
  <2> QED BY <2>1, <2>2, <2>3, <2>4 DEF WaitInv
<1>3. HoldInv'
  BY DEF HoldInv, Held, TypeOK
<1> QED BY <1>1, <1>2, <1>3

(* The queue handler takes the first request. *)
LEMMA ThreadGetNext == ThreadInv /\ SC_getNextInQueue => ThreadInv'
<1> SUFFICES ASSUME ThreadInv, SC_getNextInQueue PROVE ThreadInv'
  OBVIOUS
<1> USE DEF ThreadInv, SC_getNextInQueue, connVars, epochVars, reqVars
<1> DEFINE h == Head(queue)
<1>1. /\ queue \in Seq(Requests) /\ Len(queue) \in Nat /\ Len(queue) >= 1
      /\ h = queue[1] /\ h \in Requests /\ state[h] = "queued"
      /\ state \in [Requests -> States]
  BY DEF TypeOK, WaitInv
<1>2. /\ queue' \in Seq(Requests) /\ Len(queue') = Len(queue) - 1
      /\ \A i \in 1 .. Len(queue') : queue'[i] = queue[i + 1]
  BY <1>1
<1>3. handler' = h /\ state' = [state EXCEPT ![h] = "taken"]
  OBVIOUS
<1> HIDE DEF h
<1>4. TypeOK'
  BY <1>1, <1>2, <1>3 DEF TypeOK, States, Pending
<1>5. WaitInv'
  <2>1. \A i \in 1 .. Len(queue') :
            /\ i + 1 \in 1 .. Len(queue) /\ queue'[i] \in Requests
            /\ queue'[i] # h /\ state[queue'[i]] = "queued"
    BY <1>1, <1>2 DEF WaitInv
  <2>2. \A i, j \in 1 .. Len(queue') : queue'[i] = queue'[j] => i = j
    <3> SUFFICES ASSUME NEW i \in 1 .. Len(queue'), NEW j \in 1 .. Len(queue'),
                        queue'[i] = queue'[j]
                 PROVE  i = j
      OBVIOUS
    <3>1. i + 1 = j + 1
      BY <1>1, <1>2, <2>1 DEF WaitInv
    <3> QED BY <1>1, <1>2, <3>1
  <2> QED BY <1>1, <1>3, <2>1, <2>2 DEF WaitInv
<1>6. HoldInv'
  <2>1. \A q \in Requests : state'[q] = IF q = h THEN "taken" ELSE state[q]
    BY <1>1, <1>3
  <2>2. \A v \in Workers : data[v] \in Requests \cup {None}
    BY DEF TypeOK
  <2>3. handler = None /\ threadList' = threadList /\ data' = data
    OBVIOUS
  <2>4. h # None
    BY <1>1, ScardConstants
  <2>5. \A v \in Workers : data[v] # h
    BY <1>1, <2>4 DEF HoldInv, Held
  <2>6. handler' # None => state'[handler'] \in Held
    BY <1>1, <1>3, <2>1 DEF Held
  <2>7. ASSUME NEW w \in Workers, data'[w] # None
        PROVE  /\ w \in threadList'
               /\ state'[data'[w]] \in Held \ {"taken"}
               /\ data'[w] # handler'
               /\ \A v \in Workers : data'[v] = data'[w] => v = w
    BY <1>3, <2>1, <2>2, <2>3, <2>5, <2>7 DEF HoldInv
  <2>8. ASSUME NEW r \in Requests, state'[r] \in Held
        PROVE  handler' = r \/ \E w \in Workers : data'[w] = r
    BY <1>3, <2>1, <2>3, <2>8, ScardConstants DEF HoldInv
  <2> QED BY <2>6, <2>7, <2>8 DEF HoldInv
<1> QED BY <1>4, <1>5, <1>6

(* The handler gives its request to a worker that holds none. *)
LEMMA ThreadHand ==
    ASSUME ThreadInv, NEW w \in Workers, Dispatching, HandRequest(w),
           data[w] = None, w \in threadList',
           threadList \subseteq threadList', threadList' \subseteq Workers,
           UNCHANGED <<connVars, epochVars, queue, reqVars, target>>
    PROVE  ThreadInv'
<1> USE ScardConstants
    DEF ThreadInv, Dispatching, HandRequest, connVars, epochVars, reqVars
<1>1. handler \in Requests /\ state \in [Requests -> States]
  BY DEF TypeOK
<1>2. TypeOK'
  BY <1>1 DEF TypeOK, States, Pending
<1>3. WaitInv'
  <2>1. \A i \in 1 .. Len(queue) : queue[i] \in Requests /\ queue[i] # handler
    <3>1. queue \in Seq(Requests)
      BY DEF TypeOK
    <3> QED BY <3>1 DEF WaitInv
  <2> QED BY <1>1, <2>1 DEF WaitInv
<1>4. HoldInv'
  <2>1. \A v \in Workers : data[v] # handler
    BY <1>1 DEF HoldInv
  <2>2. \A v \in Workers : data'[v] = IF v = w THEN handler ELSE data[v]
    BY DEF TypeOK
  <2>3. \A r \in Requests :
            state'[r] = IF r = handler THEN "running" ELSE state[r]
    BY <1>1
  <2>4. \A v \in Workers : data[v] \in Requests \cup {None}
    BY DEF TypeOK
  <2> QED BY <1>1, <2>1, <2>2, <2>3, <2>4 DEF HoldInv, Held
<1> QED BY <1>2, <1>3, <1>4

(* A step of the thread that holds r moves r on and frees nothing. *)
LEMMA ThreadMovesOn ==
    ASSUME ThreadInv, NEW r \in Requests, state[r] \in Held,
           NEW s \in Held \ {"taken"},
           state' = [state EXCEPT ![r] = s],
           UNCHANGED <<connVars, epochVars, queue, reqVars, target, threadVars>>
    PROVE  ThreadInv'
<1> USE DEF ThreadInv, Held, connVars, epochVars, reqVars, threadVars
<1>1. TypeOK'
  BY DEF TypeOK, States, Pending
<1>2. WaitInv'
  <2>1. \A i \in 1 .. Len(queue) : queue[i] \in Requests /\ queue[i] # r
    <3>1. queue \in Seq(Requests)
      BY DEF TypeOK
    <3> QED BY <3>1 DEF WaitInv
  <2> QED BY <2>1 DEF WaitInv, TypeOK
<1>3. HoldInv'
  <2>1. \A q \in Requests : state'[q] = IF q = r THEN s ELSE state[q]
    BY DEF TypeOK
  <2>2. /\ handler \in Requests \cup {None}
        /\ \A v \in Workers : data[v] \in Requests \cup {None}
    BY DEF TypeOK
  <2> QED BY <2>1, <2>2, ScardConstants DEF HoldInv
<1> QED BY <1>1, <1>2, <1>3

(* The thread that held r is free again, whichever it was. *)
LEMMA ThreadFinishes ==
    ASSUME ThreadInv, NEW r \in Requests, state[r] \in Held,
           NEW s \in {"sent", "dropped"},
           state' = [state EXCEPT ![r] = s],
           target' \in [Requests -> Nat],
           ThreadFree(r),
           UNCHANGED <<connVars, epochVars, queue, reqVars>>
    PROVE  ThreadInv'
<1> USE ScardConstants
    DEF ThreadInv, ThreadFree, Held, connVars, epochVars, reqVars
<1>1. TypeOK'
  BY DEF TypeOK, States, Pending
<1>2. WaitInv'
  <2>1. \A i \in 1 .. Len(queue) : queue[i] \in Requests /\ queue[i] # r
    <3>1. queue \in Seq(Requests)
      BY DEF TypeOK
    <3> QED BY <3>1 DEF WaitInv
  <2> QED BY <2>1 DEF WaitInv, TypeOK
<1>3. HoldInv'
  <2>1. \A q \in Requests : state'[q] = IF q = r THEN s ELSE state[q]
    BY DEF TypeOK
  <2>2. /\ handler \in Requests \cup {None}
        /\ \A v \in Workers : data[v] \in Requests \cup {None}
    BY DEF TypeOK
  <2>3. \A v \in Workers : data'[v] = IF data[v] = r THEN None ELSE data[v]
    OBVIOUS
  <2>4. handler' = IF handler = r THEN None ELSE handler
    OBVIOUS
  <2> QED BY <2>1, <2>2, <2>3, <2>4 DEF HoldInv
<1> QED BY <1>1, <1>2, <1>3

(* The handler serves a context call or gives the request to a worker. *)
LEMMA ThreadHandle == ThreadInv /\ Handle => ThreadInv'
<1> SUFFICES ASSUME ThreadInv, Handle PROVE ThreadInv'
  OBVIOUS
<1> USE ScardConstants
<1>1. CASE SC_getNextInQueue
  BY <1>1, ThreadGetNext
<1>2. CASE HandlerRuns
  BY <1>2, ThreadMovesOn DEF HandlerRuns, ThreadInv, TypeOK, Held
<1>3. ASSUME NEW w \in Workers, WorkerIdle(w) PROVE ThreadInv'
  <2>1. w \in threadList' /\ threadList' = threadList /\ threadList \subseteq Workers
    BY <1>3 DEF WorkerIdle, ThreadInv, TypeOK
  <2> QED BY <1>3, <2>1, ThreadHand DEF WorkerIdle
<1>4. ASSUME NEW w \in Workers, WorkerBusy(w) PROVE ThreadInv'
  <2>1. TypeOK'
    BY <1>4 DEF WorkerBusy, ThreadInv, TypeOK, connVars, epochVars, reqVars
  <2>2. WaitInv' /\ HoldInv'
    BY <1>4 DEF WorkerBusy, ThreadInv, WaitInv, HoldInv
  <2> QED BY <2>1, <2>2 DEF ThreadInv
<1>5. ASSUME NEW w \in Workers, NewWorker(w) PROVE ThreadInv'
  <2>1. /\ w \in threadList' /\ threadList \subseteq threadList'
        /\ threadList' \subseteq Workers
    BY <1>5 DEF NewWorker, ThreadInv, TypeOK
  <2>2. data[w] = None
    BY <1>5 DEF NewWorker, ThreadInv, HoldInv
  <2> QED BY <1>5, <2>1, <2>2, ThreadHand DEF NewWorker
<1> QED BY <1>1, <1>2, <1>3, <1>4, <1>5 DEF Handle

(* A worker that serves keeps its request until it is free again. *)
LEMMA ThreadServe ==
    ASSUME ThreadInv, NEW r \in Requests, CallReturns(r) \/ Serve(r)
    PROVE  ThreadInv'
<1>1. CASE CallReturns(r) \/ EpochIsCurrent(r)
  BY <1>1, ThreadMovesOn DEF CallReturns, EpochIsCurrent, Held
<1>2. CASE EpochIsStale(r)
  <2>1. target' \in [Requests -> Nat]
    BY <1>2 DEF EpochIsStale, ThreadInv, TypeOK
  <2> QED BY <1>2, <2>1, ThreadFinishes DEF EpochIsStale, Held
<1>3. CASE SendCompletion(r)
  <2>1. target' \in [Requests -> Nat]
    BY <1>3 DEF SendCompletion, ThreadInv, TypeOK
  <2> QED BY <1>3, <2>1, ThreadFinishes DEF SendCompletion, Held
<1> QED BY <1>1, <1>2, <1>3 DEF Serve

(* It holds in every state. *)
LEMMA ThreadInvariance == Spec => []ThreadInv
<1>1. ThreadInv /\ [Next]_vars => ThreadInv'
  BY ThreadMain, ThreadHandle, ThreadIoRequest, ThreadServe DEF Next
<1> QED BY <1>1, ThreadInit, PTL DEF Spec

(* The queue, the thread list and every request keep their types. *)
THEOREM ScardTypes == Spec => []TypeOK
<1>1. ThreadInv => TypeOK
  BY DEF ThreadInv
<1> QED BY <1>1, ThreadInvariance, PTL

(* The queue handler and the worker threads of scard.c never work on the     *)
(* same request, whatever their number, and none of them loses one.          *)
THEOREM RequestsHaveOneThread == Spec => []OneThreadPerRequest
<1>1. ThreadInv => OneThreadPerRequest
  <2> SUFFICES ASSUME ThreadInv, NEW r \in Requests
               PROVE  Cardinality({w \in Workers : data[w] = r})
                          + (IF handler = r THEN 1 ELSE 0)
                      = (IF state[r] \in {"taken", "running", "returned",
                                          "approved"}
                         THEN 1 ELSE 0)
    BY DEF OneThreadPerRequest
  <2> USE ScardConstants DEF ThreadInv, HoldInv, Held
  <2>1. CASE \E w \in Workers : data[w] = r
    <3> PICK w \in Workers : data[w] = r
      BY <2>1
    <3>1. {v \in Workers : data[v] = r} = {w}
      OBVIOUS
    <3>2. Cardinality({v \in Workers : data[v] = r}) = 1
      BY <3>1, FS_Singleton
    <3>3. handler # r /\ state[r] \in Held
      OBVIOUS
    <3> QED BY <3>2, <3>3
  <2>2. CASE \A w \in Workers : data[w] # r
    <3>1. {v \in Workers : data[v] = r} = {}
      BY <2>2
    <3>2. Cardinality({v \in Workers : data[v] = r}) = 0
      BY <3>1, FS_EmptySet
    <3>3. handler = r <=> state[r] \in Held
      BY <2>2
    <3> QED BY <3>2, <3>3
  <2> QED BY <2>1, <2>2
<1> QED BY <1>1, ThreadInvariance, PTL
=============================================================================
