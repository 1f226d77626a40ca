-------------------------- MODULE EpollServer_proof --------------------------
(***************************************************************************)
(* Proofs about the epoll server, for any number of clients, workers and   *)
(* descriptors.                                                            *)
(***************************************************************************)
EXTENDS EpollServer, TLAPS

-----------------------------------------------------------------------------
(* The inductive invariant.                                                *)

(* A descriptor is in the epoll set that its number names and in no other, *)
(* and is open while it is there; the one that main() is about to add is   *)
(* in none.                                                                *)
SetsAreOwn ==
    /\ \A w \in Worker : \A f \in interest[w] :
           w = f % NUM_THREADS /\ fds[f] # None
    /\ main = "epoll_ctl" =>
           /\ new_socket \in Fd /\ fds[new_socket] # None
           /\ \A w \in Worker : new_socket \notin interest[w]

(* What a worker has an event for is in its set, and still the connection  *)
(* that epoll_wait reported.                                               *)
EventsInSet ==
    \A w \in Worker : \A e \in Pending(w) :
        e[1] \in interest[w] /\ fds[e[1]] = e[2]

(* The set-up and the closing loop stay in the array of workers, and a     *)
(* worker that closes or prints has an event, which it has taken out of    *)
(* the array.                                                              *)
Loops ==
    /\ main \in {"signal", "setsockopt", "bind", "listen", "epoll_create1",
                 "pthread_create", "close_epoll"} => i < NUM_THREADS
    /\ \A w \in Worker : worker[w].at \in {"close", "print"} =>
           worker[w].event # None /\ worker[w].event \notin worker[w].events

(* TypeOK in parts.                                                        *)
WorkerState ==
    [at : {"none", "failed", "epoll_wait", "recvmsg", "close", "print", "spin"},
     events : SUBSET (Fd \X Client), event : (Fd \X Client) \cup {None},
     bytes_read : Int]

MainType ==
    /\ main \in MainPcs /\ i \in 0..NUM_THREADS
    /\ new_socket \in Fd \cup {None}
    /\ exiting \in BOOLEAN /\ status \in {None, 0, 1, 130}
    /\ queue \in Seq(Client) /\ limit \in Limits
    /\ faults \in 0..MaxFaults

TableType ==
    /\ fds \in [Fd -> Client \cup {None}]
    /\ interest \in [Worker -> SUBSET Fd]
    /\ phase \in [Client -> Phases]

WorkerType == worker \in [Worker -> WorkerState]

ClientType ==
    /\ client \in [Client -> {"connect", "write", "close", "exit"}]
    /\ sent \in [Client -> Nat] /\ arrived \in [Client -> Nat] /\ got \in [Client -> Nat]
    /\ fin \in [Client -> BOOLEAN] /\ reset \in [Client -> BOOLEAN]

Types == MainType /\ TableType /\ WorkerType /\ ClientType

ServerInv == Types /\ SetsAreOwn /\ EventsInSet /\ Loops

LEMMA TypesAreTypeOK == Types <=> TypeOK
BY DEF Types, MainType, TableType, WorkerType, WorkerState, ClientType, TypeOK

-----------------------------------------------------------------------------
(* Descriptors and workers.                                                *)

LEMMA FdIsNat == Fd \subseteq Nat
BY ServerAssumption DEF Fd

LEMMA NewFd ==
    ASSUME Types
    PROVE  FreeFds \subseteq Fd
BY DEF Types, MainType, FreeFds, Fd

LEMMA OwnerIsWorker ==
    ASSUME NEW f \in Fd
    PROVE  f % NUM_THREADS \in Worker
BY FdIsNat, ServerAssumption DEF Worker

-----------------------------------------------------------------------------
(* Every step keeps the invariant.                                         *)

LEMMA NoWorkerType == NoWorker \in WorkerState
BY DEF NoWorker, WorkerState

LEMMA InitInv == Init => ServerInv
<1> SUFFICES ASSUME Init PROVE ServerInv
  OBVIOUS
<1>1. MainType
  <2>1. exiting \in BOOLEAN
    BY Zenon DEF Init
  <2>2. i \in 0..NUM_THREADS /\ faults \in 0..MaxFaults /\ queue \in Seq(Client)
    BY ServerAssumption DEF Init
  <2>3. QED
    BY <2>1, <2>2 DEF Init, MainType, MainPcs
<1>2. TableType /\ ClientType
  BY DEF Init, TableType, ClientType, Phases
<1>3. WorkerType
  BY NoWorkerType DEF Init, WorkerType
<1>4. SetsAreOwn /\ EventsInSet /\ Loops
  BY ServerAssumption DEF Init, SetsAreOwn, EventsInSet, Loops, Pending, NoWorker
<1>5. QED
  BY <1>1, <1>2, <1>3, <1>4 DEF ServerInv, Types

LEMMA ExitInv ==
    ASSUME ServerInv, NEW code \in {0, 1, 130}, Exit(code)
    PROVE  ServerInv'
<1>1. MainType' /\ TableType' /\ ClientType'
  BY DEF ServerInv, Exit, Types, MainType, TableType, ClientType, MainPcs, Phases,
         clientVars, netVars
<1>2. WorkerType'
  BY NoWorkerType DEF Exit, WorkerType
<1>3. SetsAreOwn' /\ EventsInSet' /\ Loops'
  BY DEF Exit, SetsAreOwn, EventsInSet, Loops, Pending, NoWorker
<1>4. QED
  BY <1>1, <1>2, <1>3 DEF ServerInv, Types

LEMMA SetupInv ==
    ASSUME ServerInv, NEW from, NEW to, Setup(from, to),
           <<from, to>> \in {<<"signal", "setsockopt">>, <<"setsockopt", "bind">>,
                             <<"bind", "listen">>, <<"listen", "epoll_create1">>,
                             <<"epoll_create1", "pthread_create">>}
    PROVE  ServerInv'
<1>1. CASE Exit(1)
  BY <1>1, ExitInv
<1>2. CASE ~ Exit(1)
  <2>1. Types'
    BY <1>2 DEF ServerInv, Setup, At, Types, MainType, TableType, WorkerType,
                ClientType, MainPcs, tableVars, clientVars, netVars
  <2>2. SetsAreOwn' /\ EventsInSet' /\ Loops'
    BY <1>2 DEF ServerInv, Setup, At, SetsAreOwn, EventsInSet, Loops, Pending, tableVars
  <2>3. QED
    BY <2>1, <2>2 DEF ServerInv
<1>3. QED
  BY <1>1, <1>2

LEMMA PthreadInv ==
    ASSUME ServerInv, pthread_create
    PROVE  ServerInv'
<1> USE DEF ServerInv, Types
<1>1. i \in Worker /\ i + 1 \in 0..NUM_THREADS
  BY ServerAssumption DEF MainType, Loops, pthread_create, At, Worker
<1>2. PICK at \in {"epoll_wait", "failed"} : worker' = [worker EXCEPT ![i].at = at]
  BY DEF pthread_create
<1>3. WorkerType'
  BY <1>1, <1>2 DEF WorkerType, WorkerState
<1>4. MainType'
  <2>1. main' \in MainPcs /\ i' \in 0..NUM_THREADS
    BY <1>1 DEF pthread_create, MainPcs
  <2>2. faults' \in 0..MaxFaults
    <3>1. faults \in 0..MaxFaults /\ MaxFaults \in Nat
      BY ServerAssumption DEF MainType
    <3>2. faults' = faults \/ (faults < MaxFaults /\ faults' = faults + 1)
      BY DEF pthread_create, Fault
    <3>3. QED
      BY <3>1, <3>2
  <2>3. UNCHANGED <<new_socket, exiting, status, queue, limit>>
    BY DEF pthread_create, tableVars
  <2>4. QED
    BY <2>1, <2>2, <2>3 DEF MainType
<1>5. TableType' /\ ClientType'
  BY DEF pthread_create, TableType, ClientType, tableVars, clientVars, netVars
<1>6. \A w \in Worker : /\ worker'[w].events = worker[w].events
                        /\ worker'[w].event = worker[w].event
                        /\ worker'[w].at \in {worker[w].at, "epoll_wait", "failed"}
  BY <1>1, <1>2 DEF WorkerType, WorkerState
<1>7. SetsAreOwn' /\ EventsInSet'
  BY <1>6 DEF pthread_create, SetsAreOwn, EventsInSet, Pending, tableVars
<1>8. Loops'
  <2>1. i + 1 # NUM_THREADS => i + 1 < NUM_THREADS
    BY <1>1, ServerAssumption
  <2>2. main' = "while" \/ (main' = "epoll_create1" /\ i' < NUM_THREADS)
    BY <2>1 DEF pthread_create
  <2>3. QED
    BY <1>6, <2>2 DEF Loops
<1>9. QED
  BY <1>3, <1>4, <1>5, <1>7, <1>8

LEMMA AcceptLoopInv ==
    ASSUME ServerInv, While \/ AcceptFails \/ CloseServer \/ CloseEpoll \/ sig_int
    PROVE  ServerInv'
<1> USE DEF ServerInv, Types, tableVars, Still
<1>1. MainType'
  <2>1. CASE While \/ AcceptFails \/ sig_int
    <3>1. exiting' \in BOOLEAN
      BY <2>1, Zenon DEF While, AcceptFails, sig_int, MainType
    <3>2. main' \in MainPcs
      BY <2>1 DEF While, AcceptFails, sig_int, MainType, MainPcs
    <3>3. QED
      BY <2>1, <3>1, <3>2 DEF While, AcceptFails, sig_int, MainType
  <2>2. CASE CloseServer
    BY <2>2, ServerAssumption DEF CloseServer, MainType, MainPcs
  <2>3. CASE CloseEpoll
    <3>1. i < NUM_THREADS /\ i \in Nat
      BY <2>3 DEF CloseEpoll, At, Loops, MainType
    <3>2. i + 1 \in 0..NUM_THREADS
      BY <3>1, ServerAssumption
    <3>3. QED
      BY <2>3, <3>2 DEF CloseEpoll, MainType, MainPcs
  <2>4. QED
    BY <2>1, <2>2, <2>3
<1>2. WorkerType' /\ ClientType'
  BY DEF While, AcceptFails, CloseServer, CloseEpoll, sig_int, WorkerType,
         ClientType, clientVars, netVars
<1>3. TableType'
  BY DEF While, AcceptFails, CloseServer, CloseEpoll, sig_int, TableType, Phases
<1>4. SetsAreOwn' /\ EventsInSet'
  BY DEF While, AcceptFails, CloseServer, CloseEpoll, sig_int, At, SetsAreOwn,
         EventsInSet, Pending
<1>5. Loops'
  BY ServerAssumption
  DEF While, AcceptFails, CloseServer, CloseEpoll, sig_int, At, MainType, Loops
<1>6. QED
  BY <1>1, <1>2, <1>3, <1>4, <1>5

(* The number that accept() hands out is in no epoll set, so that no       *)
(* worker has an event for it.                                             *)
LEMMA AcceptInv ==
    ASSUME ServerInv, Accept
    PROVE  ServerInv'
<1> USE DEF ServerInv, Types, Still
<1>1. PICK f \in FreeFds :
          new_socket' = f /\ fds' = [fds EXCEPT ![f] = Head(queue)]
  BY DEF Accept
<1>2. f \in Fd /\ fds[f] = None
  BY NewFd DEF FreeFds
<1>3. Head(queue) \in Client /\ queue' \in Seq(Client)
  BY DEF Accept, MainType
<1>4. MainType' /\ TableType'
  BY <1>1, <1>2, <1>3 DEF Accept, MainType, TableType, MainPcs
<1>5. WorkerType' /\ ClientType'
  BY DEF Accept, WorkerType, ClientType, clientVars, netVars
<1>6. \A w \in Worker : f \notin interest[w]
  BY <1>2 DEF SetsAreOwn
<1>7. SetsAreOwn'
  BY <1>1, <1>2, <1>3, <1>6, ServerAssumption DEF Accept, TableType, SetsAreOwn
<1>8. EventsInSet'
  BY <1>1, <1>2, <1>6 DEF Accept, TableType, EventsInSet, Pending
<1>9. Loops'
  BY DEF Accept, Loops
<1>10. QED
  BY <1>4, <1>5, <1>7, <1>8, <1>9

LEMMA EpollCtlInv ==
    ASSUME ServerInv, epoll_ctl
    PROVE  ServerInv'
<1> USE DEF ServerInv, Types, Still
<1>1. new_socket \in Fd
  BY DEF epoll_ctl, At, SetsAreOwn
<1>2. PICK t \in Worker : t = new_socket % NUM_THREADS
  BY <1>1, OwnerIsWorker
<1>3. interest' = [interest EXCEPT ![t] = @ \cup {new_socket}] \/ interest' = interest
  BY <1>2 DEF epoll_ctl, Added
<1>4. MainType' /\ WorkerType' /\ ClientType'
  BY ServerAssumption
  DEF epoll_ctl, MainType, WorkerType, ClientType, MainPcs, Fault, clientVars, netVars
<1>5. TableType'
  BY <1>1, <1>3 DEF epoll_ctl, TableType
<1>6. SetsAreOwn'
  <2>1. ASSUME NEW w \in Worker, NEW f \in interest'[w]
        PROVE  w = f % NUM_THREADS /\ fds[f] # None
    BY <1>2, <1>3, <2>1 DEF epoll_ctl, At, TableType, SetsAreOwn
  <2>2. QED
    BY <2>1 DEF epoll_ctl, SetsAreOwn
<1>7. EventsInSet'
  BY <1>3 DEF epoll_ctl, TableType, EventsInSet, Pending
<1>8. Loops'
  BY DEF epoll_ctl, Loops
<1>9. QED
  BY <1>4, <1>5, <1>6, <1>7, <1>8

-----------------------------------------------------------------------------
(* The workers.                                                            *)

(* The fields that a step of a worker leaves alone in the others.          *)
LEMMA OtherWorkers ==
    ASSUME ServerInv, NEW w \in Worker, WorkerStep(w)
    PROVE  \A v \in Worker \ {w} : worker'[v] = worker[v]
BY DEF ServerInv, Types, WorkerType, WorkerStep, epoll_wait, recvmsg, Close,
       PrintMessage, NextEvent

(* No two workers have events for one descriptor: it is in one set only.   *)
LEMMA SetsAreDisjoint ==
    ASSUME ServerInv, NEW w \in Worker, NEW v \in Worker, NEW f \in interest[w],
           f \in interest[v]
    PROVE  v = w
BY DEF ServerInv, SetsAreOwn

LEMMA RecordUpdate ==
    ASSUME NEW A, NEW B, NEW C, NEW D,
           NEW r \in [at : A, events : B, event : C, bytes_read : D],
           NEW at \in A, NEW event \in C, NEW bytes_read \in D
    PROVE  [r EXCEPT !.at = at, !.event = event, !.bytes_read = bytes_read]
               \in [at : A, events : B, event : C, bytes_read : D]
OBVIOUS

LEMMA WorkerUpdate ==
    ASSUME WorkerType, NEW w \in Worker, NEW r \in WorkerState,
           worker' = [worker EXCEPT ![w] = r]
    PROVE  WorkerType' /\ worker'[w] = r
BY DEF WorkerType

LEMMA WorkerMain ==
    ASSUME ServerInv, NEW w \in Worker, WorkerStep(w)
    PROVE  MainType'
BY DEF ServerInv, Types, MainType, WorkerStep, epoll_wait, recvmsg, Close,
       PrintMessage, WorkerFrame, mainVars, tableVars

LEMMA EpollWaitInv ==
    ASSUME ServerInv, NEW w \in Worker, epoll_wait(w)
    PROVE  ServerInv'
<1> USE DEF ServerInv, Types
<1>1. PICK F \in SUBSET ReadyFds(w) :
          worker' = [worker EXCEPT ![w].at = "recvmsg",
                                   ![w].events = {<<f, fds[f]>> : f \in F}]
  BY DEF epoll_wait
<1>2. \A f \in F : f \in Fd /\ f \in interest[w] /\ fds[f] \in Client
  BY DEF ReadyFds, SetsAreOwn, TableType
<1>3. {<<f, fds[f]>> : f \in F} \subseteq Fd \X Client
  BY <1>2
<1> DEFINE r == [worker[w] EXCEPT !.at = "recvmsg",
                                  !.events = {<<f, fds[f]>> : f \in F}]
<1>4. r \in WorkerState /\ worker' = [worker EXCEPT ![w] = r]
  <2>1. worker[w] \in WorkerState
    BY DEF WorkerType
  <2>2. r \in WorkerState
    BY <1>3, <2>1 DEF WorkerState
  <2>3. QED
    BY <1>1, <2>2
<1>5. WorkerType' /\ worker'[w] = r
  <2> HIDE DEF r
  <2> QED
    BY <1>4, WorkerUpdate
<1>6. MainType' /\ TableType' /\ ClientType'
  BY WorkerMain
  DEF WorkerStep, epoll_wait, TableType, ClientType, WorkerFrame, tableVars,
      clientVars, netVars
<1>7. SetsAreOwn'
  BY DEF epoll_wait, SetsAreOwn, WorkerFrame, mainVars, tableVars
<1>8. EventsInSet'
  <2>1. \A e \in Pending(w)' : e[1] \in interest[w] /\ fds[e[1]] = e[2]
    BY <1>2, <1>5 DEF EventsInSet, Pending, WorkerType, WorkerState
  <2>2. \A v \in Worker \ {w} : Pending(v)' = Pending(v)
    BY OtherWorkers DEF WorkerStep, Pending
  <2>3. QED
    BY <2>1, <2>2 DEF epoll_wait, EventsInSet, tableVars
<1>9. Loops'
  <2>1. worker'[w].at = "recvmsg" /\ \A v \in Worker \ {w} : worker'[v] = worker[v]
    BY <1>5, OtherWorkers DEF WorkerStep, WorkerType, WorkerState
  <2>2. main' = main /\ i' = i
    BY DEF epoll_wait, WorkerFrame, mainVars
  <2>3. QED
    BY <2>1, <2>2 DEF Loops
<1>10. QED
  BY <1>5, <1>6, <1>7, <1>8, <1>9

LEMMA RecvmsgInv ==
    ASSUME ServerInv, NEW w \in Worker, NEW e \in worker[w].events, recvmsg(w, e)
    PROVE  ServerInv'
<1> USE DEF ServerInv, Types
<1>1. e \in Fd \X Client /\ e # None /\ fds[e[1]] = e[2]
  BY ServerAssumption DEF WorkerType, WorkerState, EventsInSet, Pending
<1>2. PICK n \in Int : n = BytesRead(fds[e[1]])
  BY <1>1, ServerAssumption DEF BytesRead, ClientType
<1>3. fds[e[1]] \in Client /\ fds[e[1]] # None
  BY <1>1, ServerAssumption
<1> DEFINE at == IF Finished(n) THEN "close" ELSE "print"
           r == [worker[w] EXCEPT !.at = at, !.events = @ \ {e}, !.event = e,
                                  !.bytes_read = n]
<1>4. /\ worker' = [worker EXCEPT ![w] = r]
      /\ got' = IF n > 0 THEN [got EXCEPT ![fds[e[1]]] = @ + n] ELSE got
  BY <1>2, <1>3 DEF recvmsg
<1>5. r \in WorkerState
  <2>1. worker[w] \in WorkerState /\ at \in {"close", "print"}
    BY DEF WorkerType
  <2> HIDE DEF at
  <2>2. QED
    BY <1>1, <2>1 DEF WorkerState
<1>6. WorkerType' /\ worker'[w] = r
  <2> HIDE DEF r
  <2> QED
    BY <1>4, <1>5, WorkerUpdate
<1>7. /\ worker'[w].events = worker[w].events \ {e} /\ worker'[w].event = e
      /\ worker'[w].at = at
  BY <1>6 DEF WorkerType, WorkerState
<1> HIDE DEF at, r
<1>8. MainType' /\ TableType'
  BY WorkerMain DEF WorkerStep, recvmsg, TableType, tableVars
<1>9. ClientType'
  <2>1. got' \in [Client -> Nat]
    BY <1>3, <1>4 DEF ClientType
  <2>2. QED
    BY <2>1 DEF recvmsg, ClientType, WorkerFrame, clientVars, netVars
<1>10. SetsAreOwn'
  BY DEF recvmsg, SetsAreOwn, WorkerFrame, mainVars, tableVars
<1>11. EventsInSet'
  <2>1. Pending(w)' \subseteq Pending(w)
    BY <1>7 DEF Pending
  <2>2. \A v \in Worker \ {w} : Pending(v)' = Pending(v)
    BY OtherWorkers DEF WorkerStep, Pending
  <2>3. QED
    BY <2>1, <2>2 DEF recvmsg, EventsInSet, tableVars
<1>12. Loops'
  <2>1. worker'[w].event # None /\ worker'[w].event \notin worker'[w].events
    BY <1>1, <1>7
  <2>2. QED
    BY <2>1, OtherWorkers DEF WorkerStep, recvmsg, Loops, WorkerFrame, mainVars
<1>13. QED
  BY <1>6, <1>8, <1>9, <1>10, <1>11, <1>12

(* The worker that turns to its next event forgets the one it had.         *)
LEMMA NextEventFacts ==
    ASSUME ServerInv, NEW w \in Worker, NextEvent(w)
    PROVE  /\ WorkerType'
           /\ Pending(w)' = worker[w].events
           /\ worker'[w].at \notin {"close", "print"}
<1> USE DEF ServerInv, Types
<1>1. PICK at \in {"recvmsg", "spin", "epoll_wait"} :
          worker' = [worker EXCEPT ![w].at = at, ![w].event = None, ![w].bytes_read = 0]
  BY DEF NextEvent
<1> DEFINE r == [worker[w] EXCEPT !.at = at, !.event = None, !.bytes_read = 0]
<1>2. r \in WorkerState /\ worker' = [worker EXCEPT ![w] = r]
  <2>1. worker[w] \in WorkerState
    BY DEF WorkerType
  <2>2. at \in {"none", "failed", "epoll_wait", "recvmsg", "close", "print", "spin"}
    BY <1>1
  <2>3. r \in WorkerState
    <3>1. None \in (Fd \X Client) \cup {None} /\ 0 \in Int
      OBVIOUS
    <3>2. QED
      BY <2>1, <2>2, <3>1, RecordUpdate, Zenon DEF WorkerState
  <2>4. QED
    BY <1>1, <2>3
<1>3. WorkerType' /\ worker'[w] = r
  <2> HIDE DEF r
  <2> QED
    BY <1>2, WorkerUpdate
<1>4. worker'[w].events = worker[w].events /\ worker'[w].event = None /\ worker'[w].at = at
  BY <1>3 DEF WorkerType, WorkerState
<1>5. QED
  BY <1>3, <1>4 DEF Pending

(* close() takes the descriptor out of the only set that had it; the other *)
(* events of the worker are for other descriptors.                         *)
LEMMA CloseInv ==
    ASSUME ServerInv, NEW w \in Worker, Close(w)
    PROVE  ServerInv'
<1> USE DEF ServerInv, Types
<1>1. WorkerStep(w) /\ NextEvent(w)
  BY DEF WorkerStep, Close
<1>2. PICK f : f = worker[w].event[1]
  OBVIOUS
<1>3. f \in interest[w] /\ f \in Fd /\ fds[f] \in Client
  BY <1>2 DEF Close, Loops, EventsInSet, Pending, WorkerType, WorkerState, TableType
<1>4. /\ fds' = [fds EXCEPT ![f] = None]
      /\ interest' = [v \in Worker |-> interest[v] \ {f}]
  BY <1>2 DEF Close
<1>5. MainType' /\ WorkerType' /\ ClientType'
  BY <1>1, WorkerMain, NextEventFacts
  DEF Close, ClientType, WorkerFrame, clientVars, netVars
<1>6. TableType'
  <2>1. phase' \in [Client -> Phases]
    BY <1>2, <1>3 DEF Close, TableType, Phases
  <2>2. QED
    BY <1>3, <1>4, <2>1 DEF TableType
<1>7. SetsAreOwn'
  BY <1>3, <1>4 DEF Close, SetsAreOwn, WorkerFrame, mainVars, TableType
<1>8. EventsInSet'
  <2>1. ASSUME NEW e \in worker[w].events
        PROVE  e[1] \in interest[w] /\ fds[e[1]] = e[2] /\ e[1] # f
    <3>1. e \in Fd \X Client /\ e \in Pending(w) /\ e[1] \in interest[w] /\ fds[e[1]] = e[2]
      BY DEF WorkerType, WorkerState, EventsInSet, Pending
    <3>2. /\ worker[w].event \in Fd \X Client /\ worker[w].event \in Pending(w)
          /\ fds[f] = worker[w].event[2] /\ e # worker[w].event
      BY <1>2 DEF Close, Loops, WorkerType, WorkerState, EventsInSet, Pending
    <3>3. QED
      BY <1>2, <3>1, <3>2
  <2>2. ASSUME NEW v \in Worker \ {w}, NEW e \in Pending(v)
        PROVE  e[1] \in interest[v] /\ fds[e[1]] = e[2] /\ e[1] # f
    BY <1>3, SetsAreDisjoint DEF EventsInSet
  <2>3. ASSUME NEW v \in Worker, NEW e \in Pending(v)'
        PROVE  e[1] \in interest[v] /\ fds[e[1]] = e[2] /\ e[1] # f
    <3>1. CASE v = w
      BY <1>1, <2>1, <3>1, NextEventFacts
    <3>2. CASE v # w
      BY <1>1, <2>2, <3>2, OtherWorkers DEF Pending
    <3>3. QED
      BY <3>1, <3>2
  <2>4. QED
    BY <1>4, <2>3 DEF EventsInSet, TableType
<1>9. Loops'
  BY <1>1, OtherWorkers, NextEventFacts DEF Close, Loops, WorkerFrame, mainVars
<1>10. QED
  BY <1>5, <1>6, <1>7, <1>8, <1>9

LEMMA PrintInv ==
    ASSUME ServerInv, NEW w \in Worker, PrintMessage(w)
    PROVE  ServerInv'
<1> USE DEF ServerInv, Types
<1>1. WorkerStep(w) /\ NextEvent(w)
  BY DEF WorkerStep, PrintMessage
<1>2. MainType' /\ WorkerType' /\ TableType' /\ ClientType'
  BY <1>1, WorkerMain, NextEventFacts
  DEF PrintMessage, TableType, ClientType, WorkerFrame, tableVars, clientVars, netVars
<1>3. SetsAreOwn'
  BY DEF PrintMessage, SetsAreOwn, WorkerFrame, mainVars, tableVars
<1>4. EventsInSet'
  <2>1. \A v \in Worker : Pending(v)' \subseteq Pending(v)
    BY <1>1, OtherWorkers, NextEventFacts DEF Pending
  <2>2. QED
    BY <2>1 DEF PrintMessage, EventsInSet, tableVars
<1>5. Loops'
  BY <1>1, OtherWorkers, NextEventFacts
  DEF PrintMessage, Loops, WorkerFrame, mainVars
<1>6. QED
  BY <1>2, <1>3, <1>4, <1>5

-----------------------------------------------------------------------------
(* The clients and the network change nothing of the server.               *)

LEMMA ClientInv ==
    ASSUME ServerInv, NEW c \in Client, ClientStep(c) \/ Deliver(c) \/ Reset(c)
    PROVE  ServerInv'
<1> USE DEF ServerInv, Types
<1>1. ServerFrame
  BY DEF ClientStep, connect, ConnectFails, Write, CloseClient, Deliver, Reset
<1>2. WorkerType' /\ SetsAreOwn' /\ EventsInSet' /\ Loops'
  BY <1>1 DEF ServerFrame, mainVars, tableVars, WorkerType, SetsAreOwn, EventsInSet,
              Pending, Loops
<1>3. MainType'
  <2>1. queue' \in Seq(Client)
    BY DEF ClientStep, connect, ConnectFails, Write, CloseClient, Deliver, Reset, MainType
  <2>2. faults' \in 0..MaxFaults
    BY ServerAssumption DEF ClientStep, connect, ConnectFails, Write, CloseClient,
       Deliver, Reset, MainType, Fault
  <2>3. QED
    BY <1>1, <2>1, <2>2 DEF ServerFrame, mainVars, tableVars, MainType
<1>4. TableType'
  <2>1. phase' \in [Client -> Phases]
    BY DEF ClientStep, connect, ConnectFails, Write, CloseClient, Deliver, Reset,
           TableType, Phases
  <2>2. QED
    BY <1>1, <2>1 DEF ServerFrame, tableVars, TableType
<1>5. ClientType'
  <2>1. client' \in [Client -> {"connect", "write", "close", "exit"}]
    BY DEF ClientStep, connect, ConnectFails, Write, CloseClient, Deliver, Reset,
           ClientType, clientVars
  <2>2. sent' \in [Client -> Nat]
    <3>1. sent' = sent \/ sent' = [sent EXCEPT ![c] = @ + MSG_LEN]
      BY DEF ClientStep, connect, ConnectFails, Write, CloseClient, Deliver, Reset,
             clientVars
    <3>2. QED
      BY <3>1, ServerAssumption DEF ClientType
  <2>3. arrived' \in [Client -> Nat]
    BY DEF ClientStep, connect, ConnectFails, Write, CloseClient, Deliver, Reset,
           ClientType, netVars
  <2>4. fin' \in [Client -> BOOLEAN] /\ reset' \in [Client -> BOOLEAN]
    BY DEF ClientStep, connect, ConnectFails, Write, CloseClient, Deliver, Reset,
           ClientType, netVars
  <2>5. QED
    BY <1>1, <2>1, <2>2, <2>3, <2>4 DEF ServerFrame, ClientType
<1>6. QED
  BY <1>2, <1>3, <1>4, <1>5

-----------------------------------------------------------------------------
(* The theorems.                                                           *)

LEMMA NextInv == ServerInv /\ [Next]_vars => ServerInv'
<1> SUFFICES ASSUME ServerInv, [Next]_vars PROVE ServerInv'
  OBVIOUS
<1>1. CASE Signal \/ Setsockopt \/ Bind \/ Listen \/ epoll_create1
  BY <1>1, SetupInv DEF Signal, Setsockopt, Bind, Listen, epoll_create1
<1>2. CASE pthread_create
  BY <1>2, PthreadInv
<1>3. CASE While \/ AcceptFails \/ CloseServer \/ CloseEpoll \/ sig_int
  BY <1>3, AcceptLoopInv
<1>4. CASE Accept
  BY <1>4, AcceptInv
<1>5. CASE epoll_ctl
  BY <1>5, EpollCtlInv
<1>6. CASE Return \/ SigintKills
  BY <1>6, ExitInv DEF Return, SigintKills
<1>7. ASSUME NEW w \in Worker, WorkerStep(w) PROVE ServerInv'
  BY <1>7, EpollWaitInv, RecvmsgInv, CloseInv, PrintInv DEF WorkerStep
<1>8. ASSUME NEW c \in Client, ClientStep(c) \/ Deliver(c) \/ Reset(c) PROVE ServerInv'
  BY <1>8, ClientInv
<1>9. CASE UNCHANGED vars
  BY <1>9 DEF vars, mainVars, tableVars, clientVars, netVars, ServerInv, Types,
     MainType, TableType, WorkerType, ClientType, SetsAreOwn, EventsInSet, Pending, Loops
<1>10. QED
  BY <1>1, <1>2, <1>3, <1>4, <1>5, <1>6, <1>7, <1>8, <1>9 DEF Next, Main

LEMMA AlwaysInv == Spec => []ServerInv
BY InitInv, NextInv, PTL DEF Spec

(* The server keeps its types, whatever the number of workers and clients. *)
THEOREM TypeCorrect == Spec => []TypeOK
<1>1. ServerInv => TypeOK
  BY TypesAreTypeOK DEF ServerInv
<1>2. QED
  BY <1>1, AlwaysInv, PTL

(* No worker ever acts on a stale event: although workers close            *)
(* descriptors while main() accepts, and nobody takes a lock, the          *)
(* descriptor of an event is still the connection that epoll_wait          *)
(* reported, and no other worker has an event for it.                      *)
THEOREM EventsStayOwn == Spec => []EventsAreOwn
<1>1. ServerInv => EventsAreOwn
  BY SetsAreDisjoint DEF ServerInv, EventsInSet, EventsAreOwn
<1>2. QED
  BY <1>1, AlwaysInv, PTL

-----------------------------------------------------------------------------
(* The terminator.                                                         *)

(* A client writes once, and nothing arrives that it has not written.      *)
WrittenOnce ==
    \A c \in Client :
        /\ client[c] \in {"connect", "write"} => sent[c] = 0
        /\ sent[c] <= MSG_LEN /\ arrived[c] <= sent[c]

(* So no receive returns more than one message.                            *)
OneMessage ==
    \A w \in Worker : worker[w].at = "print" => worker[w].bytes_read <= MSG_LEN

LEMMA WrittenInv ==
    ASSUME ServerInv, WrittenOnce, [Next]_vars
    PROVE  WrittenOnce'
<1> USE DEF ServerInv, Types
<1>1. ASSUME NEW c \in Client, Write(c) PROVE WrittenOnce'
  <2>1. /\ sent' = [sent EXCEPT ![c] = @ + MSG_LEN] /\ arrived' = arrived
        /\ client' = [client EXCEPT ![c] = "close"] /\ sent[c] = 0
    BY <1>1 DEF Write, WrittenOnce, netVars
  <2>2. sent'[c] = MSG_LEN /\ arrived[c] <= MSG_LEN
    BY <2>1, ServerAssumption DEF ClientType, WrittenOnce
  <2>3. QED
    BY <2>1, <2>2, ServerAssumption DEF ClientType, WrittenOnce
<1>2. ASSUME NEW c \in Client, connect(c) \/ ConnectFails(c) \/ CloseClient(c) \/ Reset(c)
      PROVE  WrittenOnce'
  BY <1>2 DEF connect, ConnectFails, CloseClient, Reset, WrittenOnce, ClientType,
              clientVars, netVars
<1>3. ASSUME NEW c \in Client, Deliver(c) PROVE WrittenOnce'
  <2>1. sent' = sent /\ client' = client
    BY <1>3 DEF Deliver, clientVars
  <2>2. arrived' = arrived
        \/ \E n \in (arrived[c] + 1)..sent[c] : arrived' = [arrived EXCEPT ![c] = n]
    BY <1>3 DEF Deliver
  <2>3. QED
    BY <2>1, <2>2 DEF ClientType, WrittenOnce
<1>4. CASE UNCHANGED <<client, sent, arrived>>
  BY <1>4 DEF WrittenOnce
<1>5. Main \/ sig_int \/ SigintKills \/ (\E w \in Worker : WorkerStep(w))
          \/ UNCHANGED vars
      => UNCHANGED <<client, sent, arrived>>
  <2> USE DEF clientVars, netVars
  <2>1. Signal \/ Setsockopt \/ Bind \/ Listen \/ epoll_create1 \/ pthread_create
        => UNCHANGED <<client, sent, arrived>>
    BY DEF Signal, Setsockopt, Bind, Listen, epoll_create1, Setup, pthread_create,
           Exit, Still
  <2>2. While \/ Accept \/ AcceptFails \/ epoll_ctl \/ CloseServer \/ CloseEpoll \/ Return
        => UNCHANGED <<client, sent, arrived>>
    BY DEF While, Accept, AcceptFails, epoll_ctl, CloseServer, CloseEpoll, Return,
           Exit, Still
  <2>3. sig_int \/ SigintKills \/ UNCHANGED vars => UNCHANGED <<client, sent, arrived>>
    BY DEF sig_int, SigintKills, Exit, Still, vars
  <2>4. (\E w \in Worker : WorkerStep(w)) => UNCHANGED <<client, sent, arrived>>
    <3>1. \A w : epoll_wait(w) \/ Close(w) \/ PrintMessage(w) => WorkerFrame
      BY DEF epoll_wait, Close, PrintMessage
    <3>2. \A w, e : recvmsg(w, e) => WorkerFrame
      BY DEF recvmsg
    <3>3. QED
      BY <3>1, <3>2 DEF WorkerStep, WorkerFrame
  <2>5. QED
    BY <2>1, <2>2, <2>3, <2>4 DEF Main
<1>6. QED
  BY <1>1, <1>2, <1>3, <1>4, <1>5 DEF Next, ClientStep

LEMMA OneMessageInv ==
    ASSUME ServerInv, WrittenOnce, OneMessage, [Next]_vars
    PROVE  OneMessage'
<1> USE DEF ServerInv, Types
<1>1. CASE worker' = worker
  BY <1>1 DEF OneMessage
<1>2. CASE pthread_create
  <2>1. i \in Worker
    BY <1>2, ServerAssumption DEF MainType, Loops, pthread_create, At, Worker
  <2>2. \A w \in Worker : worker'[w].bytes_read = worker[w].bytes_read
                          /\ worker'[w].at \in {worker[w].at, "epoll_wait", "failed"}
    BY <1>2, <2>1 DEF pthread_create, WorkerType, WorkerState
  <2>3. QED
    BY <2>2 DEF OneMessage
<1>3. ASSUME NEW code, Exit(code) PROVE OneMessage'
  BY <1>3 DEF Exit, OneMessage, NoWorker
<1>4. ASSUME NEW w \in Worker, WorkerStep(w) PROVE OneMessage'
  <2>1. SUFFICES worker'[w].at = "print" => worker'[w].bytes_read <= MSG_LEN
    BY <1>4, OtherWorkers DEF OneMessage
  <2>2. CASE epoll_wait(w)
    BY <2>2 DEF epoll_wait, WorkerType
  <2>3. ASSUME NEW e \in worker[w].events, recvmsg(w, e)
        PROVE  worker'[w].bytes_read <= MSG_LEN
    <3>1. e \in Fd \X Client /\ fds[e[1]] = e[2]
      BY DEF WorkerType, WorkerState, EventsInSet, Pending
    <3>2. PICK c \in Client : c = fds[e[1]]
      BY <3>1
    <3>3. BytesRead(c) <= MSG_LEN
      BY ServerAssumption DEF BytesRead, ClientType, WrittenOnce
    <3>4. worker'[w].bytes_read = BytesRead(c)
      BY <2>3, <3>2, ServerAssumption DEF recvmsg, WorkerType, WorkerState
    <3>5. QED
      BY <3>3, <3>4
  <2>4. CASE Close(w) \/ PrintMessage(w)
    BY <2>4, NextEventFacts DEF Close, PrintMessage
  <2>5. QED
    BY <1>4, <2>2, <2>3, <2>4 DEF WorkerStep
<1>5. ASSUME NEW from, NEW to, Setup(from, to) PROVE OneMessage'
  BY <1>1, <1>3, <1>5 DEF Setup
<1>6. CASE Signal \/ Setsockopt \/ Bind \/ Listen \/ epoll_create1
  BY <1>5, <1>6 DEF Signal, Setsockopt, Bind, Listen, epoll_create1
<1>7. CASE Return \/ SigintKills
  BY <1>3, <1>7 DEF Return, SigintKills
<1>8. CASE While \/ Accept \/ AcceptFails \/ epoll_ctl \/ CloseServer \/ CloseEpoll
           \/ sig_int \/ UNCHANGED vars
  BY <1>1, <1>8 DEF While, Accept, AcceptFails, epoll_ctl, CloseServer, CloseEpoll,
                    sig_int, vars
<1>9. ASSUME NEW c \in Client, ClientStep(c) \/ Deliver(c) \/ Reset(c) PROVE OneMessage'
  BY <1>1, <1>9 DEF ClientStep, connect, ConnectFails, Write, CloseClient, Deliver,
                    Reset, ServerFrame
<1>10. QED
  BY <1>2, <1>4, <1>6, <1>7, <1>8, <1>9 DEF Next, Main

(* With a message shorter than the buffer, as the clients of the           *)
(* repository send it, buffer[bytes_read] is a byte of the buffer: one     *)
(* receive never gets more than one message, however the network cuts or   *)
(* joins it.                                                               *)
THEOREM TerminatorStaysInBuffer ==
    ASSUME MSG_LEN < BUFFER_SIZE
    PROVE  Spec => []TerminatorInBuffer
<1> DEFINE Inv == ServerInv /\ WrittenOnce /\ OneMessage
<1>1. Init => Inv
  BY InitInv, ServerAssumption DEF Init, WrittenOnce, OneMessage, NoWorker
<1>2. Inv /\ [Next]_vars => Inv'
  BY NextInv, WrittenInv, OneMessageInv
<1>3. Inv => TerminatorInBuffer
  <2>1. ASSUME Inv, NEW w \in Worker, worker[w].at = "print"
        PROVE  worker[w].bytes_read < BUFFER_SIZE
    <3>1. worker[w].bytes_read \in Int /\ worker[w].bytes_read <= MSG_LEN
      BY <2>1 DEF ServerInv, Types, WorkerType, WorkerState, OneMessage
    <3>2. QED
      BY <3>1, ServerAssumption
  <2>2. QED
    BY <2>1 DEF TerminatorInBuffer
<1>4. QED
  BY <1>1, <1>2, <1>3, PTL DEF Spec
=============================================================================
