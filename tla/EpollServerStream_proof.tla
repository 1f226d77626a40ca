----------------------- MODULE EpollServerStream_proof -----------------------
(***************************************************************************)
(* The epoll server implements ByteStream, for any number of clients,      *)
(* workers and descriptors.                                                *)
(***************************************************************************)
EXTENDS EpollServer_proof, SequenceTheorems

-----------------------------------------------------------------------------
(* The inductive invariant.                                                *)

InQueue(c) == \E k \in 1..Len(queue) : queue[k] = c
InTable(c) == \E f \in Fd : fds[f] = c

(* A connection that the server has is open, and the server has it once:   *)
(* in the queue, or behind one descriptor.                                 *)
OnePlace ==
    /\ \A k, l \in 1..Len(queue) : queue[k] = queue[l] => k = l
    /\ \A k \in 1..Len(queue), f \in Fd : queue[k] # fds[f]
    /\ \A f, g \in Fd : fds[f] = fds[g] /\ fds[f] # None => f = g
    /\ \A c \in Client : InQueue(c) \/ InTable(c) => phase[c] = "open"

(* The life of a client and of its bytes.                                  *)
Lives ==
    \A c \in Client :
        /\ client[c] = "connect" => phase[c] = "none"
        /\ client[c] \in {"write", "close"} => phase[c] # "none"
        /\ got[c] <= arrived[c]
        /\ fin[c] => client[c] = "exit" /\ arrived[c] = sent[c]

(* An event has a reason until its receive, and a connection that a worker *)
(* is about to close has ended: with all of it received, or by a reset.    *)
Reasons ==
    /\ \A w \in Worker : \A e \in worker[w].events : Ready(e[2])
    /\ \A w \in Worker : worker[w].at = "close" =>
           LET c == worker[w].event[2]
           IN  IF worker[w].bytes_read = 0 THEN fin[c] /\ got[c] = arrived[c]
               ELSE reset[c]

Ending == main \in {"close", "close_epoll", "return"} => exiting

StreamInv == ServerInv /\ WrittenOnce /\ OnePlace /\ Lives /\ Reasons /\ Ending

-----------------------------------------------------------------------------
(* What the steps of the server leave alone.                               *)

(* The steps of main() and the signal handler that only move on.           *)
MainMoves ==
    \/ While \/ AcceptFails \/ CloseEpoll \/ sig_int \/ pthread_create \/ epoll_ctl
    \/ UNCHANGED vars

Ends == \E code \in {0, 1, 130} : Exit(code)

(* Next, by what a step does to the connections.                           *)
LEMMA NextCases ==
    ASSUME [Next]_vars
    PROVE  \/ MainMoves \/ Ends \/ Accept \/ CloseServer
           \/ \E from, to : Setup(from, to) /\ ~ Ends /\ to \notin {"close", "close_epoll", "return"}
           \/ \E w \in Worker : epoll_wait(w) \/ PrintMessage(w) \/ Close(w)
           \/ \E w \in Worker : \E e \in worker[w].events : recvmsg(w, e)
           \/ \E c \in Client : connect(c) \/ ConnectFails(c) \/ Write(c) \/ CloseClient(c)
           \/ \E c \in Client : Deliver(c) \/ Reset(c)
<1>1. CASE Signal \/ Setsockopt \/ Bind \/ Listen \/ epoll_create1
  BY <1>1 DEF Signal, Setsockopt, Bind, Listen, epoll_create1, Ends
<1>2. CASE Return \/ SigintKills
  BY <1>2 DEF Return, SigintKills, Ends
<1>3. CASE UNCHANGED vars
  BY <1>3 DEF MainMoves
<1>4. CASE Next /\ ~ (Signal \/ Setsockopt \/ Bind \/ Listen \/ epoll_create1)
                /\ ~ (Return \/ SigintKills)
  BY <1>4 DEF Next, Main, WorkerStep, ClientStep, MainMoves
<1>5. QED
  BY <1>1, <1>2, <1>3, <1>4

LEMMA MoveFrame ==
    ASSUME MainMoves
    PROVE  UNCHANGED <<queue, fds, phase, client, sent, arrived, fin, reset, got>>
BY DEF MainMoves, While, AcceptFails, CloseEpoll, sig_int, pthread_create, epoll_ctl,
       Still, tableVars, clientVars, netVars, vars

LEMMA SetupFrame ==
    ASSUME NEW from, NEW to, Setup(from, to), ~ Ends
    PROVE  /\ UNCHANGED <<queue, fds, phase, client, sent, arrived, fin, reset, got>>
           /\ UNCHANGED <<worker, exiting, status>> /\ main' = to
BY DEF Setup, Ends, tableVars, clientVars, netVars

LEMMA WorkerStepFrame ==
    ASSUME NEW w \in Worker, WorkerStep(w)
    PROVE  UNCHANGED <<queue, client, sent, arrived, fin, reset, main, exiting, status>>
BY DEF WorkerStep, epoll_wait, recvmsg, Close, PrintMessage, WorkerFrame, mainVars,
       clientVars, netVars

LEMMA ClientStepFrame ==
    ASSUME NEW c \in Client, ClientStep(c) \/ Deliver(c) \/ Reset(c)
    PROVE  UNCHANGED <<fds, worker, got, main, exiting, status>>
BY DEF ClientStep, connect, ConnectFails, Write, CloseClient, Deliver, Reset,
       ServerFrame, mainVars, tableVars

-----------------------------------------------------------------------------
(* The parts of the invariant.                                             *)

LEMMA OnePlaceInv ==
    ASSUME StreamInv, [Next]_vars
    PROVE  OnePlace'
<1> USE DEF StreamInv, ServerInv, Types
<1>1. CASE UNCHANGED <<queue, fds, phase>>
  BY <1>1 DEF OnePlace, InQueue, InTable
<1>2. CASE Ends
  <2>1. Len(queue') = 0
    BY <1>2, EmptySeq DEF Ends, Exit
  <2>2. \A f \in Fd : fds'[f] = None
    BY <1>2 DEF Ends, Exit
  <2>3. QED
    BY <2>1, <2>2, ServerAssumption DEF OnePlace, InQueue, InTable
<1>3. CASE Accept
  <2>1. PICK f \in FreeFds : fds' = [fds EXCEPT ![f] = Head(queue)]
    BY <1>3 DEF Accept
  <2>2. f \in Fd /\ fds[f] = None
    BY NewFd DEF FreeFds
  <2>3. queue # <<>> /\ queue' = Tail(queue) /\ queue \in Seq(Client) /\ phase' = phase
    BY <1>3 DEF Accept, MainType
  <2>4. /\ Len(queue) \in Nat \ {0} /\ Len(queue') = Len(queue) - 1
        /\ \A k \in 1..Len(queue') : queue'[k] = queue[k + 1]
    BY <2>3, EmptySeq, HeadTailProperties
  <2>5. \A k \in 1..Len(queue') : k + 1 \in 1..Len(queue) /\ k + 1 # 1
    BY <2>4
  <2>6. 1 \in 1..Len(queue) /\ Head(queue) = queue[1] /\ queue[1] \in Client
    BY <2>3, <2>4, ElementOfSeq
  <2>7. \A g \in Fd : fds'[g] = IF g = f THEN queue[1] ELSE fds[g]
    BY <2>1, <2>2, <2>6 DEF TableType
  <2>8. \A k, l \in 1..Len(queue') : queue'[k] = queue'[l] => k = l
    <3>1. SUFFICES ASSUME NEW k \in 1..Len(queue'), NEW l \in 1..Len(queue'),
                          queue'[k] = queue'[l]
                   PROVE  k = l
      OBVIOUS
    <3>2. k + 1 = l + 1
      BY <2>4, <2>5, <3>1 DEF OnePlace
    <3>3. QED
      BY <2>4, <3>2
  <2>9. \A k \in 1..Len(queue'), g \in Fd : queue'[k] # fds'[g]
    BY <2>4, <2>5, <2>6, <2>7 DEF OnePlace
  <2>10. \A g, h \in Fd : fds'[g] = fds'[h] /\ fds'[g] # None => g = h
    BY <2>6, <2>7 DEF OnePlace
  <2>11. \A c \in Client : (InQueue(c) \/ InTable(c))' => InQueue(c) \/ InTable(c)
    BY <2>4, <2>5, <2>6, <2>7 DEF InQueue, InTable
  <2>12. QED
    BY <2>3, <2>8, <2>9, <2>10, <2>11 DEF OnePlace
<1>4. CASE CloseServer
  <2>1. Len(queue') = 0 /\ fds' = fds
    BY <1>4, EmptySeq DEF CloseServer, tableVars
  <2>2. \A c \in Client : InTable(c) => phase'[c] = phase[c]
    BY <1>4 DEF CloseServer, OnePlace, InTable
  <2>3. QED
    BY <2>1, <2>2 DEF OnePlace, InQueue, InTable
<1>5. ASSUME NEW w \in Worker, Close(w)
      PROVE  OnePlace'
  <2>1. PICK f : f = worker[w].event[1]
    OBVIOUS
  <2>2. f \in Fd /\ fds[f] \in Client
    BY <1>5, <2>1 DEF Close, Loops, EventsInSet, Pending, WorkerType, WorkerState,
                      TableType, SetsAreOwn
  <2>3. \A g \in Fd : fds'[g] = IF g = f THEN None ELSE fds[g]
    BY <1>5, <2>1, <2>2 DEF Close, TableType
  <2>4. \A c \in Client \ {fds[f]} : phase'[c] = phase[c]
    BY <1>5, <2>1, <2>2 DEF Close, TableType
  <2>5. queue' = queue /\ queue \in Seq(Client)
    BY <1>5, WorkerStepFrame DEF WorkerStep, MainType
  <2>6. \A k \in 1..Len(queue) : queue[k] \in Client
    BY <2>5, ElementOfSeq
  <2>7. QED
    BY <2>2, <2>3, <2>4, <2>5, <2>6, ServerAssumption DEF OnePlace, InQueue, InTable
<1>6. ASSUME NEW c \in Client, connect(c)
      PROVE  OnePlace'
  <2>1. phase[c] = "none" /\ queue \in Seq(Client) /\ fds' = fds
    BY <1>6, ClientStepFrame DEF connect, ClientStep, Lives, MainType
  <2>2. ~ InQueue(c) /\ ~ InTable(c)
    BY <2>1 DEF OnePlace
  <2>3. /\ Len(queue) \in Nat /\ Len(queue') = Len(queue) + 1 /\ queue'[Len(queue) + 1] = c
        /\ \A k \in 1..Len(queue) : queue'[k] = queue[k]
    BY <1>6, <2>1, AppendProperties, LenProperties DEF connect
  <2>4. \A d \in Client : phase'[d] = IF d = c THEN "open" ELSE phase[d]
    BY <1>6 DEF connect, TableType
  <2>5. \A k \in 1..Len(queue') : k = Len(queue) + 1 \/ k \in 1..Len(queue)
    BY <2>3
  <2>6. QED
    BY <2>1, <2>2, <2>3, <2>4, <2>5 DEF OnePlace, InQueue, InTable
<1>7. ASSUME NEW w \in Worker, epoll_wait(w) \/ PrintMessage(w)
                                \/ \E e \in worker[w].events : recvmsg(w, e)
      PROVE  UNCHANGED <<queue, fds, phase>>
  BY <1>7 DEF epoll_wait, PrintMessage, recvmsg, WorkerFrame, tableVars
<1>8. ASSUME NEW c \in Client, ConnectFails(c) \/ Write(c) \/ CloseClient(c)
                                \/ Deliver(c) \/ Reset(c)
      PROVE  UNCHANGED <<queue, fds, phase>>
  BY <1>8 DEF ConnectFails, Write, CloseClient, Deliver, Reset, ServerFrame, tableVars
<1>9. QED
  BY <1>1, <1>2, <1>3, <1>4, <1>5, <1>6, <1>7, <1>8, NextCases, MoveFrame, SetupFrame

(* What a receive does to the bytes of its connection.                     *)
LEMMA RecvmsgFacts ==
    ASSUME StreamInv, NEW w \in Worker, NEW e \in worker[w].events, recvmsg(w, e)
    PROVE  \E c \in Client, n \in Int :
               /\ c = e[2] /\ fds[e[1]] = c /\ e[1] \in Fd /\ n = BytesRead(c)
               /\ worker'[w].events = worker[w].events \ {e} /\ worker'[w].event = e
               /\ worker'[w].bytes_read = n
               /\ worker'[w].at = IF n <= 0 THEN "close" ELSE "print"
               /\ got' = IF n > 0 THEN [got EXCEPT ![c] = @ + n] ELSE got
<1> USE DEF StreamInv, ServerInv, Types
<1>1. e \in Fd \X Client /\ fds[e[1]] = e[2]
  BY DEF WorkerType, WorkerState, EventsInSet, Pending
<1>2. PICK c \in Client : c = fds[e[1]] /\ c # None
  BY <1>1, ServerAssumption
<1>3. PICK n \in Int : n = BytesRead(c)
  BY ServerAssumption DEF BytesRead, ClientType
<1>4. /\ worker' = [worker EXCEPT ![w].at = IF n <= 0 THEN "close" ELSE "print",
                                  ![w].events = @ \ {e}, ![w].event = e,
                                  ![w].bytes_read = n]
      /\ got' = IF n > 0 THEN [got EXCEPT ![c] = @ + n] ELSE got
  BY <1>2, <1>3 DEF recvmsg, Finished
<1>5. /\ worker'[w].events = worker[w].events \ {e} /\ worker'[w].event = e
      /\ worker'[w].bytes_read = n
      /\ worker'[w].at = IF n <= 0 THEN "close" ELSE "print"
  BY <1>4 DEF WorkerType, WorkerState
<1>6. QED
  BY <1>1, <1>2, <1>3, <1>4, <1>5

(* The bytes that recvmsg returns are some that have arrived.              *)
LEMMA BytesReadFacts ==
    ASSUME StreamInv, NEW c \in Client
    PROVE  /\ BytesRead(c) \in Int
           /\ BytesRead(c) > 0 => got[c] + BytesRead(c) <= arrived[c]
           /\ arrived[c] > got[c] <=> BytesRead(c) > 0
           /\ BytesRead(c) <= 0 => got[c] = arrived[c]
           /\ BytesRead(c) = 0 => fin[c]
           /\ BytesRead(c) < 0 => ~ fin[c]
<1>1. /\ got[c] \in Nat /\ arrived[c] \in Nat /\ got[c] <= arrived[c]
      /\ BUFFER_SIZE \in Nat \ {0}
  BY ServerAssumption DEF StreamInv, ServerInv, Types, ClientType, Lives
<1>2. QED
  BY <1>1 DEF BytesRead

LEMMA LivesInv ==
    ASSUME StreamInv, [Next]_vars
    PROVE  Lives'
<1> USE DEF StreamInv, ServerInv, Types
<1>1. CASE UNCHANGED <<client, phase, got, arrived, fin, sent>>
  BY <1>1 DEF Lives
<1>2. CASE /\ UNCHANGED <<client, got, arrived, fin, sent>>
           /\ \A c \in Client : phase'[c] = "none" <=> phase[c] = "none"
  BY <1>2 DEF Lives
<1>3. CASE Ends
  BY <1>2, <1>3 DEF Ends, Exit, TableType, clientVars, netVars
<1>4. CASE CloseServer
  <2>1. \A c \in Client : InQueue(c) => phase[c] = "open"
    BY DEF OnePlace
  <2>2. \A c \in Client : phase'[c] = IF InQueue(c) THEN "stopped" ELSE phase[c]
    BY <1>4 DEF CloseServer, InQueue
  <2>3. QED
    BY <1>2, <1>4, <2>1, <2>2 DEF CloseServer, Still, clientVars, netVars
<1>5. ASSUME NEW w \in Worker, Close(w)
      PROVE  Lives'
  <2>1. PICK f : f = worker[w].event[1]
    OBVIOUS
  <2>2. f \in Fd /\ fds[f] \in Client
    BY <1>5, <2>1 DEF Close, Loops, EventsInSet, Pending, WorkerType, WorkerState,
                      TableType, SetsAreOwn
  <2>3. phase[fds[f]] = "open"
    BY <2>2 DEF OnePlace, InTable
  <2>4. \A c \in Client : phase'[c] = "none" <=> phase[c] = "none"
    BY <1>5, <2>1, <2>2, <2>3 DEF Close, TableType
  <2>5. QED
    BY <1>2, <1>5, <2>4, WorkerStepFrame DEF WorkerStep, Close
<1>6. ASSUME NEW w \in Worker, NEW e \in worker[w].events, recvmsg(w, e)
      PROVE  Lives'
  <2>1. PICK c \in Client : got' = IF BytesRead(c) > 0
                                   THEN [got EXCEPT ![c] = @ + BytesRead(c)] ELSE got
    BY <1>6, RecvmsgFacts
  <2>2. \A d \in Client : got'[d] <= arrived[d]
    BY <2>1, BytesReadFacts DEF ClientType, Lives
  <2>3. UNCHANGED <<client, phase, arrived, fin, sent>>
    BY <1>6, WorkerStepFrame DEF WorkerStep, recvmsg
  <2>4. QED
    BY <2>2, <2>3 DEF Lives
<1>7. ASSUME NEW c \in Client, connect(c)
      PROVE  Lives'
  BY <1>7 DEF connect, ServerFrame, Lives, TableType, ClientType, netVars
<1>8. ASSUME NEW c \in Client, ConnectFails(c) \/ CloseClient(c)
      PROVE  Lives'
  BY <1>8 DEF ConnectFails, CloseClient, ServerFrame, Lives, ClientType, netVars
<1>9. ASSUME NEW c \in Client, Write(c)
      PROVE  Lives'
  <2>1. ~ fin[c]
    BY <1>9 DEF Write, Lives
  <2>2. \A d \in Client \ {c} : sent'[d] = sent[d] /\ client'[d] = client[d]
    BY <1>9 DEF Write, ClientType
  <2>3. client[c] = "write" /\ client'[c] = "close"
        /\ UNCHANGED <<phase, got, arrived, fin>>
    BY <1>9 DEF Write, ServerFrame, netVars, ClientType
  <2>4. QED
    BY <2>1, <2>2, <2>3 DEF Lives
<1>10. ASSUME NEW c \in Client, Deliver(c)
       PROVE  Lives'
  <2>1. UNCHANGED <<client, phase, got, sent>>
    BY <1>10 DEF Deliver, ServerFrame, clientVars
  <2>2. CASE /\ \E n \in (arrived[c] + 1)..sent[c] : arrived' = [arrived EXCEPT ![c] = n]
             /\ UNCHANGED fin
    <3>1. PICK n \in (arrived[c] + 1)..sent[c] : arrived' = [arrived EXCEPT ![c] = n]
      BY <2>2
    <3>2. /\ got[c] \in Nat /\ arrived[c] \in Nat /\ sent[c] \in Nat
          /\ got[c] <= arrived[c] /\ n \in Nat /\ arrived[c] < n /\ n <= sent[c]
      BY <3>1 DEF ClientType, Lives
    <3>3. got[c] <= n /\ ~ fin[c]
      BY <3>2 DEF Lives
    <3>4. arrived'[c] = n /\ \A d \in Client \ {c} : arrived'[d] = arrived[d]
      BY <3>1 DEF ClientType
    <3>5. QED
      BY <2>1, <2>2, <3>3, <3>4 DEF Lives
  <2>3. CASE /\ client[c] = "exit" /\ arrived[c] = sent[c]
             /\ fin' = [fin EXCEPT ![c] = TRUE] /\ UNCHANGED arrived
    <3>1. \A d \in Client \ {c} : fin'[d] = fin[d]
      BY <2>3 DEF ClientType
    <3>2. QED
      BY <2>1, <2>3, <3>1 DEF Lives
  <2>4. QED
    BY <1>10, <2>2, <2>3 DEF Deliver
<1>11. ASSUME NEW c \in Client, Reset(c)
       PROVE  Lives'
  BY <1>1, <1>11 DEF Reset, ServerFrame, clientVars
<1>12. ASSUME NEW w \in Worker, epoll_wait(w) \/ PrintMessage(w)
       PROVE  Lives'
  BY <1>1, <1>12, WorkerStepFrame DEF WorkerStep, epoll_wait, PrintMessage
<1>13. CASE Accept
  BY <1>1, <1>13 DEF Accept, Still, clientVars, netVars
<1>14. QED
  BY <1>1, <1>3, <1>4, <1>5, <1>6, <1>7, <1>8, <1>9, <1>10, <1>11, <1>12, <1>13,
     NextCases, MoveFrame, SetupFrame

(* Events that wait are for different connections.                         *)
LEMMA EventsDiffer ==
    ASSUME StreamInv, NEW w \in Worker, NEW v \in Worker,
           NEW e \in Pending(w), NEW d \in Pending(v), v # w \/ d # e
    PROVE  d \in Fd \X Client /\ e \in Fd \X Client /\ d[2] # e[2]
<1> USE DEF StreamInv, ServerInv, Types
<1>1. d \in Fd \X Client /\ e \in Fd \X Client
  BY DEF Pending, WorkerType, WorkerState
<1>2. /\ e[1] \in interest[w] /\ fds[e[1]] = e[2]
      /\ d[1] \in interest[v] /\ fds[d[1]] = d[2]
  BY DEF EventsInSet
<1>3. ASSUME d[2] = e[2] PROVE FALSE
  <2>1. d[1] = e[1]
    BY <1>1, <1>2, <1>3, ServerAssumption DEF OnePlace
  <2>2. d = e /\ v = w
    BY <1>1, <1>2, <1>3, <2>1, SetsAreDisjoint
  <2>3. QED
    BY <2>2
<1>4. QED
  BY <1>1, <1>3

LEMMA ReasonsInv ==
    ASSUME StreamInv, [Next]_vars
    PROVE  Reasons'
<1> USE DEF StreamInv, ServerInv, Types
<1> DEFINE Closing(v) == worker[v].at = "close"
           Reason(v) == LET c == worker[v].event[2]
                        IN  IF worker[v].bytes_read = 0 THEN fin[c] /\ got[c] = arrived[c]
                            ELSE reset[c]
<1>1. CASE UNCHANGED <<worker, got, arrived, fin, reset>>
  BY <1>1 DEF Reasons, Ready
<1>2. CASE Ends
  BY <1>2 DEF Ends, Exit, NoWorker, Reasons
<1>3. CASE pthread_create
  <2>1. i \in Worker
    BY <1>3, ServerAssumption DEF MainType, Loops, pthread_create, At, Worker
  <2>2. \A w \in Worker : /\ worker'[w].events = worker[w].events
                          /\ worker'[w].at = "close" => worker'[w] = worker[w]
    BY <1>3, <2>1 DEF pthread_create, WorkerType, WorkerState
  <2>3. UNCHANGED <<got, arrived, fin, reset>>
    BY <1>3 DEF pthread_create, netVars
  <2>4. QED
    BY <2>2, <2>3 DEF Reasons, Ready
<1>4. ASSUME NEW w \in Worker, epoll_wait(w)
      PROVE  Reasons'
  <2>1. PICK F \in SUBSET ReadyFds(w) :
            worker' = [worker EXCEPT ![w].at = "recvmsg",
                                     ![w].events = {<<f, fds[f]>> : f \in F}]
    BY <1>4 DEF epoll_wait
  <2>2. worker'[w].at = "recvmsg" /\ worker'[w].events = {<<f, fds[f]>> : f \in F}
    BY <2>1 DEF WorkerType, WorkerState
  <2>3. \A e \in worker'[w].events : Ready(e[2])
    BY <2>2 DEF ReadyFds
  <2>4. UNCHANGED <<got, arrived, fin, reset>>
    BY <1>4, WorkerStepFrame DEF WorkerStep, epoll_wait
  <2>5. \A v \in Worker \ {w} : worker'[v] = worker[v]
    BY <1>4, OtherWorkers DEF WorkerStep
  <2>6. QED
    BY <2>2, <2>3, <2>4, <2>5 DEF Reasons, Ready
<1>5. ASSUME NEW w \in Worker, NEW e \in worker[w].events, recvmsg(w, e)
      PROVE  Reasons'
  <2>1. PICK c \in Client, n \in Int :
            /\ c = e[2] /\ n = BytesRead(c)
            /\ worker'[w].events = worker[w].events \ {e} /\ worker'[w].event = e
            /\ worker'[w].bytes_read = n
            /\ worker'[w].at = IF n <= 0 THEN "close" ELSE "print"
            /\ got' = IF n > 0 THEN [got EXCEPT ![c] = @ + n] ELSE got
    BY <1>5, RecvmsgFacts
  <2>2. UNCHANGED <<arrived, fin, reset>>
    BY <1>5, WorkerStepFrame DEF WorkerStep
  <2>3. \A v \in Worker \ {w} : worker'[v] = worker[v]
    BY <1>5, OtherWorkers DEF WorkerStep
  <2>4. \A d \in Client \ {c} : got'[d] = got[d] /\ (Ready(d)' <=> Ready(d))
    BY <2>1, <2>2 DEF ClientType, Ready
  <2>5. e \in Pending(w) /\ Ready(c)
    BY <2>1 DEF Pending, Reasons
  <2>6. \A v \in Worker : \A d \in worker'[v].events : Ready(d[2])'
    <3>1. SUFFICES ASSUME NEW v \in Worker, NEW d \in worker'[v].events
                   PROVE  Ready(d[2])'
      OBVIOUS
    <3>2. d \in worker[v].events /\ d \in Pending(v) /\ (v # w \/ d # e)
      BY <2>1, <2>3 DEF Pending
    <3>3. d[2] \in Client \ {c} /\ Ready(d[2])
      BY <2>1, <2>5, <3>2, EventsDiffer DEF Reasons
    <3>4. QED
      BY <2>4, <3>3
  <2>7. Closing(w)' => Reason(w)'
    <3>1. SUFFICES ASSUME n <= 0
                   PROVE  IF n = 0 THEN fin[c] /\ got[c] = arrived[c] ELSE reset[c]
      BY <2>1, <2>2
    <3>2. got[c] = arrived[c] /\ (n = 0 => fin[c]) /\ (n < 0 => ~ fin[c])
      BY <2>1, <3>1, BytesReadFacts
    <3>3. n < 0 => reset[c]
      BY <2>5, <3>2 DEF Ready, ClientType
    <3>4. QED
      BY <3>1, <3>2, <3>3
  <2>8. ASSUME NEW v \in Worker \ {w}, Closing(v)'
        PROVE  Reason(v)'
    <3>1. Closing(v) /\ Reason(v) /\ worker'[v] = worker[v]
      BY <2>3, <2>8 DEF Reasons
    <3>2. worker[v].event \in Pending(v)
      BY <3>1 DEF Pending, Loops
    <3>3. worker[v].event[2] \in Client \ {c}
      BY <2>1, <2>5, <3>2, EventsDiffer
    <3>4. QED
      BY <2>2, <2>4, <3>1, <3>3
  <2>9. QED
    BY <2>6, <2>7, <2>8 DEF Reasons
<1>6. ASSUME NEW w \in Worker, Close(w) \/ PrintMessage(w)
      PROVE  Reasons'
  <2>1. WorkerStep(w) /\ NextEvent(w) /\ UNCHANGED <<got, arrived, fin, reset>>
    BY <1>6, WorkerStepFrame DEF WorkerStep, Close, PrintMessage
  <2>2. Pending(w)' = worker[w].events /\ worker'[w].at # "close"
    BY <2>1, NextEventFacts
  <2>3. \A v \in Worker \ {w} : worker'[v] = worker[v]
    BY <2>1, OtherWorkers
  <2>4. worker'[w].events \subseteq worker[w].events
    BY <2>2 DEF Pending
  <2>5. QED
    BY <2>1, <2>2, <2>3, <2>4 DEF Reasons, Ready
<1>7. ASSUME NEW c \in Client, Deliver(c)
      PROVE  Reasons'
  <2>1. UNCHANGED <<worker, got, reset>>
    BY <1>7, ClientStepFrame DEF Deliver
  <2>2. \A d \in Client : /\ arrived'[d] >= arrived[d] /\ (fin[d] => fin'[d])
                          /\ fin[d] => arrived'[d] = arrived[d]
    BY <1>7 DEF Deliver, ClientType, Lives
  <2>3. \A d \in Client : Ready(d) => Ready(d)'
    <3>1. \A d \in Client : arrived[d] \in Nat /\ arrived'[d] \in Nat /\ got[d] \in Nat
      BY <1>7 DEF Deliver, ClientType
    <3>2. QED
      BY <2>1, <2>2, <3>1 DEF Ready
  <2>4. \A w \in Worker : \A e \in worker[w].events : e[2] \in Client
    BY DEF WorkerType, WorkerState
  <2>5. \A w \in Worker : Closing(w) => worker[w].event[2] \in Client
    BY DEF Loops, WorkerType, WorkerState
  <2>6. QED
    BY <2>1, <2>2, <2>3, <2>4, <2>5 DEF Reasons
<1>8. ASSUME NEW c \in Client, Reset(c)
      PROVE  Reasons'
  <2>1. UNCHANGED <<worker, got, arrived, fin>>
    BY <1>8, ClientStepFrame DEF Reset
  <2>2. \A d \in Client : reset[d] => reset'[d]
    BY <1>8 DEF Reset, ClientType
  <2>3. \A w \in Worker : \A e \in worker[w].events : e[2] \in Client
    BY DEF WorkerType, WorkerState
  <2>4. \A w \in Worker : Closing(w) => worker[w].event[2] \in Client
    BY DEF Loops, WorkerType, WorkerState
  <2>5. QED
    BY <2>1, <2>2, <2>3, <2>4 DEF Reasons, Ready
<1>9. ASSUME NEW c \in Client, ClientStep(c)
      PROVE  Reasons'
  BY <1>1, <1>9, ClientStepFrame
  DEF ClientStep, connect, ConnectFails, Write, CloseClient, netVars
<1>10. CASE Accept \/ CloseServer \/ (MainMoves /\ ~ pthread_create)
  BY <1>1, <1>10 DEF Accept, CloseServer, MainMoves, While, AcceptFails, CloseEpoll,
                     sig_int, epoll_ctl, Still, netVars, vars
<1>11. QED
  BY <1>1, <1>2, <1>3, <1>4, <1>5, <1>6, <1>7, <1>8, <1>9, <1>10, NextCases,
     SetupFrame DEF ClientStep

LEMMA EndingInv ==
    ASSUME StreamInv, [Next]_vars
    PROVE  Ending'
<1>1. CASE MainMoves \/ Accept \/ CloseServer \/ Ends
  BY <1>1 DEF StreamInv, Ending, MainMoves, While, AcceptFails, CloseEpoll, sig_int,
     pthread_create, epoll_ctl, Accept, CloseServer, Ends, Exit, At, vars, mainVars
<1>2. ASSUME NEW w \in Worker, WorkerStep(w) PROVE Ending'
  BY <1>2, WorkerStepFrame DEF StreamInv, Ending
<1>3. ASSUME NEW c \in Client, ClientStep(c) \/ Deliver(c) \/ Reset(c) PROVE Ending'
  BY <1>3, ClientStepFrame DEF StreamInv, Ending
<1>4. QED
  BY <1>1, <1>2, <1>3, NextCases, SetupFrame DEF Ending, WorkerStep, ClientStep

LEMMA StreamAlways == Spec => []StreamInv
<1>1. Init => StreamInv
  <2>1. Init => WrittenOnce /\ Lives /\ Reasons /\ Ending
    BY ServerAssumption DEF Init, WrittenOnce, Lives, Reasons, Ending, NoWorker
  <2>2. Init => OnePlace
    BY EmptySeq, ServerAssumption DEF Init, OnePlace, InQueue, InTable
  <2>3. QED
    BY <2>1, <2>2, InitInv DEF StreamInv
<1>2. StreamInv /\ [Next]_vars => StreamInv'
  BY NextInv, WrittenInv, OnePlaceInv, LivesInv, ReasonsInv, EndingInv DEF StreamInv
<1>3. QED
  BY <1>1, <1>2, PTL DEF Spec

-----------------------------------------------------------------------------
(* The refinement mapping, and what each step of ByteStream asks for.      *)

Up == ~ exiting /\ Running

Got == [c \in Client |-> [n \in 1..got[c] |-> n]]

EndedOf(c) ==
    IF reset[c] THEN "cut"
    ELSE IF client[c] = "exit" /\ phase[c] # "none" THEN "fin" ELSE "no"

Ended == [c \in Client |-> EndedOf(c)]

LEMMA UnchangedStream ==
    ASSUME UNCHANGED <<phase, sent, Ended, Got, Up>>
    PROVE  UNCHANGED Stream!streamVars
BY DEF Stream!streamVars, Ended, EndedOf, Got, Up

LEMMA OpenStep ==
    ASSUME NEW c \in Client, phase[c] = "none", phase' = [phase EXCEPT ![c] = "open"],
           UNCHANGED <<sent, Ended, Got, Up>>
    PROVE  Stream!Next
BY DEF Stream!Next, Stream!Open, Stream!Move, Ended, EndedOf, Got, Up

LEMMA SendStep ==
    ASSUME NEW c \in Client, phase[c] # "none", EndedOf(c) # "fin",
           sent'[c] > sent[c], sent' = [sent EXCEPT ![c] = sent'[c]],
           UNCHANGED <<phase, Ended, Got, Up>>
    PROVE  Stream!Next
BY DEF Stream!Next, Stream!Send, Ended, EndedOf, Got, Up

LEMMA EndStep ==
    ASSUME NEW c \in Client,
           \/ /\ phase[c] # "none" /\ EndedOf(c) = "no"
              /\ Ended' = [Ended EXCEPT ![c] = "fin"]
           \/ EndedOf(c) # "cut" /\ Ended' = [Ended EXCEPT ![c] = "cut"],
           UNCHANGED <<phase, sent, Got, Up>>
    PROVE  Stream!Next
BY DEF Stream!Next, Stream!End, Ended, EndedOf, Got, Up

LEMMA DoneStep ==
    ASSUME NEW c \in Client, phase[c] = "open", phase' = [phase EXCEPT ![c] = "done"],
           EndedOf(c) # "no", Len(Got[c]) = sent[c],
           UNCHANGED <<sent, Ended, Got, Up>>
    PROVE  Stream!Next
BY DEF Stream!Next, Stream!Done, Stream!Move, Ended, EndedOf, Got, Up

LEMMA BreakStep ==
    ASSUME NEW c \in Client, phase[c] = "open", phase' = [phase EXCEPT ![c] = "broken"],
           EndedOf(c) = "cut", UNCHANGED <<sent, Ended, Got, Up>>
    PROVE  Stream!Next
BY DEF Stream!Next, Stream!Break, Stream!Move, Ended, EndedOf, Got, Up

LEMMA StopStep ==
    ASSUME ~ Up', NEW S \in SUBSET Client,
           phase' = [c \in Client |->
               IF c \in S /\ phase[c] = "open" THEN "stopped" ELSE phase[c]],
           UNCHANGED <<sent, Ended, Got>>
    PROVE  Stream!Next
BY DEF Stream!Next, Stream!Stop, Ended, EndedOf, Got, Up

LEMMA LenGot ==
    ASSUME NEW n \in Nat
    PROVE  [k \in 1..n |-> k] \in Seq(Nat) /\ Len([k \in 1..n |-> k]) = n
<1>1. [k \in 1..n |-> k] \in [1..n -> Nat]
  OBVIOUS
<1>2. [k \in 1..n |-> k] \in Seq(Nat)
  BY <1>1, SeqDef
<1>3. QED
  BY <1>1, <1>2, LenProperties

LEMMA GetStep ==
    ASSUME StreamInv, NEW c \in Client, NEW n \in (got[c] + 1)..sent[c],
           phase[c] = "open", got' = [got EXCEPT ![c] = n],
           UNCHANGED <<phase, sent, Ended, Up>>
    PROVE  Stream!Next
<1>1. got \in [Client -> Nat] /\ n \in Nat
  BY DEF StreamInv, ServerInv, Types, ClientType
<1>2. Len(Got[c]) = got[c]
  BY <1>1, LenGot DEF Got
<1>3. Got' = [Got EXCEPT ![c] = [k \in 1..n |-> k]]
  BY <1>1 DEF Got
<1>4. QED
  BY <1>2, <1>3 DEF Stream!Next, Stream!Get, Ended, EndedOf, Got, Up

LEMMA EndedSame ==
    ASSUME UNCHANGED <<reset, client>>,
           \A c \in Client : phase'[c] = "none" <=> phase[c] = "none"
    PROVE  Ended' = Ended
BY DEF Ended, EndedOf

(* Every step of the server and its clients is a step of ByteStream, or    *)
(* none.                                                                   *)
LEMMA StreamNext ==
    ASSUME StreamInv, [Next]_vars
    PROVE  [Stream!Next]_(Stream!streamVars)
<1> USE DEF StreamInv, ServerInv, Types
<1>1. CASE UNCHANGED <<phase, sent, Ended, Got, Up>>
  BY <1>1, UnchangedStream
<1>2. CASE UNCHANGED <<phase, sent, client, reset, got, exiting, status>>
  <2>1. UNCHANGED <<Ended, Got, Up>>
    BY <1>2 DEF Ended, EndedOf, Got, Up, Running
  <2>2. QED
    BY <1>1, <1>2, <2>1
<1>3. CASE Ends
  <2>1. PICK code \in {0, 1, 130} : Exit(code)
    BY <1>3 DEF Ends
  <2>2. ~ Up' /\ UNCHANGED <<sent, reset, client, got>>
    BY <2>1, ServerAssumption DEF Exit, Up, Running, clientVars, netVars
  <2>3. phase' = [c \in Client |->
            IF c \in Client /\ phase[c] = "open" THEN "stopped" ELSE phase[c]]
    BY <2>1 DEF Exit
  <2>4. UNCHANGED <<Ended, Got>>
    BY <2>2, <2>3, EndedSame DEF Got
  <2>5. QED
    BY <2>2, <2>3, <2>4, StopStep
<1>4. CASE CloseServer
  <2> DEFINE S == {c \in Client : InQueue(c)}
  <2>1. phase' = [c \in Client |-> IF InQueue(c) THEN "stopped" ELSE phase[c]]
    BY <1>4 DEF CloseServer, InQueue
  <2>2. \A c \in Client : InQueue(c) => phase[c] = "open"
    BY DEF OnePlace
  <2>3. phase' = [c \in Client |->
            IF c \in S /\ phase[c] = "open" THEN "stopped" ELSE phase[c]]
    BY <2>1, <2>2
  <2>4. ~ Up' /\ UNCHANGED <<sent, reset, client, got>>
    BY <1>4 DEF CloseServer, At, Ending, Up, Still, clientVars, netVars
  <2>5. UNCHANGED <<Ended, Got>>
    BY <2>1, <2>2, <2>4, EndedSame DEF Got
  <2>6. QED
    BY <2>3, <2>4, <2>5, StopStep
<1>5. CASE sig_int
  <2>1. ~ Up' /\ UNCHANGED <<phase, sent, reset, client, got>>
    BY <1>5 DEF sig_int, Up, Still, clientVars, netVars
  <2>2. PICK S \in SUBSET Client : S = {}
    OBVIOUS
  <2>3. phase' = [c \in Client |->
            IF c \in S /\ phase[c] = "open" THEN "stopped" ELSE phase[c]]
    BY <2>1, <2>2 DEF TableType
  <2>4. UNCHANGED <<Ended, Got>>
    BY <2>1, EndedSame DEF Got
  <2>5. QED
    BY <2>1, <2>3, <2>4, StopStep
<1>6. CASE Accept \/ (MainMoves /\ ~ sig_int)
  BY <1>2, <1>6 DEF Accept, MainMoves, While, AcceptFails, CloseEpoll, epoll_ctl,
     pthread_create, Still, clientVars, netVars, vars, mainVars
<1>7. ASSUME NEW w \in Worker, epoll_wait(w) \/ PrintMessage(w)
      PROVE  [Stream!Next]_(Stream!streamVars)
  BY <1>2, <1>7, WorkerStepFrame DEF WorkerStep, epoll_wait, PrintMessage
<1>8. ASSUME NEW w \in Worker, NEW e \in worker[w].events, recvmsg(w, e)
      PROVE  [Stream!Next]_(Stream!streamVars)
  <2>1. PICK c \in Client :
            /\ InTable(c)
            /\ got' = IF BytesRead(c) > 0 THEN [got EXCEPT ![c] = @ + BytesRead(c)]
                      ELSE got
    BY <1>8, RecvmsgFacts DEF InTable
  <2>2. UNCHANGED <<phase, sent, client, reset, exiting, status>>
    BY <1>8, WorkerStepFrame DEF WorkerStep, recvmsg
  <2>3. CASE BytesRead(c) > 0
    <3>1. PICK n \in Int : n = got[c] + BytesRead(c)
      BY BytesReadFacts DEF ClientType
    <3>2. n \in (got[c] + 1)..sent[c]
      BY <2>3, <3>1, BytesReadFacts DEF ClientType, WrittenOnce
    <3>3. got' = [got EXCEPT ![c] = n] /\ phase[c] = "open"
      BY <2>1, <2>3, <3>1 DEF OnePlace
    <3>4. UNCHANGED <<Ended, Up>>
      BY <2>2, EndedSame DEF Up, Running
    <3>5. QED
      BY <2>2, <3>2, <3>3, <3>4, GetStep
  <2>4. CASE ~ (BytesRead(c) > 0)
    BY <1>2, <2>1, <2>2, <2>4
  <2>5. QED
    BY <2>3, <2>4
<1>9. ASSUME NEW w \in Worker, Close(w)
      PROVE  [Stream!Next]_(Stream!streamVars)
  <2>1. PICK f : f = worker[w].event[1]
    OBVIOUS
  <2>2. /\ f \in Fd /\ fds[f] \in Client /\ fds[f] = worker[w].event[2]
        /\ worker[w].at = "close"
    BY <1>9, <2>1 DEF Close, Loops, EventsInSet, Pending, WorkerType, WorkerState,
                      TableType, SetsAreOwn
  <2>3. PICK c \in Client : c = fds[f] /\ c # None
    BY <2>2, ServerAssumption
  <2>4. phase' = [phase EXCEPT ![c] =
                      IF worker[w].bytes_read = 0 THEN "done" ELSE "broken"]
    BY <1>9, <2>1, <2>3 DEF Close
  <2>5. phase[c] = "open"
    BY <2>2, <2>3 DEF OnePlace, InTable
  <2>6. UNCHANGED <<sent, client, reset, got, exiting, status>>
    BY <1>9, WorkerStepFrame DEF WorkerStep, Close
  <2>7. UNCHANGED <<Ended, Got, Up>>
    <3>1. \A d \in Client : phase'[d] = "none" <=> phase[d] = "none"
      BY <2>4, <2>5 DEF TableType
    <3>2. QED
      BY <2>6, <3>1, EndedSame DEF Got, Up, Running
  <2>8. CASE worker[w].bytes_read = 0
    <3>1. fin[c] /\ got[c] = arrived[c]
      BY <2>2, <2>3, <2>8 DEF Reasons
    <3>2. client[c] = "exit" /\ got[c] = sent[c] /\ got[c] \in Nat
      BY <3>1 DEF Lives, ClientType
    <3>3. EndedOf(c) # "no"
      BY <2>5, <3>2 DEF EndedOf
    <3>4. Len(Got[c]) = sent[c]
      BY <3>2, LenGot DEF Got
    <3>5. QED
      BY <2>4, <2>5, <2>6, <2>7, <2>8, <3>3, <3>4, DoneStep
  <2>9. CASE worker[w].bytes_read # 0
    <3>1. EndedOf(c) = "cut"
      BY <2>2, <2>3, <2>9 DEF Reasons, EndedOf
    <3>2. QED
      BY <2>4, <2>5, <2>6, <2>7, <2>9, <3>1, BreakStep
  <2>10. QED
    BY <2>8, <2>9
<1>10. ASSUME NEW c \in Client, connect(c)
       PROVE  [Stream!Next]_(Stream!streamVars)
  <2>1. /\ phase[c] = "none" /\ phase' = [phase EXCEPT ![c] = "open"]
        /\ client[c] = "connect" /\ client' = [client EXCEPT ![c] = "write"]
        /\ UNCHANGED <<sent, reset, got, exiting, status>>
    BY <1>10, ClientStepFrame DEF ClientStep, connect, Lives, netVars
  <2>2. Ended' = Ended
    BY <2>1 DEF Ended, EndedOf, ClientType, TableType
  <2>3. UNCHANGED <<Got, Up>>
    BY <2>1 DEF Got, Up, Running
  <2>4. QED
    BY <2>1, <2>2, <2>3, OpenStep
<1>11. ASSUME NEW c \in Client, ConnectFails(c)
       PROVE  [Stream!Next]_(Stream!streamVars)
  <2>1. /\ phase[c] = "none" /\ client' = [client EXCEPT ![c] = "exit"]
        /\ client[c] = "connect"
        /\ UNCHANGED <<phase, sent, reset, got, exiting, status>>
    BY <1>11, ClientStepFrame DEF ClientStep, ConnectFails, Lives, netVars
  <2>2. Ended' = Ended
    BY <2>1 DEF Ended, EndedOf, ClientType
  <2>3. QED
    BY <1>1, <2>1, <2>2 DEF Got, Up, Running
<1>12. ASSUME NEW c \in Client, Write(c)
       PROVE  [Stream!Next]_(Stream!streamVars)
  <2>1. /\ client[c] = "write" /\ client' = [client EXCEPT ![c] = "close"]
        /\ sent' = [sent EXCEPT ![c] = @ + MSG_LEN] /\ phase[c] # "none"
        /\ UNCHANGED <<phase, reset, got, exiting, status>>
    BY <1>12, ClientStepFrame DEF ClientStep, Write, Lives, netVars
  <2>2. Ended' = Ended /\ EndedOf(c) # "fin"
    BY <2>1 DEF Ended, EndedOf, ClientType
  <2>3. sent'[c] > sent[c] /\ sent' = [sent EXCEPT ![c] = sent'[c]]
    BY <2>1, ServerAssumption DEF ClientType
  <2>4. UNCHANGED <<Got, Up>>
    BY <2>1 DEF Got, Up, Running
  <2>5. QED
    BY <2>1, <2>2, <2>3, <2>4, SendStep
<1>13. ASSUME NEW c \in Client, CloseClient(c)
       PROVE  [Stream!Next]_(Stream!streamVars)
  <2>1. /\ client[c] # "exit" /\ client' = [client EXCEPT ![c] = "exit"]
        /\ phase[c] # "none"
        /\ UNCHANGED <<phase, sent, reset, got, exiting, status>>
    BY <1>13, ClientStepFrame DEF ClientStep, CloseClient, Lives, netVars
  <2>2. UNCHANGED <<Got, Up>>
    BY <2>1 DEF Got, Up, Running
  <2>3. CASE reset[c]
    <3>1. Ended' = Ended
      BY <2>1, <2>3 DEF Ended, EndedOf, ClientType
    <3>2. QED
      BY <1>1, <2>1, <2>2, <3>1
  <2>4. CASE ~ reset[c]
    <3>1. EndedOf(c) = "no" /\ Ended' = [Ended EXCEPT ![c] = "fin"]
      BY <2>1, <2>4 DEF Ended, EndedOf, ClientType
    <3>2. QED
      BY <2>1, <2>2, <3>1, EndStep
  <2>5. QED
    BY <2>3, <2>4
<1>14. ASSUME NEW c \in Client, Deliver(c)
       PROVE  [Stream!Next]_(Stream!streamVars)
  BY <1>2, <1>14, ClientStepFrame DEF Deliver, clientVars
<1>15. ASSUME NEW c \in Client, Reset(c)
       PROVE  [Stream!Next]_(Stream!streamVars)
  <2>1. /\ ~ reset[c] /\ reset' = [reset EXCEPT ![c] = TRUE]
        /\ UNCHANGED <<phase, sent, client, got, exiting, status>>
    BY <1>15, ClientStepFrame DEF Reset, clientVars
  <2>2. EndedOf(c) # "cut" /\ Ended' = [Ended EXCEPT ![c] = "cut"]
    BY <2>1 DEF Ended, EndedOf, ClientType
  <2>3. UNCHANGED <<Got, Up>>
    BY <2>1 DEF Got, Up, Running
  <2>4. QED
    BY <2>1, <2>2, <2>3, EndStep
<1>16. ASSUME NEW from, NEW to, Setup(from, to), ~ Ends
       PROVE  [Stream!Next]_(Stream!streamVars)
  BY <1>2, <1>16, SetupFrame
<1>17. QED
  BY <1>3, <1>4, <1>5, <1>6, <1>7, <1>8, <1>9, <1>10, <1>11, <1>12, <1>13, <1>14,
     <1>15, <1>16, NextCases

(* The server receives every connection as ByteStream promises: the bytes  *)
(* in order and once, and worker_thread closes a connection only when its  *)
(* client has ended it and every byte was received, or after a reset.      *)
THEOREM ServerImplementsStreams == Spec => ServesStreams
<1>1. Init => Stream!Init
  <2>1. [k \in 1..0 |-> k] = <<>>
    BY LenGot, EmptySeq
  <2>2. Init => Got = [c \in Client |-> <<>>]
    BY <2>1 DEF Init, Got
  <2>3. Init => Ended = [c \in Client |-> "no"]
    BY DEF Init, Ended, EndedOf
  <2>4. Init => Up
    BY DEF Init, Up, Running
  <2>5. QED
    BY <2>2, <2>3, <2>4 DEF Init, Stream!Init, Got, Ended, EndedOf, Up
<1>2. QED
  BY <1>1, StreamAlways, StreamNext, PTL DEF Spec, ServesStreams, Stream!Spec
=============================================================================
