---------------------------- MODULE EpollServer ----------------------------
(***************************************************************************)
(* The traced application: the server of service/server.cpp with any       *)
(* number of clients of service/client.cpp.                                *)
(*                                                                         *)
(* main() accepts connections in a loop that never sleeps and gives each   *)
(* to the epoll set of one of NUM_THREADS workers.  Main and workers share *)
(* nothing but the descriptor table: a worker closes a descriptor, and the *)
(* next accept() may hand out the same number while other events of the    *)
(* worker's last epoll_wait still wait to be handled.                      *)
(***************************************************************************)
EXTENDS Integers, FiniteSets, Sequences

CONSTANTS
    Client,         \* processes that run client.cpp, one connection each
    NUM_THREADS,    \* workers
    MAX_EVENTS,     \* events that one epoll_wait returns
    BUFFER_SIZE,    \* bytes in the worker's buffer
    MSG_LEN,        \* bytes that generateRandomString makes
    BACKLOG,        \* the argument of listen()
    FirstFd,        \* the lowest descriptor that is free in the accept loop
    Limits,         \* the highest one it may have: values of RLIMIT_NOFILE - 1
    MaxFaults,      \* bound: resets and failing calls of a behaviour
    None

Worker == 0..(NUM_THREADS - 1)
Fd     == UNION {FirstFd..l : l \in Limits}

ASSUME ServerAssumption ==
    /\ NUM_THREADS \in Nat \ {0} /\ MAX_EVENTS \in Nat \ {0}
    /\ BUFFER_SIZE \in Nat \ {0} /\ MSG_LEN \in Nat \ {0}
    /\ BACKLOG \in Nat /\ FirstFd \in Nat /\ MaxFaults \in Nat
    /\ Limits \subseteq Nat
    /\ None \notin Client /\ None \notin Fd \X Client /\ None \notin {0, 1, 130}

VARIABLES
    main,       \* the next call of main()
    i,          \* the worker that the set-up loop is at
    new_socket,
    exiting, status,
    limit,      \* the highest descriptor of this process
    queue,      \* connections that wait for accept()
    fds,        \* [Fd -> the connection behind a descriptor, or None]
    interest,   \* [Worker -> descriptors in its epoll set]
    worker,     \* [Worker -> at, events, event, bytes_read]
    client,     \* [Client -> the next call of its main()]
    sent,       \* [Client -> bytes written]
    arrived,    \* [Client -> bytes that have reached the server's kernel]
    fin, reset, \* [Client -> the FIN, or a RST, has arrived]
    got,        \* [Client -> bytes that a worker has received]
    phase,      \* [Client -> what became of the connection]
    faults

mainVars   == <<main, i, new_socket, exiting, status>>
tableVars  == <<limit, fds, interest>>
clientVars == <<client, sent>>
netVars    == <<arrived, fin, reset>>
vars == <<mainVars, queue, tableVars, worker, clientVars, netVars, got, phase, faults>>

NoWorker == [at |-> "none", events |-> {}, event |-> None, bytes_read |-> 0]

Init ==
    /\ main = "signal" /\ i = 0 /\ new_socket = None
    /\ exiting = FALSE /\ status = None
    /\ queue = <<>> /\ limit \in Limits
    /\ fds = [f \in Fd |-> None] /\ interest = [w \in Worker |-> {}]
    /\ worker = [w \in Worker |-> NoWorker]
    /\ client = [c \in Client |-> "connect"] /\ sent = [c \in Client |-> 0]
    /\ arrived = [c \in Client |-> 0]
    /\ fin = [c \in Client |-> FALSE] /\ reset = [c \in Client |-> FALSE]
    /\ got = [c \in Client |-> 0] /\ phase = [c \in Client |-> "none"]
    /\ faults = 0

Fault == faults < MaxFaults /\ faults' = faults + 1

-----------------------------------------------------------------------------
(* main(): set-up.                                                         *)

Running == status = None
At(pc)  == main = pc /\ Running

(* The process ends: the kernel closes every descriptor, the threads are   *)
(* gone.                                                                   *)
Exit(code) ==
    /\ main' = "exit" /\ status' = code
    /\ phase' = [c \in Client |-> IF phase[c] = "open" THEN "stopped" ELSE phase[c]]
    /\ fds' = [f \in Fd |-> None] /\ interest' = [w \in Worker |-> {}]
    /\ worker' = [w \in Worker |-> NoWorker]
    /\ queue' = <<>>
    /\ UNCHANGED <<i, new_socket, exiting, limit, clientVars, netVars, got, faults>>

(* A call of the set-up that succeeds, or makes error() end the process.   *)
(* socket() is compared with 0: its failure shows in setsockopt().         *)
Setup(from, to) ==
    /\ At(from)
    /\ \/ /\ main' = to
          /\ UNCHANGED <<i, new_socket, exiting, status, queue, tableVars, worker,
                         clientVars, netVars, got, phase, faults>>
       \/ Exit(1)

Signal     == Setup("signal", "setsockopt")
Setsockopt == Setup("setsockopt", "bind")
Bind       == Setup("bind", "listen")
Listen     == Setup("listen", "epoll_create1")

epoll_create1 == Setup("epoll_create1", "pthread_create")

(* Mutant: i <= NUM_THREADS.                                               *)
pthread_create_OneMore ==
    /\ At("pthread_create")
    /\ worker' = [w \in Worker |->
           IF w = i THEN [worker[w] EXCEPT !.at = "epoll_wait"] ELSE worker[w]]
    /\ i' = i + 1
    /\ main' = IF i = NUM_THREADS THEN "while" ELSE "epoll_create1"
    /\ UNCHANGED <<new_socket, exiting, status, queue, tableVars, clientVars,
                   netVars, got, phase, faults>>

(* The result of pthread_create is not looked at: without its thread the   *)
(* epoll set gets its share of the connections all the same.               *)
pthread_create ==
    /\ At("pthread_create")
    /\ \/ worker' = [worker EXCEPT ![i].at = "epoll_wait"] /\ UNCHANGED faults
       \/ worker' = [worker EXCEPT ![i].at = "failed"] /\ Fault
    /\ i' = i + 1
    /\ main' = IF i + 1 = NUM_THREADS THEN "while" ELSE "epoll_create1"
    /\ UNCHANGED <<new_socket, exiting, status, queue, tableVars, clientVars,
                   netVars, got, phase>>

-----------------------------------------------------------------------------
(* main(): the accept loop.                                                *)

Still == UNCHANGED <<clientVars, netVars, got>>

(* Mutant: the loop does not test the flag.                                *)
WhileTrue ==
    /\ At("while") /\ main' = "accept"
    /\ UNCHANGED <<i, new_socket, exiting, status, queue, tableVars, worker,
                   phase, faults>>
    /\ Still

While ==
    /\ At("while")
    /\ main' = IF exiting THEN "close" ELSE "accept"
    /\ UNCHANGED <<i, new_socket, exiting, status, queue, tableVars, worker,
                   phase, faults>>
    /\ Still

FreeFds == {f \in FirstFd..limit : fds[f] = None}

(* The oldest connection of the queue gets the lowest free number.         *)
Accept ==
    /\ At("accept") /\ queue # <<>>
    /\ \E f \in FreeFds :
           /\ \A g \in FreeFds : f <= g
           /\ new_socket' = f
           /\ fds' = [fds EXCEPT ![f] = Head(queue)]
    /\ queue' = Tail(queue)
    /\ main' = "epoll_ctl"
    /\ UNCHANGED <<i, exiting, status, limit, interest, worker, phase, faults>>
    /\ Still

(* EAGAIN or EMFILE: accept() returns -1 at once, and the loop spins.      *)
AcceptFails ==
    /\ At("accept") /\ (queue = <<>> \/ FreeFds = {})
    /\ main' = "while"
    /\ UNCHANGED <<i, new_socket, exiting, status, queue, tableVars, worker,
                   phase, faults>>
    /\ Still

(* Mutant: every worker gets the descriptor.                               *)
Added_All(f) == [w \in Worker |-> interest[w] \cup {f}]

(* thread_index = new_socket % NUM_THREADS.                                *)
Added(f) == [interest EXCEPT ![f % NUM_THREADS] = @ \cup {f}]

(* The result of epoll_ctl is not looked at either.                        *)
epoll_ctl ==
    /\ At("epoll_ctl")
    /\ \/ interest' = Added(new_socket) /\ UNCHANGED faults
       \/ UNCHANGED interest /\ Fault
    /\ main' = "while"
    /\ UNCHANGED <<i, new_socket, exiting, status, queue, limit, fds, worker, phase>>
    /\ Still

(* The listening socket is closed: connections that wait are reset.        *)
CloseServer ==
    /\ At("close")
    /\ main' = "close_epoll" /\ i' = 0
    /\ queue' = <<>>
    /\ phase' = [c \in Client |->
           IF \E k \in 1..Len(queue) : queue[k] = c THEN "stopped" ELSE phase[c]]
    /\ UNCHANGED <<new_socket, exiting, status, tableVars, worker, faults>>
    /\ Still

(* The epoll sets are closed under the workers, one by one.                *)
CloseEpoll ==
    /\ At("close_epoll")
    /\ i' = i + 1
    /\ main' = IF i + 1 = NUM_THREADS THEN "return" ELSE "close_epoll"
    /\ UNCHANGED <<new_socket, exiting, status, queue, tableVars, worker,
                   phase, faults>>
    /\ Still

Return == At("return") /\ Exit(0)

(* SIGINT, before and after signal().                                      *)
sig_int ==
    /\ Running /\ main # "signal" /\ exiting' = TRUE
    /\ UNCHANGED <<main, i, new_socket, status, queue, tableVars, worker, phase,
                   faults>>
    /\ Still

SigintKills == At("signal") /\ Exit(130)

Main ==
    \/ Signal \/ Setsockopt \/ Bind \/ Listen \/ epoll_create1 \/ pthread_create
    \/ While \/ Accept \/ AcceptFails \/ epoll_ctl
    \/ CloseServer \/ CloseEpoll \/ Return

-----------------------------------------------------------------------------
(* worker_thread.                                                          *)

WorkerFrame == UNCHANGED <<mainVars, queue, clientVars, netVars, faults>>

(* What makes a socket ready for EPOLLIN: bytes, the end of the stream, or *)
(* an error (a reset shuts the socket down, so EPOLLIN is set with it).    *)
Ready(c) == arrived[c] > got[c] \/ fin[c] \/ reset[c]

ReadyFds(w) == {f \in interest[w] : Ready(fds[f])}

(* As many events as are there, MAX_EVENTS at most.  The connection is     *)
(* history: the worker only gets the number.  A thread that is inside      *)
(* epoll_wait when the set is closed may still return with events.         *)
epoll_wait(w) ==
    /\ worker[w].at = "epoll_wait"
    /\ \E F \in SUBSET ReadyFds(w) :
           /\ F # {} /\ Cardinality(F) <= MAX_EVENTS
           /\ F = ReadyFds(w) \/ Cardinality(F) = MAX_EVENTS
           /\ worker' = [worker EXCEPT ![w].at = "recvmsg",
                                       ![w].events = {<<f, fds[f]>> : f \in F}]
    /\ UNCHANGED <<tableVars, got, phase>>
    /\ WorkerFrame

(* What recvmsg returns for a connection: some bytes, 0 at the end of the  *)
(* stream, -1 for an error (EAGAIN too: the socket does not block).        *)
BytesRead(c) ==
    LET waiting == arrived[c] - got[c]
    IN  IF waiting > 0 THEN IF waiting < BUFFER_SIZE THEN waiting ELSE BUFFER_SIZE
        ELSE IF fin[c] THEN 0 ELSE -1

(* Mutants: a short read is the end; the end of the stream is not.         *)
Finished_Short(n) == n < BUFFER_SIZE
Finished_Error(n) == n < 0

Finished(n) == n <= 0

(* The descriptor means what it means now; a closed one gives EBADF.       *)
recvmsg(w, e) ==
    LET c == fds[e[1]]
        n == IF c = None THEN -1 ELSE BytesRead(c)
    IN  /\ worker[w].at = "recvmsg" /\ e \in worker[w].events
        /\ worker' = [worker EXCEPT ![w].at = IF Finished(n) THEN "close" ELSE "print",
                                    ![w].events = @ \ {e}, ![w].event = e,
                                    ![w].bytes_read = n]
        /\ got' = IF n > 0 THEN [got EXCEPT ![c] = @ + n] ELSE got
        /\ UNCHANGED <<tableVars, phase>>
        /\ WorkerFrame

EpollClosed(w) == main = "return" \/ (main = "close_epoll" /\ w < i)

(* The next event of the array, or epoll_wait again: once the set is       *)
(* closed that is EBADF for ever, until main() returns.                    *)
NextEvent(w) ==
    worker' = [worker EXCEPT
        ![w].at = IF worker[w].events # {} THEN "recvmsg"
                  ELSE IF EpollClosed(w) THEN "spin" ELSE "epoll_wait",
        ![w].event = None, ![w].bytes_read = 0]

(* close() takes the descriptor out of every epoll set.                    *)
Close(w) ==
    LET f == worker[w].event[1]
    IN  /\ worker[w].at = "close"
        /\ NextEvent(w)
        /\ fds' = [fds EXCEPT ![f] = None]
        /\ interest' = [v \in Worker |-> interest[v] \ {f}]
        /\ phase' = IF fds[f] = None THEN phase
                    ELSE [phase EXCEPT ![fds[f]] =
                              IF worker[w].bytes_read = 0 THEN "done" ELSE "broken"]
        /\ UNCHANGED <<limit, got>>
        /\ WorkerFrame

(* buffer[bytes_read] = '\0', and the output.                              *)
PrintMessage(w) ==
    /\ worker[w].at = "print"
    /\ NextEvent(w)
    /\ UNCHANGED <<tableVars, got, phase>>
    /\ WorkerFrame

WorkerStep(w) ==
    \/ epoll_wait(w) \/ (\E e \in worker[w].events : recvmsg(w, e))
    \/ Close(w) \/ PrintMessage(w)

-----------------------------------------------------------------------------
(* client.cpp, and the network.                                            *)

ServerFrame == UNCHANGED <<mainVars, tableVars, worker, got>>

Listening == Running /\ main \notin {"signal", "setsockopt", "bind", "listen",
                                     "close_epoll", "return"}

(* The kernel completes the connection while the queue has room; a SYN     *)
(* that finds it full is sent again.                                       *)
connect(c) ==
    /\ client[c] = "connect" /\ Listening /\ Len(queue) <= BACKLOG
    /\ client' = [client EXCEPT ![c] = "write"]
    /\ queue' = Append(queue, c)
    /\ phase' = [phase EXCEPT ![c] = "open"]
    /\ ServerFrame /\ UNCHANGED <<sent, netVars, faults>>

(* Refused, or given up, or a call before it has failed.                   *)
ConnectFails(c) ==
    /\ client[c] = "connect"
    /\ client' = [client EXCEPT ![c] = "exit"]
    /\ ServerFrame /\ UNCHANGED <<queue, phase, sent, netVars, faults>>

(* Mutant: the loop of the comment is back, around the write.              *)
WriteTwice(c) ==
    /\ client[c] = "write" /\ ~ reset[c]
    /\ client' = [client EXCEPT ![c] = "close"]
    /\ sent' = [sent EXCEPT ![c] = @ + 2 * MSG_LEN]
    /\ ServerFrame /\ UNCHANGED <<queue, phase, netVars, faults>>

Write(c) ==
    /\ client[c] = "write" /\ ~ reset[c]
    /\ client' = [client EXCEPT ![c] = "close"]
    /\ sent' = [sent EXCEPT ![c] = @ + MSG_LEN]
    /\ ServerFrame /\ UNCHANGED <<queue, phase, netVars, faults>>

(* close(), or the end of the process by a signal or by error().           *)
CloseClient(c) ==
    /\ client[c] \in {"write", "close"}
    /\ client' = [client EXCEPT ![c] = "exit"]
    /\ ServerFrame /\ UNCHANGED <<queue, phase, sent, netVars, faults>>

(* Segments arrive, cut as the network likes, and the FIN after them.      *)
Deliver(c) ==
    /\ phase[c] = "open" /\ ~ reset[c]
    /\ \/ /\ \E n \in (arrived[c] + 1)..sent[c] : arrived' = [arrived EXCEPT ![c] = n]
          /\ UNCHANGED fin
       \/ /\ client[c] = "exit" /\ arrived[c] = sent[c] /\ ~ fin[c]
          /\ fin' = [fin EXCEPT ![c] = TRUE] /\ UNCHANGED arrived
    /\ ServerFrame /\ UNCHANGED <<clientVars, queue, phase, reset, faults>>

Reset(c) ==
    /\ phase[c] = "open" /\ ~ fin[c] /\ ~ reset[c]
    /\ reset' = [reset EXCEPT ![c] = TRUE] /\ Fault
    /\ ServerFrame /\ UNCHANGED <<clientVars, queue, phase, arrived, fin>>

ClientStep(c) == connect(c) \/ ConnectFails(c) \/ Write(c) \/ CloseClient(c)

Next ==
    \/ Main \/ sig_int \/ SigintKills
    \/ \E w \in Worker : WorkerStep(w)
    \/ \E c \in Client : ClientStep(c) \/ Deliver(c) \/ Reset(c)

(* The scheduler runs main(), the workers and the clients, and TCP sends   *)
(* again what is lost.                                                     *)
Spec ==
    /\ Init /\ [][Next]_vars
    /\ WF_vars(Main) /\ \A w \in Worker : WF_vars(WorkerStep(w))
    /\ \A c \in Client : WF_vars(ClientStep(c)) /\ WF_vars(Deliver(c))

-----------------------------------------------------------------------------
(* Properties.                                                             *)

MainPcs == {"signal", "setsockopt", "bind", "listen", "epoll_create1",
            "pthread_create", "while", "accept", "epoll_ctl", "close",
            "close_epoll", "return", "exit"}

Phases == {"none", "open", "done", "broken", "stopped"}

(* Type correctness.                                                       *)
TypeOK ==
    /\ main \in MainPcs /\ i \in 0..NUM_THREADS
    /\ new_socket \in Fd \cup {None}
    /\ exiting \in BOOLEAN /\ status \in {None, 0, 1, 130}
    /\ queue \in Seq(Client) /\ limit \in Limits
    /\ fds \in [Fd -> Client \cup {None}]
    /\ interest \in [Worker -> SUBSET Fd]
    /\ worker \in [Worker ->
           [at : {"none", "failed", "epoll_wait", "recvmsg", "close", "print",
                  "spin"},
            events : SUBSET (Fd \X Client), event : (Fd \X Client) \cup {None},
            bytes_read : Int]]
    /\ client \in [Client -> {"connect", "write", "close", "exit"}]
    /\ sent \in [Client -> Nat] /\ arrived \in [Client -> Nat] /\ got \in [Client -> Nat]
    /\ fin \in [Client -> BOOLEAN] /\ reset \in [Client -> BOOLEAN]
    /\ phase \in [Client -> Phases] /\ faults \in 0..MaxFaults

(* An event is never stale: while a worker has it in its array, or works   *)
(* on it, its descriptor is still the connection that epoll_wait reported, *)
(* whatever main() accepts meanwhile, and no other worker has an event for *)
(* the same descriptor.                                                    *)
Pending(w) == worker[w].events \cup ({worker[w].event} \ {None})

EventsAreOwn ==
    \A w \in Worker : \A e \in Pending(w) :
        /\ fds[e[1]] = e[2]
        /\ \A v \in Worker \ {w} : \A d \in Pending(v) : d[1] # e[1]

(* The terminator is written into the buffer, not behind it: with the      *)
(* clients of the repository no receive fills the buffer.                  *)
TerminatorInBuffer ==
    \A w \in Worker : worker[w].at = "print" => worker[w].bytes_read < BUFFER_SIZE

Stream == INSTANCE ByteStream WITH
    Conn  <- Client,
    up    <- ~ exiting /\ Running,
    got   <- [c \in Client |-> [n \in 1..got[c] |-> n]],
    ended <- [c \in Client |->
                IF reset[c] THEN "cut"
                ELSE IF client[c] = "exit" /\ phase[c] # "none" THEN "fin" ELSE "no"]

(* The server receives every connection as ByteStream promises: it closes  *)
(* one only when the client has closed it and every byte was received, or  *)
(* after a reset; never a live one.                                        *)
ServesStreams == Stream!Spec

(* A worker that has a connection gives its descriptor back once the       *)
(* client has ended it.                                                    *)
Served(c) ==
    \E f \in Fd, w \in Worker :
        fds[f] = c /\ f \in interest[w] /\ worker[w].at # "failed"

EndedIsClosed ==
    \A c \in Client : (fin[c] /\ Served(c)) ~> (phase[c] # "open")

(* No client is left in the queue, also when the process is out of         *)
(* descriptors, unless SIGINT came, or the server has lost a thread or a   *)
(* descriptor to a call whose result it does not look at.                  *)
Degraded ==
    \/ \E w \in Worker : worker[w].at = "failed"
    \/ \E f \in Fd : /\ fds[f] # None /\ \A w \in Worker : f \notin interest[w]
                     /\ ~ (main = "epoll_ctl" /\ new_socket = f)

QueueDrains ==
    \A c \in Client :
        (\E k \in 1..Len(queue) : queue[k] = c)
        ~> ((\E f \in Fd : fds[f] = c) \/ exiting \/ Degraded \/ ~ Running)

(* After SIGINT main() returns, although it waits for no worker.           *)
SigintTerminates == exiting ~> ~ Running
=============================================================================
