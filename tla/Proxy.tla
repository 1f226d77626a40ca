-------------------------------- MODULE Proxy --------------------------------
(***************************************************************************)
(* proxy/proxy.cpp: a proxy on one boost::asio::io_context.  The thread in *)
(* io_context.run() completes asynchronous operations and runs their       *)
(* handlers one after the other; a ProxySession is a chain of operations,  *)
(* each started by the handler of the one before, and lives as long as an  *)
(* operation or a handler holds a shared pointer to it.  All bytes from    *)
(* the origin server go through one buffer of the session.                 *)
(*                                                                         *)
(* What a session writes to the origin server is not the request: the      *)
(* buffer is filled with a's.  The model has no bytes in that direction.   *)
(***************************************************************************)
EXTENDS Integers, FiniteSets, Sequences, Functions

CONSTANTS
    Client,     \* clients, one connection each
    BUFFER,     \* bytes in server_buffer_ (8192)
    MaxBytes,   \* bound: bytes that the origin server sends in all
    MaxFaults,  \* bound: accepts that fail and origin connections that are reset
    None

ASSUME ProxyAssumption ==
    /\ BUFFER \in Nat \ {0} /\ MaxBytes \in Nat /\ MaxFaults \in Nat
    /\ None \notin Client

VARIABLES
    main,           \* "construct", "run" or "return"
    waiting,        \* Seq of clients that wait to be accepted
    faults,         \* accepts that have failed, connections reset by the origin server
    ops,            \* operations in progress: [op, s, length, self]
    handlers,       \* Seq of [op, s, length, self, ec]: handlers to be run
    resolving,      \* the session that is in resolver.resolve(), or None
    alive,          \* sessions that are not destroyed
    server_buffer_, \* [Client -> numbers of bytes, 0 for one that was never filled]
    written,        \* [Client -> bytes of the buffer already written]
    request,        \* clients that have sent something
    gone,           \* clients whose connection is closed or reset
    sent,           \* [Client -> bytes sent by the origin server]
    fin, cut,       \* origin connections that are closed, or reset
    taken,          \* [Client -> bytes read from the origin server]
    relayed,        \* [Client -> Seq of the bytes written to the client]
    phase           \* [Client -> what became of the stream]

runVars  == <<main, faults, ops, handlers, resolving, alive>>
bufVars  == <<server_buffer_, written, taken, relayed>>
peerVars == <<request, gone, sent, fin, cut>>
vars     == <<runVars, waiting, bufVars, peerVars, phase>>

Init ==
    /\ main = "construct" /\ waiting = <<>> /\ faults = 0
    /\ ops = {} /\ handlers = <<>> /\ resolving = None /\ alive = {}
    /\ server_buffer_ = [c \in Client |-> [k \in 1..BUFFER |-> 0]]
    /\ written = [c \in Client |-> 0]
    /\ taken = [c \in Client |-> 0] /\ relayed = [c \in Client |-> <<>>]
    /\ request = {} /\ gone = {}
    /\ sent = [c \in Client |-> 0] /\ fin = {} /\ cut = {}
    /\ phase = [c \in Client |-> "none"]

-----------------------------------------------------------------------------
(* Operations and handlers.                                                *)

(* An asynchronous operation of a session; [this, self] keeps it alive.    *)
Op(op, s, length) ==
    [op |-> op, s |-> s, length |-> length, self |-> TRUE, ec |-> "pending"]

read_from_client(s) == Op("read_client", s, 0)
async_connect(s)    == Op("connect", s, 0)
write_to_server(s)  == Op("write_server", s, 0)
read_from_server(s) == Op("read_server", s, 0)

(* Mutant: the handler captures this only.                                 *)
write_to_client_NoSelf(s, length) ==
    [Op("write_client", s, length) EXCEPT !.self = FALSE]

(* Mutant: the whole array is written.                                     *)
write_to_client_All(s, length) == Op("write_client", s, BUFFER)

write_to_client(s, length) == Op("write_client", s, length)

accept == [Op("accept", None, 0) EXCEPT !.self = FALSE]

(* The thread is in run() and not inside a handler.                        *)
Ready == main = "run" /\ resolving = None

(* The process ends, and with it every session.                            *)
End ==
    /\ main' = "return"
    /\ ops' = {} /\ handlers' = <<>> /\ resolving' = None /\ alive' = {}
    /\ waiting' = <<>>
    /\ phase' = [c \in Client |-> IF phase[c] = "open" THEN "stopped" ELSE phase[c]]
    /\ UNCHANGED <<faults, bufVars, peerVars>>

(* main(): the acceptor binds and accepts; or its constructor throws, or   *)
(* there is no port to listen on.                                          *)
Construct ==
    /\ main = "construct"
    /\ \/ /\ main' = "run" /\ ops' = {accept}
          /\ UNCHANGED <<faults, handlers, resolving, alive, waiting, bufVars,
                         peerVars, phase>>
       \/ End

-----------------------------------------------------------------------------
(* An operation completes: its handler is queued.                          *)

Completed(o, s, ec, length) ==
    /\ Ready /\ o \in ops
    /\ ops' = ops \ {o}
    /\ handlers' = Append(handlers, [o EXCEPT !.s = s, !.ec = ec, !.length = length])
    /\ UNCHANGED <<main, resolving, alive, peerVars>>

AcceptCompletes ==
    /\ \/ /\ waiting # <<>> /\ Completed(accept, Head(waiting), "ok", 0)
          /\ waiting' = Tail(waiting) /\ UNCHANGED faults
       \/ /\ faults < MaxFaults /\ Completed(accept, None, "error", 0)
          /\ faults' = faults + 1 /\ UNCHANGED waiting
    /\ UNCHANGED <<bufVars, phase>>

ReadClientCompletes(s) ==
    /\ \/ s \in request /\ Completed(read_from_client(s), s, "ok", 1)
       \/ s \in gone /\ Completed(read_from_client(s), s, "error", 0)
    /\ UNCHANGED <<faults, waiting, bufVars, phase>>

(* async_connect tries the endpoints in turn.                              *)
ConnectCompletes(s) ==
    /\ \/ /\ Completed(async_connect(s), s, "ok", 0)
          /\ phase' = [phase EXCEPT ![s] = "open"]
       \/ Completed(async_connect(s), s, "error", 0) /\ UNCHANGED phase
    /\ UNCHANGED <<faults, waiting, bufVars>>

WriteServerCompletes(s) ==
    /\ \/ s \notin cut /\ Completed(write_to_server(s), s, "ok", 0)
       \/ s \in cut /\ Completed(write_to_server(s), s, "error", 0)
    /\ UNCHANGED <<faults, waiting, bufVars, phase>>

(* async_read_some: bytes that have arrived, at most a buffer full, to the *)
(* start of the buffer; a reset may lose what was not read before.         *)
ReadServerCompletes(s) ==
    /\ \/ \E n \in 1..BUFFER :
             /\ taken[s] + n <= sent[s]
             /\ server_buffer_' = [server_buffer_ EXCEPT ![s] =
                    [k \in 1..BUFFER |-> IF k <= n THEN taken[s] + k ELSE @[k]]]
             /\ taken' = [taken EXCEPT ![s] = @ + n]
             /\ Completed(read_from_server(s), s, "ok", n)
       \/ /\ \/ /\ s \in fin /\ taken[s] = sent[s]
                /\ Completed(read_from_server(s), s, "eof", 0)
             \/ s \in cut /\ Completed(read_from_server(s), s, "error", 0)
          /\ UNCHANGED <<server_buffer_, taken>>
    /\ UNCHANGED <<faults, waiting, written, relayed, phase>>

(* async_write: the next byte of the buffer, as it is now, goes to the     *)
(* kernel, which may take it although the client has gone; when all are    *)
(* written the operation is complete.                                      *)
WriteSome(s) ==
    \E o \in ops :
        /\ Ready /\ o.op = "write_client" /\ o.s = s
        /\ written[s] < o.length
        /\ relayed' = [relayed EXCEPT ![s] = Append(@, server_buffer_[s][written[s] + 1])]
        /\ written' = [written EXCEPT ![s] = @ + 1]
        /\ UNCHANGED <<runVars, waiting, server_buffer_, taken, peerVars, phase>>

WriteClientCompletes(s) ==
    /\ \E o \in ops :
        /\ o.op = "write_client" /\ o.s = s
        /\ \/ written[s] = o.length /\ Completed(o, s, "ok", o.length)
           \/ s \in gone /\ Completed(o, s, "error", written[s])
    /\ UNCHANGED <<faults, waiting, bufVars, phase>>

-----------------------------------------------------------------------------
(* The thread runs the first handler of the queue.                         *)

Run(op, ec) ==
    /\ Ready /\ handlers # <<>>
    /\ Head(handlers).op = op /\ Head(handlers).ec \in ec
    /\ handlers' = Tail(handlers)

Session == Head(handlers).s

Holds(O, H) ==
    {o.s : o \in {o \in O : o.self}}
    \cup {H[k].s : k \in {k \in 1..Len(H) : H[k].self}}

(* The handler returns and its pointer to the session goes; the session    *)
(* stays if an operation has another.                                      *)
Start(O) ==
    /\ ops' = ops \cup O
    /\ alive' = alive \cap Holds(ops', handlers')
    /\ UNCHANGED <<main, faults, resolving, waiting, peerVars>>

(* Mutant: a failed accept is the last one.                                *)
HandleAccept_Stops ==
    /\ Run("accept", {"ok", "error"})
    /\ IF Head(handlers).ec = "ok"
       THEN ops' = ops \cup {accept, read_from_client(Session)} /\ alive' = alive \cup {Session}
       ELSE UNCHANGED <<ops, alive>>
    /\ UNCHANGED <<main, faults, resolving, waiting, peerVars, bufVars, phase>>

(* A new session starts to read, if there is one; in any case the next     *)
(* accept is started.                                                      *)
HandleAccept ==
    /\ Run("accept", {"ok", "error"})
    /\ IF Head(handlers).ec = "ok"
       THEN ops' = ops \cup {accept, read_from_client(Session)} /\ alive' = alive \cup {Session}
       ELSE ops' = ops \cup {accept} /\ UNCHANGED alive
    /\ UNCHANGED <<main, faults, resolving, waiting, peerVars, bufVars, phase>>

(* connect_to_server: resolve() blocks the thread, inside the handler.     *)
HandleReadClient ==
    /\ Run("read_client", {"ok"})
    /\ resolving' = Session
    /\ UNCHANGED <<main, faults, ops, alive, waiting, peerVars, bufVars, phase>>

(* It returns endpoints, or throws out of the handler and of run().        *)
connect_to_server ==
    /\ main = "run" /\ resolving # None
    /\ \/ /\ ops' = ops \cup {async_connect(resolving)} /\ resolving' = None
          /\ UNCHANGED <<main, faults, handlers, alive, waiting, bufVars, peerVars,
                         phase>>
       \/ End

HandleConnect ==
    /\ Run("connect", {"ok"}) /\ Start({write_to_server(Session)})
    /\ UNCHANGED <<bufVars, phase>>

HandleWriteServer ==
    /\ Run("write_server", {"ok"}) /\ Start({read_from_server(Session)})
    /\ UNCHANGED <<bufVars, phase>>

(* Mutant: the next read is started with the write.                        *)
HandleReadServer_Pipelined ==
    /\ Run("read_server", {"ok"})
    /\ Start({write_to_client(Session, Head(handlers).length), read_from_server(Session)})
    /\ written' = [written EXCEPT ![Session] = 0]
    /\ UNCHANGED <<server_buffer_, taken, relayed, phase>>

HandleReadServer ==
    /\ Run("read_server", {"ok"})
    /\ Start({write_to_client(Session, Head(handlers).length)})
    /\ written' = [written EXCEPT ![Session] = 0]
    /\ UNCHANGED <<server_buffer_, taken, relayed, phase>>

HandleWriteClient ==
    /\ Run("write_client", {"ok"}) /\ Start({read_from_server(Session)})
    /\ UNCHANGED <<bufVars, phase>>

SessionOps == {"read_client", "connect", "write_server", "read_server", "write_client"}

(* Mutant: an error of the origin server is a reason to try again.         *)
HandleError_Retries ==
    /\ \E op \in SessionOps : Run(op, {"error", "eof"})
    /\ Start(IF Head(handlers).op = "read_server" THEN {read_from_server(Session)} ELSE {})
    /\ UNCHANGED <<bufVars, phase>>

(* Every handler prints the error and starts nothing: the session is       *)
(* destroyed, and both its sockets are closed.                             *)
HandleError ==
    /\ \E op \in SessionOps : Run(op, {"error", "eof"})
    /\ Start({})
    /\ phase' = [phase EXCEPT ![Session] =
           IF @ # "open" THEN @ ELSE IF Head(handlers).ec = "eof" THEN "done" ELSE "broken"]
    /\ UNCHANGED bufVars

-----------------------------------------------------------------------------
(* The peers.                                                              *)

Peer == UNCHANGED <<main, ops, handlers, resolving, alive, bufVars, phase>>

ClientConnects(c) ==
    /\ main = "run" /\ c \notin alive /\ phase[c] = "none" /\ c \notin request \cup gone
    /\ \A k \in 1..Len(waiting) : waiting[k] # c
    /\ \A k \in 1..Len(handlers) : handlers[k].s # c
    /\ waiting' = Append(waiting, c)
    /\ Peer /\ UNCHANGED <<peerVars, faults>>

Connected(c) ==
    \/ c \in alive \/ (\E k \in 1..Len(waiting) : waiting[k] = c)
    \/ \E k \in 1..Len(handlers) : handlers[k].s = c

ClientSends(c) ==
    /\ Connected(c) /\ c \notin request \cup gone
    /\ request' = request \cup {c}
    /\ Peer /\ UNCHANGED <<waiting, faults, gone, sent, fin, cut>>

ClientGoes(c) ==
    /\ Connected(c) /\ c \notin gone
    /\ gone' = gone \cup {c}
    /\ Peer /\ UNCHANGED <<waiting, faults, request, sent, fin, cut>>

(* The origin server sends a byte, closes, or the connection is reset.     *)
Origin(c) ==
    /\ phase[c] = "open" /\ c \notin cut
    /\ \/ /\ FoldFunction(+, 0, sent) < MaxBytes /\ c \notin fin
          /\ sent' = [sent EXCEPT ![c] = @ + 1] /\ UNCHANGED <<fin, cut, faults>>
       \/ c \notin fin /\ fin' = fin \cup {c} /\ UNCHANGED <<sent, cut, faults>>
       \/ /\ faults < MaxFaults /\ faults' = faults + 1
          /\ cut' = cut \cup {c} /\ UNCHANGED <<sent, fin>>
    /\ Peer /\ UNCHANGED <<waiting, request, gone>>

-----------------------------------------------------------------------------
(* The thread: io_context.run().                                           *)
Handlers ==
    \/ HandleAccept \/ HandleReadClient \/ connect_to_server \/ HandleConnect
    \/ HandleWriteServer \/ HandleReadServer \/ HandleWriteClient \/ HandleError

Completes(s) ==
    \/ ReadClientCompletes(s) \/ ConnectCompletes(s) \/ WriteServerCompletes(s)
    \/ ReadServerCompletes(s) \/ WriteSome(s) \/ WriteClientCompletes(s)

Next ==
    \/ Construct \/ Handlers \/ AcceptCompletes
    \/ \E s \in Client : \/ Completes(s) \/ ClientConnects(s) \/ ClientSends(s)
                         \/ ClientGoes(s) \/ Origin(s)

(* The thread runs, the reactor completes what can be completed, resolve() *)
(* comes back (it has time-outs of its own), and a client that does not go *)
(* away takes what is written to it.                                       *)
Spec ==
    /\ Init /\ [][Next]_vars
    /\ WF_vars(Construct) /\ WF_vars(Handlers) /\ WF_vars(AcceptCompletes)
    /\ \A s \in Client : WF_vars(Completes(s))

-----------------------------------------------------------------------------
(* Properties.                                                             *)

OpKinds == SessionOps \cup {"accept"}

(* Type correctness; no byte that the buffer was not filled with, a 0, is  *)
(* written to a client.                                                    *)
TypeOK ==
    /\ main \in {"construct", "run", "return"}
    /\ waiting \in Seq(Client) /\ faults \in 0..MaxFaults
    /\ \A o \in ops : o.op \in OpKinds /\ o.ec = "pending"
    /\ \A k \in 1..Len(handlers) : handlers[k].op \in OpKinds /\ handlers[k].ec # "pending"
    /\ resolving \in Client \cup {None} /\ alive \subseteq Client
    /\ server_buffer_ \in [Client -> [1..BUFFER -> Nat]]
    /\ written \in [Client -> 0..BUFFER] /\ taken \in [Client -> Nat]
    /\ relayed \in [Client -> Seq(Nat \ {0})]
    /\ request \subseteq Client /\ gone \subseteq Client
    /\ sent \in [Client -> Nat] /\ fin \subseteq Client /\ cut \subseteq Client
    /\ phase \in [Client -> {"none", "open", "done", "broken", "stopped"}]

(* The life of a session is its chain: one operation, queued handler or    *)
(* resolve() at a time while it is alive, so that it does not work on its  *)
(* buffer twice, and none when it is destroyed, so that no operation uses  *)
(* the memory of a session that is gone.                                   *)
Chain(s) ==
    Cardinality({o \in ops : o.s = s})
    + Cardinality({k \in 1..Len(handlers) : handlers[k].op # "accept" /\ handlers[k].s = s})
    + (IF resolving = s THEN 1 ELSE 0)

OneStepAtATime ==
    \A s \in Client : Chain(s) = (IF s \in alive THEN 1 ELSE 0)

Stream == INSTANCE ByteStream WITH
    Conn  <- Client,
    got   <- relayed,
    up    <- main # "return",
    ended <- [c \in Client |-> IF c \in cut \cup gone THEN "cut"
                               ELSE IF c \in fin THEN "fin" ELSE "no"]

(* The client gets the answer of the origin server as ByteStream promises: *)
(* every byte once and in order, and the whole of it when the server has   *)
(* closed and nobody has broken the connection.                            *)
RelaysStreams == Stream!Spec

(* Although an accept may fail, and resolve() of another session stops all *)
(* of them, a client that waits is accepted or the proxy has ended.  This  *)
(* is for accepts that fail a bounded number of times (MaxFaults): while   *)
(* there is no descriptor left do_accept() only tries again and again.     *)
WaitingIsAccepted ==
    \A c \in Client :
        (\E k \in 1..Len(waiting) : waiting[k] = c)
        ~> (c \in alive \/ main = "return")

(* When the origin server has closed, the session ends, so that the client *)
(* is not left waiting.                                                    *)
OriginEndEndsSession ==
    \A c \in Client : (c \in fin) ~> (c \notin alive)
=============================================================================
