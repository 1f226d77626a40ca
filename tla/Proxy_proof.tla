----------------------------- MODULE Proxy_proof -----------------------------
(***************************************************************************)
(* Proofs about the proxy, for any number of clients and any buffer size.  *)
(***************************************************************************)
EXTENDS Proxy, SequenceTheorems, FiniteSetTheorems, TLAPS

-----------------------------------------------------------------------------
(* The inductive invariant.                                                *)

(* TypeOK in parts.                                                        *)
RunType ==
    /\ main \in {"construct", "run", "return"}
    /\ waiting \in Seq(Client) /\ faults \in 0..MaxFaults
    /\ resolving \in Client \cup {None}

BufType ==
    /\ server_buffer_ \in [Client -> [1..BUFFER -> Nat]]
    /\ written \in [Client -> 0..BUFFER] /\ taken \in [Client -> Nat]
    /\ relayed \in [Client -> Seq(Nat)]

PeerType ==
    /\ request \subseteq Client /\ gone \subseteq Client
    /\ sent \in [Client -> Nat] /\ fin \subseteq Client /\ cut \subseteq Client
    /\ phase \in [Client -> {"none", "open", "done", "broken", "stopped"}]

(* The records of operations and of handlers.                              *)
SessionOp(c) == [op : SessionOps, s : {c}, length : 0..BUFFER, self : {TRUE}, ec : {"pending"}]

SessionHandler(c) ==
    [op : SessionOps, s : {c}, length : 0..BUFFER, self : {TRUE}, ec : {"ok", "error", "eof"}]

AcceptHandler ==
    [op : {"accept"}, s : Client, length : {0}, self : {FALSE}, ec : {"ok"}]
    \cup [op : {"accept"}, s : {None}, length : {0}, self : {FALSE}, ec : {"error"}]

HandlerRec == AcceptHandler \cup UNION {SessionHandler(c) : c \in Client}

OpsType == \A o \in ops : o = accept \/ \E c \in Client : o \in SessionOp(c)

HandlersType == handlers \in Seq(HandlerRec)

Index == 1..Len(handlers)

(* Handler k belongs to the session of c.                                  *)
IsFor(k, c) == handlers[k].op # "accept" /\ handlers[k].s = c

(* One operation, handler or resolve() for each session that is alive, and *)
(* none for another.                                                       *)
OneOp      == \A o, p \in ops : o.s = p.s => o = p
OneHandler == \A c \in Client : \A k, l \in Index : IsFor(k, c) /\ IsFor(l, c) => k = l
NotBoth    == \A o \in ops : \A k \in Index : ~ IsFor(k, o.s)
Alone      ==
    resolving # None => /\ \A o \in ops : o.s # resolving
                        /\ \A k \in Index : ~ IsFor(k, resolving)

AliveIs ==
    alive = {c \in Client : \/ \E o \in ops : o.s = c
                            \/ \E k \in Index : IsFor(k, c)
                            \/ resolving = c}

(* At most one accept is under way, and the client that it has found, like *)
(* one that waits, has no session yet.                                     *)
OneAccept ==
    /\ accept \in ops => \A k \in Index : handlers[k].op # "accept"
    /\ \A k, l \in Index : handlers[k].op = "accept" /\ handlers[l].op = "accept" => k = l

New(c) == c \notin alive /\ phase[c] = "none"

Newcomers ==
    /\ \A k \in Index : handlers[k].op = "accept" /\ handlers[k].ec = "ok" =>
           /\ New(handlers[k].s)
           /\ \A j \in 1..Len(waiting) : waiting[j] # handlers[k].s
    /\ \A j \in 1..Len(waiting) : New(waiting[j])
    /\ \A i, j \in 1..Len(waiting) : waiting[i] = waiting[j] => i = j

Begin == main = "construct" => /\ ops = {} /\ handlers = <<>> /\ resolving = None
                               /\ waiting = <<>> /\ alive = {}

ChainInv ==
    /\ OpsType /\ HandlersType /\ RunType
    /\ OneOp /\ OneHandler /\ NotBoth /\ Alone /\ AliveIs
    /\ OneAccept /\ Newcomers /\ Begin

(* The n bytes that were read last are in the buffer, and w of them have   *)
(* been written to the client.                                             *)
Buffered(c, n, w) ==
    /\ w <= n /\ Len(relayed[c]) + (n - w) = taken[c]
    /\ \A k \in 1..n : server_buffer_[c][k] + n = taken[c] + k

UpToDate(c) == Len(relayed[c]) = taken[c]

(* What holds of a session at operation or handler o.                      *)
Stage(o, c) ==
    /\ o.op = "read_client" => phase[c] = "none" /\ UpToDate(c)
    /\ o.op = "connect" =>
           phase[c] = (IF o.ec = "ok" THEN "open" ELSE "none") /\ UpToDate(c)
    /\ o.op \in {"write_server", "read_server", "write_client"} => phase[c] = "open"
    /\ o.op = "write_server" => UpToDate(c) /\ (o.ec = "error" => c \in cut)
    /\ o.op = "read_server" =>
           /\ o.ec = "pending" => UpToDate(c)
           /\ o.ec = "ok" => o.length > 0 /\ Buffered(c, o.length, 0)
           /\ o.ec = "eof" => UpToDate(c) /\ c \in fin /\ taken[c] = sent[c]
           /\ o.ec = "error" => c \in cut
    /\ o.op = "write_client" =>
           /\ o.ec = "pending" => Buffered(c, o.length, written[c])
           /\ o.ec = "ok" => UpToDate(c)
           /\ o.ec = "error" => c \in gone
    /\ o.ec = "eof" => o.op = "read_server"

(* The bytes of a client are the first ones of the origin server, in       *)
(* order.                                                                  *)
Ordered(c) ==
    /\ \A k \in 1..Len(relayed[c]) : relayed[c][k] = k
    /\ taken[c] <= sent[c] /\ Len(relayed[c]) <= taken[c]
    /\ phase[c] = "none" => UpToDate(c)

InOrder == \A c \in Client : Ordered(c)

Stages ==
    \A c \in Client :
        /\ \A o \in ops : o.s = c => Stage(o, c)
        /\ \A k \in Index : IsFor(k, c) => Stage(handlers[k], c)
        /\ resolving = c => phase[c] = "none" /\ UpToDate(c)

DataInv == BufType /\ PeerType /\ InOrder /\ Stages

ProxyInv == ChainInv /\ DataInv

LEMMA HandlerFields ==
    /\ \A h \in AcceptHandler :
           /\ h.op = "accept" /\ h.self = FALSE /\ h.ec \in {"ok", "error"}
           /\ h.ec = "ok" => h.s \in Client
    /\ \A c \in Client : \A h \in SessionHandler(c) :
           /\ h.op \in SessionOps /\ h.op # "accept" /\ h.s = c /\ h.self = TRUE
           /\ h.ec \in {"ok", "error", "eof"} /\ h.length \in 0..BUFFER
BY DEF AcceptHandler, SessionHandler, SessionOps

LEMMA HandlerKinds ==
    ASSUME NEW h \in HandlerRec
    PROVE  h \in AcceptHandler \/ \E c \in Client : h \in SessionHandler(c)
BY Zenon DEF HandlerRec

LEMMA FunctionIsSeq ==
    ASSUME NEW S, NEW n \in Nat, NEW s \in [1..n -> S]
    PROVE  s \in Seq(S)
BY SeqDef

LEMMA ProxyInvType == ProxyInv => TypeOK
<1> SUFFICES ASSUME ProxyInv PROVE TypeOK
  OBVIOUS
<1> USE DEF ProxyInv, ChainInv, DataInv
<1>1. \A o \in ops : o.op \in OpKinds /\ o.ec = "pending"
  BY DEF OpsType, SessionOp, OpKinds, accept, Op
<1>2. \A k \in 1..Len(handlers) : handlers[k].op \in OpKinds /\ handlers[k].ec # "pending"
  <2>1. \A h \in HandlerRec : h.op \in OpKinds /\ h.ec # "pending"
    BY HandlerKinds, HandlerFields DEF OpKinds
  <2>2. QED
    BY <2>1, ElementOfSeq DEF HandlersType
<1>3. alive \subseteq Client
  BY DEF AliveIs
<1>4. relayed \in [Client -> Seq(Nat \ {0})]
  <2>1. ASSUME NEW c \in Client
        PROVE  relayed[c] \in Seq(Nat \ {0})
    <3>1. relayed[c] \in Seq(Nat) /\ Len(relayed[c]) \in Nat
      BY LenProperties DEF BufType
    <3>2. \A k \in 1..Len(relayed[c]) : relayed[c][k] \in Nat \ {0}
      BY <3>1 DEF InOrder, Ordered
    <3>3. relayed[c] \in [1..Len(relayed[c]) -> Nat \ {0}]
      BY <3>1, <3>2, LenProperties
    <3>4. QED
      BY <3>1, <3>3, FunctionIsSeq
  <2>2. QED
    BY <2>1 DEF BufType
<1>5. QED
  BY <1>1, <1>2, <1>3, <1>4 DEF TypeOK, RunType, BufType, PeerType

-----------------------------------------------------------------------------
(* The queue of handlers.                                                  *)

LEMMA HandlerCases ==
    ASSUME HandlersType, NEW k \in Index
    PROVE  /\ handlers[k].op = "accept" => handlers[k] \in AcceptHandler
           /\ handlers[k].op # "accept" =>
                  /\ handlers[k].s \in Client
                  /\ handlers[k] \in SessionHandler(handlers[k].s)
<1>1. handlers[k] \in HandlerRec
  BY ElementOfSeq DEF HandlersType, Index
<1>2. QED
  BY <1>1, HandlerKinds, HandlerFields

LEMMA AppendFacts ==
    ASSUME HandlersType, NEW h \in HandlerRec, handlers' = Append(handlers, h)
    PROVE  /\ HandlersType' /\ Len(handlers) \in Nat
           /\ Index' = Index \cup {Len(handlers) + 1} /\ Len(handlers) + 1 \notin Index
           /\ handlers'[Len(handlers) + 1] = h
           /\ \A k \in Index : handlers'[k] = handlers[k]
<1>1. /\ handlers' \in Seq(HandlerRec) /\ Len(handlers') = Len(handlers) + 1
      /\ handlers'[Len(handlers) + 1] = h
      /\ \A k \in 1..Len(handlers) : handlers'[k] = handlers[k]
  BY AppendProperties DEF HandlersType
<1>2. Len(handlers) \in Nat
  BY LenProperties DEF HandlersType
<1>3. 1..(Len(handlers) + 1) = 1..Len(handlers) \cup {Len(handlers) + 1}
  BY <1>2
<1>4. QED
  BY <1>1, <1>2, <1>3 DEF HandlersType, Index

(* What the thread takes out is the first handler; the others move up.     *)
LEMMA TailFacts ==
    ASSUME HandlersType, handlers # <<>>, handlers' = Tail(handlers)
    PROVE  /\ HandlersType'
           /\ 1 \in Index /\ Head(handlers) = handlers[1]
           /\ \A k \in Index' : /\ k + 1 \in Index /\ k + 1 # 1
                                /\ handlers'[k] = handlers[k + 1]
           /\ \A l \in Index : l # 1 => \E k \in Index' : l = k + 1
           /\ \A j, k \in Index' : j + 1 = k + 1 => j = k
<1>1. /\ handlers' \in Seq(HandlerRec) /\ Len(handlers') = Len(handlers) - 1
      /\ \A k \in 1..Len(handlers') : handlers'[k] = handlers[k + 1]
  BY HeadTailProperties DEF HandlersType
<1>2. Len(handlers) \in Nat \ {0}
  BY EmptySeq DEF HandlersType
<1>3. 1 \in Index /\ Head(handlers) = handlers[1]
  BY <1>2 DEF Index, HandlersType
<1>4. \A k \in Index' : k + 1 \in Index /\ k + 1 # 1
  BY <1>1, <1>2 DEF Index
<1>5. \A l \in Index : l # 1 => l - 1 \in Index' /\ l = (l - 1) + 1
  BY <1>1, <1>2 DEF Index
<1>6. \A j, k \in Index' : j + 1 = k + 1 => j = k
  BY <1>1, <1>2 DEF Index
<1>7. QED
  BY <1>1, <1>3, <1>4, <1>5, <1>6 DEF HandlersType, Index

LEMMA OpFields ==
    /\ accept.op = "accept" /\ accept.s = None /\ accept.self = FALSE
    /\ accept.length = 0 /\ accept.ec = "pending"
    /\ \A c \in Client : \A o \in SessionOp(c) :
           /\ o.op \in SessionOps /\ o.op # "accept" /\ o.s = c /\ o.self = TRUE
           /\ o.ec = "pending" /\ o.length \in 0..BUFFER /\ o # accept
<1>1. accept.op = "accept" /\ accept.s = None /\ accept.self = FALSE
      /\ accept.length = 0 /\ accept.ec = "pending"
  BY DEF accept, Op
<1>2. QED
  BY <1>1 DEF SessionOp, SessionOps

-----------------------------------------------------------------------------
(* The chain of a session: an operation completes, its handler runs.       *)

(* The handler that the completion of o queues.                            *)
HandlerOf(o, s, ec, length) == [o EXCEPT !.s = s, !.ec = ec, !.length = length]

LEMMA HandlerOfSession ==
    ASSUME NEW c \in Client, NEW o \in SessionOp(c), NEW n \in 0..BUFFER,
           NEW ec \in {"ok", "error", "eof"}
    PROVE  /\ HandlerOf(o, c, ec, n) \in SessionHandler(c)
           /\ HandlerOf(o, c, ec, n).op = o.op /\ HandlerOf(o, c, ec, n).ec = ec
           /\ HandlerOf(o, c, ec, n).length = n
BY DEF HandlerOf, SessionOp, SessionHandler

LEMMA CompletedChain ==
    ASSUME ChainInv, NEW c \in Client, NEW o \in SessionOp(c), NEW n \in 0..BUFFER,
           NEW ec \in {"ok", "error", "eof"}, Completed(o, c, ec, n),
           UNCHANGED <<waiting, faults>>,
           \A d \in Client \ {c} : phase'[d] = phase[d]
    PROVE  /\ ChainInv'
           /\ ops' \subseteq ops /\ \A p \in ops' : p.s # c
           /\ resolving' = resolving /\ resolving' # c
           /\ \A k \in Index' : handlers'[k] = HandlerOf(o, c, ec, n)
                                \/ (k \in Index /\ handlers'[k] = handlers[k] /\ ~ IsFor(k, c))
<1> USE DEF ChainInv
<1>0. PICK h, m : h = HandlerOf(o, c, ec, n) /\ m = Len(handlers) + 1
  OBVIOUS
<1>1. h \in SessionHandler(c) /\ h \in HandlerRec /\ h.op # "accept" /\ h.s = c
  BY <1>0, HandlerOfSession, HandlerFields DEF HandlerRec
<1>2. /\ o \in ops /\ o.s = c /\ ops' = ops \ {o} /\ handlers' = Append(handlers, h)
      /\ main = "run" /\ resolving = None
      /\ UNCHANGED <<main, resolving, alive>>
  BY <1>0, OpFields DEF Completed, Ready, HandlerOf
<1>3. /\ HandlersType' /\ Index' = Index \cup {m} /\ m \notin Index
      /\ handlers'[m] = h /\ \A k \in Index : handlers'[k] = handlers[k]
  BY <1>0, <1>1, <1>2, AppendFacts
<1>4. \A d \in Client : /\ \A k \in Index : IsFor(k, d)' <=> IsFor(k, d)
                        /\ IsFor(m, d)' <=> d = c
  BY <1>1, <1>3 DEF IsFor
<1>5. \A p \in ops' : p.s # c
  BY <1>2 DEF OneOp
<1>6. \A k \in Index : ~ IsFor(k, c)
  BY <1>2 DEF NotBoth
<1>7. \A p \in ops : p.s \in Client \/ p.s = None
  BY OpFields DEF OpsType
<1>8. OpsType' /\ RunType'
  BY <1>2 DEF OpsType, RunType
<1>9. OneOp' /\ OneHandler'
  BY <1>2, <1>3, <1>4, <1>6 DEF OneOp, OneHandler
<1>10. NotBoth'
  <2>1. ASSUME NEW p \in ops', NEW k \in Index', IsFor(k, p.s)'
        PROVE  FALSE
    <3>1. p \in ops /\ p.s # c
      BY <1>2, <1>5
    <3>2. CASE k \in Index
      BY <1>3, <2>1, <3>1, <3>2 DEF NotBoth, IsFor
    <3>3. CASE k = m
      BY <1>1, <1>3, <2>1, <3>1, <3>3 DEF IsFor
    <3>4. QED
      BY <1>3, <3>2, <3>3
  <2>2. QED
    BY <2>1 DEF NotBoth
<1>11. Alone' /\ Begin'
  BY <1>2 DEF Alone, Begin
<1>12. AliveIs'
  <2>1. ASSUME NEW d \in Client \ {c}
        PROVE  (\E p \in ops' : p.s = d) <=> (\E p \in ops : p.s = d)
    BY <1>2
  <2>2. ASSUME NEW d \in Client \ {c}
        PROVE  (\E k \in Index' : IsFor(k, d)') <=> (\E k \in Index : IsFor(k, d))
    BY <1>3, <1>4
  <2>3. c \in alive /\ m \in Index' /\ IsFor(m, c)'
    BY <1>2, <1>3, <1>4 DEF AliveIs
  <2>4. \A d \in Client : d \in alive <=> \/ \E p \in ops' : p.s = d
                                          \/ \E k \in Index' : IsFor(k, d)'
                                          \/ resolving' = d
    BY <1>2, <2>1, <2>2, <2>3 DEF AliveIs
  <2>5. alive' \subseteq Client
    BY <1>2 DEF AliveIs
  <2>6. QED
    BY <1>2, <2>4, <2>5 DEF AliveIs
<1>13. OneAccept'
  <2>1. accept \in ops' => accept \in ops
    BY <1>2
  <2>2. (accept \in ops)' => \A k \in Index' : handlers'[k].op # "accept"
    BY <1>1, <1>3, <2>1 DEF OneAccept
  <2>3. \A k, l \in Index' : handlers'[k].op = "accept" /\ handlers'[l].op = "accept" => k = l
    BY <1>1, <1>3 DEF OneAccept
  <2>4. QED
    BY <2>2, <2>3 DEF OneAccept
<1>14. Newcomers'
  <2>1. c \in alive /\ alive' = alive
    BY <1>2 DEF AliveIs
  <2>2. \A d \in Client : New(d) => New(d)'
    BY <2>1 DEF New
  <2>3. \A k \in Index : handlers[k].op = "accept" /\ handlers[k].ec = "ok" =>
            handlers[k].s \in Client
    BY HandlerCases, HandlerFields
  <2>4. \A j \in 1..Len(waiting) : waiting[j] \in Client
    BY ElementOfSeq DEF RunType
  <2>5. QED
    BY <1>1, <1>3, <2>2, <2>3, <2>4 DEF Newcomers
<1>15. ChainInv'
  BY <1>3, <1>8, <1>9, <1>10, <1>11, <1>12, <1>13, <1>14
<1>16. ops' \subseteq ops /\ resolving' = resolving /\ resolving' # c
  BY <1>2, ProxyAssumption
<1>17. \A k \in Index' : handlers'[k] = HandlerOf(o, c, ec, n)
                         \/ (k \in Index /\ handlers'[k] = handlers[k] /\ ~ IsFor(k, c))
  BY <1>0, <1>3, <1>6
<1>18. QED
  BY <1>5, <1>15, <1>16, <1>17

(* The handler of a session runs, and starts its next operation or none.   *)
LEMMA RunChain ==
    ASSUME ChainInv, Ready, NEW c \in Client, handlers # <<>>,
           Head(handlers) \in SessionHandler(c), handlers' = Tail(handlers),
           NEW O \in SUBSET SessionOp(c), \A p, q \in O : p = q, Start(O),
           \A d \in Client \ {c} : phase'[d] = phase[d]
    PROVE  /\ ChainInv'
           /\ \A p \in ops' : p \in O \/ (p \in ops /\ p.s # c)
           /\ resolving' = resolving /\ resolving' # c
           /\ \A k \in Index' : /\ k + 1 \in Index /\ handlers'[k] = handlers[k + 1]
                                /\ ~ IsFor(k, c)'
<1> USE DEF ChainInv
<1>1. /\ ops' = ops \cup O /\ alive' = alive \cap Holds(ops', handlers')
      /\ main = "run" /\ resolving = None /\ resolving # c
      /\ UNCHANGED <<main, faults, resolving, waiting>>
  BY ProxyAssumption DEF Start, Ready
<1>2. /\ HandlersType' /\ 1 \in Index /\ Head(handlers) = handlers[1]
      /\ \A k \in Index' : /\ k + 1 \in Index /\ k + 1 # 1
                           /\ handlers'[k] = handlers[k + 1]
      /\ \A l \in Index : l # 1 => \E k \in Index' : l = k + 1
      /\ \A j, k \in Index' : j + 1 = k + 1 => j = k
  BY TailFacts
<1>2a. \A k \in Index' : \E l \in Index : handlers'[k] = handlers[l]
  BY <1>2
<1>3. IsFor(1, c) /\ handlers[1].op # "accept"
  BY <1>2, HandlerFields DEF IsFor
<1>4. \A p \in ops : p.s # c
  BY <1>2, <1>3 DEF NotBoth
<1>5. \A l \in Index : IsFor(l, c) => l = 1
  BY <1>2, <1>3 DEF OneHandler
<1>6. \A p \in O : p.s = c /\ p.self = TRUE /\ p.op # "accept" /\ p # accept
  BY OpFields
<1>7. \A d \in Client : \A k \in Index' : IsFor(k, d)' <=> IsFor(k + 1, d)
  BY <1>2 DEF IsFor
<1>8. \A k \in Index' : ~ IsFor(k, c)'
  BY <1>2, <1>5, <1>7
<1>9. OpsType' /\ RunType' /\ Begin'
  BY <1>1 DEF OpsType, RunType, Begin
<1>10. OneOp'
  BY <1>1, <1>4, <1>6 DEF OneOp
<1>11. OneHandler'
  BY <1>2, <1>7 DEF OneHandler
<1>12. NotBoth'
  <2>1. ASSUME NEW p \in ops', NEW k \in Index', IsFor(k, p.s)'
        PROVE  FALSE
    <3>1. IsFor(k + 1, p.s) /\ k + 1 \in Index
      BY <1>2, <2>1 DEF IsFor
    <3>2. CASE p \in ops
      BY <3>1, <3>2 DEF NotBoth
    <3>3. CASE p \in O
      BY <1>2, <1>5, <1>6, <3>1, <3>3
    <3>4. QED
      BY <1>1, <3>2, <3>3
  <2>2. QED
    BY <2>1 DEF NotBoth
<1>13. Alone'
  BY <1>1 DEF Alone
<1>14. \A p \in ops : p.s \in Client => p.self = TRUE
  BY OpFields, ProxyAssumption DEF OpsType
<1>15. \A k \in Index' : \A d \in Client : IsFor(k, d)' => handlers'[k].self = TRUE
  <2>1. \A l \in Index : \A d \in Client : IsFor(l, d) => handlers[l].self = TRUE
    BY HandlerCases, HandlerFields DEF IsFor
  <2>2. QED
    BY <1>2, <1>7, <2>1
<1>16. \A k \in Index' : handlers'[k].self = TRUE => handlers'[k].op # "accept"
  <2>1. \A l \in Index : handlers[l].self = TRUE => handlers[l].op # "accept"
    BY HandlerCases, HandlerFields
  <2>2. QED
    BY <1>2a, <2>1
<1>17. \A k \in Index' : handlers'[k].self \in BOOLEAN
  <2>1. \A l \in Index : handlers[l].self \in BOOLEAN
    BY HandlerCases, HandlerFields
  <2>2. QED
    BY <1>2a, <2>1
<1>18. ASSUME NEW d \in Client
       PROVE  d \in Holds(ops', handlers') <=>
                  (\E p \in ops' : p.s = d) \/ (\E k \in Index' : IsFor(k, d)')
  <2>1. (\E p \in ops' : p.self /\ p.s = d) <=> (\E p \in ops' : p.s = d)
    BY <1>1, <1>6, <1>14
  <2>2. (\E k \in Index' : handlers'[k].self /\ handlers'[k].s = d)
            <=> (\E k \in Index' : IsFor(k, d)')
    BY <1>15, <1>16, <1>17 DEF IsFor
  <2>3. d \in Holds(ops', handlers') <=>
            \/ \E p \in ops' : p.self /\ p.s = d
            \/ \E k \in Index' : handlers'[k].self /\ handlers'[k].s = d
    BY DEF Holds, Index
  <2>4. QED
    BY <2>1, <2>2, <2>3
<1>19. ASSUME NEW d \in Client,
              (\E p \in ops' : p.s = d) \/ (\E k \in Index' : IsFor(k, d)')
       PROVE  d \in alive
  <2>1. CASE d = c
    BY <1>2, <1>3, <2>1 DEF AliveIs
  <2>2. CASE d # c
    BY <1>1, <1>2, <1>6, <1>7, <1>19, <2>2 DEF AliveIs
  <2>3. QED
    BY <2>1, <2>2
<1>20. AliveIs'
  <2>1. \A d \in Client : d \in alive' <=> \/ \E p \in ops' : p.s = d
                                           \/ \E k \in Index' : IsFor(k, d)'
                                           \/ resolving' = d
    BY <1>1, <1>18, <1>19, ProxyAssumption
  <2>2. alive' \subseteq Client
    BY <1>1 DEF AliveIs
  <2>3. QED
    BY <2>1, <2>2 DEF AliveIs
<1>21. OneAccept'
  <2>1. accept \in ops' => accept \in ops
    BY <1>1, <1>6
  <2>2. (accept \in ops)' => \A k \in Index' : handlers'[k].op # "accept"
    BY <1>2a, <2>1 DEF OneAccept
  <2>3. ASSUME NEW k \in Index', NEW l \in Index',
               handlers'[k].op = "accept", handlers'[l].op = "accept"
        PROVE  k = l
    <3>1. /\ k + 1 \in Index /\ handlers[k + 1].op = "accept"
          /\ l + 1 \in Index /\ handlers[l + 1].op = "accept"
      BY <1>2, <2>3
    <3>2. k + 1 = l + 1
      BY <3>1 DEF OneAccept
    <3>3. QED
      BY <1>2, <3>2
  <2>4. QED
    BY <2>2, <2>3 DEF OneAccept
<1>22. Newcomers'
  <2>1. c \in alive /\ alive' \subseteq alive
    BY <1>1, <1>2, <1>3 DEF AliveIs
  <2>2. \A d \in Client : New(d) => New(d)'
    BY <2>1 DEF New
  <2>3. \A k \in Index : handlers[k].op = "accept" /\ handlers[k].ec = "ok" =>
            handlers[k].s \in Client
    BY HandlerCases, HandlerFields
  <2>4. \A j \in 1..Len(waiting) : waiting[j] \in Client
    BY ElementOfSeq DEF RunType
  <2>5. \A k \in Index' : handlers'[k].op = "accept" /\ handlers'[k].ec = "ok" =>
            /\ New(handlers[k].s)'
            /\ \A j \in 1..Len(waiting) : waiting[j] # handlers'[k].s
    <3>1. SUFFICES ASSUME NEW k \in Index', handlers'[k].op = "accept",
                          handlers'[k].ec = "ok"
                   PROVE  /\ New(handlers[k].s)'
                          /\ \A j \in 1..Len(waiting) : waiting[j] # handlers'[k].s
      OBVIOUS
    <3>2. PICK l \in Index : handlers'[k] = handlers[l]
      BY <1>2a
    <3>3. PICK d \in Client : d = handlers[l].s
      BY <2>3, <3>1, <3>2
    <3>4. New(d) /\ \A j \in 1..Len(waiting) : waiting[j] # d
      BY <3>1, <3>2, <3>3 DEF Newcomers
    <3>5. QED
      BY <2>2, <3>2, <3>3, <3>4 DEF New
  <2>6. QED
    BY <1>1, <2>2, <2>4, <2>5 DEF Newcomers
<1>23. ChainInv'
  BY <1>2, <1>9, <1>10, <1>11, <1>12, <1>13, <1>20, <1>21, <1>22
<1>24. QED
  BY <1>1, <1>2, <1>4, <1>8, <1>23

(* The queues and the operations stay as they are.                         *)
LEMMA QuietChain ==
    ASSUME ChainInv, UNCHANGED <<main, ops, handlers, resolving, alive, waiting, phase>>,
           faults' \in 0..MaxFaults
    PROVE  ChainInv'
<1> USE DEF ChainInv
<1>1. Index' = Index /\ \A k, c : IsFor(k, c)' <=> IsFor(k, c)
  BY DEF Index, IsFor
<1>2. OpsType' /\ HandlersType' /\ RunType' /\ OneOp' /\ Begin'
  BY DEF OpsType, HandlersType, RunType, OneOp, Begin
<1>3. OneHandler' /\ NotBoth' /\ Alone' /\ OneAccept'
  BY <1>1 DEF OneHandler, NotBoth, Alone, OneAccept, IsFor
<1>4. AliveIs'
  BY <1>1 DEF AliveIs, IsFor
<1>5. Newcomers'
  BY <1>1 DEF Newcomers, New
<1>6. QED
  BY <1>2, <1>3, <1>4, <1>5

LEMMA EmptyQueue ==
    ASSUME handlers' = <<>>
    PROVE  HandlersType' /\ Index' = {}
BY EmptySeq DEF HandlersType, Index

LEMMA EndChain ==
    ASSUME ChainInv, End
    PROVE  ChainInv'
<1> USE DEF ChainInv
<1>1. /\ ops' = {} /\ handlers' = <<>> /\ resolving' = None /\ alive' = {}
      /\ waiting' = <<>> /\ main' = "return" /\ faults' = faults
  BY DEF End
<1>2. HandlersType' /\ Index' = {}
  BY <1>1, EmptyQueue
<1>3. waiting' \in Seq(Client) /\ Len(waiting') = 0 /\ 1..Len(waiting') = {}
  BY <1>1, EmptySeq
<1>4. OpsType' /\ RunType' /\ OneOp' /\ Begin'
  BY <1>1, <1>3 DEF OpsType, RunType, OneOp, Begin
<1>5. OneHandler' /\ NotBoth' /\ Alone' /\ OneAccept'
  BY <1>1, <1>2 DEF OneHandler, NotBoth, Alone, OneAccept
<1>6. AliveIs'
  BY <1>1, <1>2, ProxyAssumption DEF AliveIs
<1>7. Newcomers'
  BY <1>1, <1>2, <1>3 DEF Newcomers
<1>8. QED
  BY <1>2, <1>4, <1>5, <1>6, <1>7

LEMMA ConstructChain ==
    ASSUME ChainInv, main = "construct", main' = "run", ops' = {accept},
           UNCHANGED <<faults, handlers, resolving, alive, waiting, phase>>
    PROVE  ChainInv'
<1> USE DEF ChainInv
<1>1. /\ ops = {} /\ handlers' = <<>> /\ resolving' = None /\ alive' = {}
      /\ waiting' = <<>>
  BY DEF Begin
<1>2. HandlersType' /\ Index' = {}
  BY <1>1, EmptyQueue
<1>3. waiting' \in Seq(Client) /\ Len(waiting') = 0 /\ 1..Len(waiting') = {}
  BY <1>1, EmptySeq
<1>4. OpsType' /\ RunType' /\ OneOp' /\ Begin'
  BY <1>1, <1>3 DEF OpsType, RunType, OneOp, Begin
<1>5. OneHandler' /\ NotBoth' /\ Alone' /\ OneAccept'
  BY <1>1, <1>2 DEF OneHandler, NotBoth, Alone, OneAccept
<1>6. AliveIs'
  BY <1>1, <1>2, OpFields, ProxyAssumption DEF AliveIs
<1>7. Newcomers'
  BY <1>1, <1>2, <1>3 DEF Newcomers
<1>8. QED
  BY <1>2, <1>4, <1>5, <1>6, <1>7

(* A client that connects is new.                                          *)
LEMMA ConnectsChain ==
    ASSUME ChainInv, NEW c \in Client, ClientConnects(c)
    PROVE  ChainInv'
<1> USE DEF ChainInv
<1>1. /\ UNCHANGED <<main, ops, handlers, resolving, alive, phase, faults>>
      /\ main = "run" /\ New(c) /\ waiting' = Append(waiting, c)
      /\ \A j \in 1..Len(waiting) : waiting[j] # c
      /\ \A k \in Index : handlers[k].s # c
  BY DEF ClientConnects, Peer, New, Index
<1>2. Index' = Index /\ \A k, d : IsFor(k, d)' <=> IsFor(k, d)
  BY <1>1 DEF Index, IsFor
<1>3. /\ waiting' \in Seq(Client) /\ Len(waiting') = Len(waiting) + 1
      /\ waiting'[Len(waiting) + 1] = c
      /\ \A j \in 1..Len(waiting) : waiting'[j] = waiting[j]
  BY <1>1, AppendProperties DEF RunType
<1>4. PICK m : m = Len(waiting) + 1
  OBVIOUS
<1>5. 1..Len(waiting') = 1..Len(waiting) \cup {m}
  <2>1. Len(waiting) \in Nat
    BY LenProperties DEF RunType
  <2>2. QED
    BY <1>3, <1>4, <2>1
<1>6. OpsType' /\ HandlersType' /\ RunType' /\ OneOp' /\ Begin'
  BY <1>1, <1>3 DEF OpsType, HandlersType, RunType, OneOp, Begin
<1>7. OneHandler' /\ NotBoth' /\ Alone' /\ OneAccept'
  BY <1>1, <1>2 DEF OneHandler, NotBoth, Alone, OneAccept, IsFor
<1>8. AliveIs'
  BY <1>1, <1>2 DEF AliveIs, IsFor
<1>9. Newcomers'
  BY <1>1, <1>2, <1>3, <1>4, <1>5 DEF Newcomers, New
<1>10. QED
  BY <1>6, <1>7, <1>8, <1>9

(* The resolver comes back, and the session goes on.                       *)
LEMMA ResolvedChain ==
    ASSUME ChainInv, main = "run", NEW c \in Client, resolving = c,
           NEW o \in SessionOp(c), ops' = ops \cup {o}, resolving' = None,
           UNCHANGED <<main, faults, handlers, alive, waiting, phase>>
    PROVE  ChainInv'
<1> USE DEF ChainInv
<1>1. Index' = Index /\ \A k, d : IsFor(k, d)' <=> IsFor(k, d)
  BY DEF Index, IsFor
<1>2. o.s = c /\ o # accept /\ c # None
  BY OpFields, ProxyAssumption
<1>3. (\A p \in ops : p.s # c) /\ (\A k \in Index : ~ IsFor(k, c))
  BY <1>2 DEF Alone
<1>4. OpsType' /\ HandlersType' /\ RunType' /\ OneOp' /\ Begin'
  BY <1>2, <1>3 DEF OpsType, HandlersType, RunType, OneOp, Begin
<1>5. OneHandler' /\ NotBoth' /\ Alone' /\ OneAccept'
  BY <1>1, <1>2, <1>3 DEF OneHandler, NotBoth, Alone, OneAccept, IsFor
<1>6. AliveIs'
  <2>1. \A d \in Client : d \in alive <=> \/ \E p \in ops' : p.s = d
                                          \/ \E k \in Index' : IsFor(k, d)'
                                          \/ resolving' = d
    BY <1>1, <1>2, ProxyAssumption DEF AliveIs
  <2>2. QED
    BY <2>1 DEF AliveIs
<1>7. Newcomers'
  BY <1>1 DEF Newcomers, New
<1>8. QED
  BY <1>4, <1>5, <1>6, <1>7

LEMMA AcceptHandlerOf ==
    /\ \A c \in Client : HandlerOf(accept, c, "ok", 0) \in AcceptHandler
    /\ HandlerOf(accept, None, "error", 0) \in AcceptHandler
BY DEF HandlerOf, accept, Op, AcceptHandler

(* The accept completes with client x, the first that waits, or fails.     *)
LEMMA AcceptedChain ==
    ASSUME ChainInv, AcceptCompletes
    PROVE  /\ ChainInv'
           /\ ops' \subseteq ops /\ resolving' = resolving
           /\ \A k \in Index' : \/ handlers'[k].op = "accept"
                                \/ k \in Index /\ handlers'[k] = handlers[k]
<1> USE DEF ChainInv
<1>0. PICK h : /\ h \in AcceptHandler /\ handlers' = Append(handlers, h)
               /\ \/ /\ h.ec = "ok" /\ h.s = Head(waiting) /\ waiting # <<>>
                     /\ waiting' = Tail(waiting) /\ faults' = faults
                  \/ /\ h.ec # "ok" /\ waiting' = waiting
                     /\ faults < MaxFaults /\ faults' = faults + 1
  <2>1. CASE /\ waiting # <<>> /\ Completed(accept, Head(waiting), "ok", 0)
             /\ waiting' = Tail(waiting) /\ UNCHANGED faults
    <3>1. Head(waiting) \in Client
      BY <2>1, HeadTailProperties DEF RunType
    <3>2. PICK h : h = HandlerOf(accept, Head(waiting), "ok", 0)
      OBVIOUS
    <3>3. h \in AcceptHandler /\ h.ec = "ok" /\ h.s = Head(waiting)
      BY <3>1, <3>2, AcceptHandlerOf DEF HandlerOf, accept, Op
    <3>4. handlers' = Append(handlers, h)
      BY <2>1, <3>2 DEF Completed, HandlerOf
    <3>5. QED
      BY <2>1, <3>3, <3>4
  <2>2. CASE /\ faults < MaxFaults /\ Completed(accept, None, "error", 0)
             /\ faults' = faults + 1 /\ UNCHANGED waiting
    <3>2. PICK h : h = HandlerOf(accept, None, "error", 0)
      OBVIOUS
    <3>3. h \in AcceptHandler /\ h.ec # "ok"
      BY <3>2, AcceptHandlerOf DEF HandlerOf, accept, Op
    <3>4. handlers' = Append(handlers, h)
      BY <2>2, <3>2 DEF Completed, HandlerOf
    <3>5. QED
      BY <2>2, <3>3, <3>4
  <2>3. QED
    BY <2>1, <2>2 DEF AcceptCompletes
<1>1. h \in HandlerRec /\ h.op = "accept"
  BY <1>0, HandlerFields DEF HandlerRec
<1>2. /\ accept \in ops /\ ops' = ops \ {accept} /\ main = "run" /\ resolving = None
      /\ UNCHANGED <<main, resolving, alive, phase>>
  BY DEF AcceptCompletes, Completed, Ready
<1>3. PICK m : m = Len(handlers) + 1
  OBVIOUS
<1>4. /\ HandlersType' /\ Index' = Index \cup {m} /\ m \notin Index
      /\ handlers'[m] = h /\ \A k \in Index : handlers'[k] = handlers[k]
  BY <1>0, <1>1, <1>3, AppendFacts
<1>5. \A d \in Client : /\ \A k \in Index : IsFor(k, d)' <=> IsFor(k, d)
                        /\ ~ IsFor(m, d)'
  BY <1>1, <1>4 DEF IsFor
<1>6. OpsType' /\ OneOp' /\ Begin' /\ Alone'
  BY <1>2 DEF OpsType, OneOp, Begin, Alone
<1>7. PICK W : W = Len(waiting)
  OBVIOUS
<1>8. /\ waiting' \in Seq(Client)
      /\ \/ waiting' = waiting
         \/ /\ h.ec = "ok" /\ 1 \in 1..W /\ h.s = waiting[1]
            /\ \A j \in 1..Len(waiting') : /\ j + 1 \in 1..W /\ j + 1 # 1
                                           /\ waiting'[j] = waiting[j + 1]
            /\ \A i, j \in 1..Len(waiting') : i + 1 = j + 1 => i = j
  <2>1. CASE waiting' = waiting
    BY <2>1 DEF RunType
  <2>2. CASE h.s = Head(waiting) /\ waiting # <<>> /\ waiting' = Tail(waiting) /\ h.ec = "ok"
    <3>1. waiting \in Seq(Client) /\ W \in Nat \ {0}
      BY <1>7, <2>2, EmptySeq DEF RunType
    <3>2. /\ waiting' \in Seq(Client) /\ Len(waiting') = W - 1
          /\ \A j \in 1..Len(waiting') : waiting'[j] = waiting[j + 1]
      BY <1>7, <2>2, <3>1, HeadTailProperties
    <3>3. Head(waiting) = waiting[1]
      BY <3>1
    <3>4. \A j \in 1..(W - 1) : j + 1 \in 1..W /\ j + 1 # 1
      BY <3>1
    <3>5. 1 \in 1..W /\ \A i, j \in 1..(W - 1) : i + 1 = j + 1 => i = j
      BY <3>1
    <3>6. QED
      BY <2>2, <3>2, <3>3, <3>4, <3>5
  <2>3. QED
    BY <1>0, <2>1, <2>2
<1>9. RunType'
  BY <1>0, <1>2, <1>8, ProxyAssumption DEF RunType
<1>10. OneHandler'
  BY <1>4, <1>5 DEF OneHandler
<1>11. NotBoth'
  <2>1. ASSUME NEW p \in ops', NEW k \in Index', IsFor(k, p.s)'
        PROVE  FALSE
    <3>1. p \in ops /\ k # m
      BY <1>1, <1>2, <1>4, <2>1 DEF IsFor
    <3>2. QED
      BY <1>4, <2>1, <3>1 DEF NotBoth, IsFor
  <2>2. QED
    BY <2>1 DEF NotBoth
<1>12. AliveIs'
  <2>1. \A d \in Client : (\E p \in ops' : p.s = d) <=> (\E p \in ops : p.s = d)
    BY <1>2, OpFields, ProxyAssumption
  <2>2. \A d \in Client : d \in alive <=> \/ \E p \in ops' : p.s = d
                                          \/ \E k \in Index' : IsFor(k, d)'
                                          \/ resolving' = d
    BY <1>2, <1>4, <1>5, <2>1 DEF AliveIs
  <2>3. alive' \subseteq Client
    BY <1>2 DEF AliveIs
  <2>4. QED
    BY <1>2, <2>2, <2>3 DEF AliveIs
<1>13. OneAccept'
  <2>1. accept \notin ops' /\ \A k \in Index : handlers[k].op # "accept"
    BY <1>2 DEF OneAccept
  <2>2. QED
    BY <1>4, <2>1 DEF OneAccept
<1>14. Newcomers'
  <2>1. \A d : New(d)' <=> New(d)
    BY <1>2 DEF New
  <2>2. \A k \in Index : handlers'[k].op # "accept"
    BY <1>2, <1>4 DEF OneAccept
  <2>3. CASE waiting' = waiting
    <3>1. h.ec = "ok" => FALSE
      BY <1>0, <2>3, HeadTailProperties, EmptySeq, LenProperties DEF RunType
    <3>2. QED
      BY <1>4, <2>1, <2>2, <2>3, <3>1 DEF Newcomers, New
  <2>4. CASE /\ h.ec = "ok" /\ 1 \in 1..W /\ h.s = waiting[1]
             /\ \A j \in 1..Len(waiting') : /\ j + 1 \in 1..W /\ j + 1 # 1
                                            /\ waiting'[j] = waiting[j + 1]
             /\ \A i, j \in 1..Len(waiting') : i + 1 = j + 1 => i = j
    <3>1. /\ \A i, j \in 1..W : waiting[i] = waiting[j] => i = j
          /\ \A j \in 1..W : New(waiting[j])
      BY <1>7 DEF Newcomers
    <3>2. New(h.s) /\ \A j \in 1..Len(waiting') : waiting'[j] # h.s
      BY <2>4, <3>1
    <3>3. \A j \in 1..Len(waiting') : New(waiting'[j])
      BY <2>4, <3>1
    <3>4. \A i, j \in 1..Len(waiting') : waiting'[i] = waiting'[j] => i = j
      BY <2>4, <3>1
    <3>5. \A j \in 1..Len(waiting') : New(waiting[j])'
      BY <1>2, <3>3 DEF New
    <3>6. \A k \in Index' : handlers'[k].op = "accept" => handlers'[k] = h
      BY <1>4, <2>2
    <3>7. \A k \in Index' : handlers'[k].op = "accept" => New(handlers[k].s)'
      BY <1>2, <3>2, <3>6 DEF New
    <3>8. QED
      BY <3>2, <3>4, <3>5, <3>6, <3>7 DEF Newcomers
  <2>5. QED
    BY <1>8, <2>3, <2>4
<1>15. ChainInv'
  BY <1>4, <1>6, <1>9, <1>10, <1>11, <1>12, <1>13, <1>14
<1>16. QED
  BY <1>1, <1>2, <1>4, <1>15

(* The handler of the accept runs: the session of the client that was      *)
(* found is a new one, and the next accept is started.                     *)
LEMMA HandleAcceptChain ==
    ASSUME ChainInv, HandleAccept
    PROVE  /\ ChainInv'
           /\ \A p \in ops' : \/ p \in ops \/ p = accept
                              \/ \E c \in Client : /\ p = read_from_client(c)
                                                   /\ phase[c] = "none"
           /\ resolving' = resolving
           /\ \A k \in Index' : \E l \in Index : handlers'[k] = handlers[l]
<1> USE DEF ChainInv
<1>1. /\ main = "run" /\ resolving = None /\ handlers # <<>> /\ handlers' = Tail(handlers)
      /\ Head(handlers).op = "accept"
      /\ UNCHANGED <<main, faults, resolving, waiting, phase>>
  BY DEF HandleAccept, Run, Ready
<1>2. /\ HandlersType' /\ 1 \in Index /\ Head(handlers) = handlers[1]
      /\ \A k \in Index' : /\ k + 1 \in Index /\ k + 1 # 1
                           /\ handlers'[k] = handlers[k + 1]
      /\ \A l \in Index : l # 1 => \E k \in Index' : l = k + 1
      /\ \A j, k \in Index' : j + 1 = k + 1 => j = k
  BY <1>1, TailFacts
<1>3. \A k \in Index' : \E l \in Index : handlers'[k] = handlers[l]
  BY <1>2
<1>4. handlers[1] \in AcceptHandler
  BY <1>1, <1>2, HandlerCases
<1>5. \A d \in Client : \A k \in Index' : IsFor(k, d)' <=> IsFor(k + 1, d)
  BY <1>2 DEF IsFor
<1>6. \A d \in Client : ~ IsFor(1, d)
  BY <1>1, <1>2 DEF IsFor
<1>7. \A d \in Client : (\E k \in Index' : IsFor(k, d)') <=> (\E l \in Index : IsFor(l, d))
  BY <1>2, <1>5, <1>6
<1>8. accept \notin ops /\ \A k \in Index' : handlers'[k].op # "accept"
  <2>1. \A l \in Index : handlers[l].op = "accept" => l = 1
    BY <1>1, <1>2 DEF OneAccept
  <2>2. accept \notin ops
    BY <1>1, <1>2 DEF OneAccept
  <2>3. ASSUME NEW k \in Index'
        PROVE  handlers'[k].op # "accept"
    <3>1. k + 1 \in Index /\ k + 1 # 1 /\ handlers'[k] = handlers[k + 1]
      BY <1>2
    <3>2. QED
      BY <2>1, <3>1
  <2>4. QED
    BY <2>2, <2>3
<1>9. HandlersType' /\ RunType' /\ OneHandler' /\ Begin' /\ Alone'
  BY <1>1, <1>2, <1>5 DEF RunType, OneHandler, Begin, Alone
<1>10. OneAccept'
  BY <1>8 DEF OneAccept
<1>11. PICK O \in SUBSET UNION {SessionOp(c) : c \in Client} :
           /\ ops' = ops \cup {accept} \cup O
           /\ O = {} => alive' = alive
           /\ \A p \in O : /\ New(p.s) /\ p = read_from_client(p.s) /\ alive' = alive \cup {p.s}
                           /\ \A q \in O : p = q
                           /\ \A j \in 1..Len(waiting) : waiting[j] # p.s
           /\ \A p \in O : p.s \in Client /\ p # accept
  <2>1. CASE Head(handlers).ec = "ok"
    <3>1. PICK c \in Client : c = handlers[1].s
      BY <1>2, <1>4, <2>1, HandlerFields
    <3>2. PICK p : p = read_from_client(c)
      OBVIOUS
    <3>3. p \in SessionOp(c) /\ p.s = c
      BY <3>2, ProxyAssumption DEF read_from_client, Op, SessionOp, SessionOps
    <3>4. New(c) /\ \A j \in 1..Len(waiting) : waiting[j] # c
      BY <1>1, <1>2, <2>1, <3>1 DEF Newcomers
    <3>5. ops' = ops \cup {accept} \cup {p} /\ alive' = alive \cup {c}
      BY <1>2, <2>1, <3>1, <3>2 DEF HandleAccept, Session
    <3>6. {p} \in SUBSET UNION {SessionOp(d) : d \in Client} /\ p # accept
      BY <3>3, OpFields
    <3>7. QED
      BY <3>2, <3>3, <3>4, <3>5, <3>6
  <2>2. CASE Head(handlers).ec # "ok"
    <3>1. ops' = ops \cup {accept} /\ alive' = alive
      BY <2>2 DEF HandleAccept
    <3>2. {} \in SUBSET UNION {SessionOp(d) : d \in Client}
      OBVIOUS
    <3>3. ops' = ops \cup {accept} \cup {}
      BY <3>1
    <3>4. QED
      BY <3>1, <3>2, <3>3
  <2>3. QED
    BY <2>1, <2>2
<1>12. \A p \in O : /\ \A q \in ops : q.s # p.s
                    /\ \A l \in Index : ~ IsFor(l, p.s)
  BY <1>11 DEF New, AliveIs
<1>13. OpsType'
  BY <1>11 DEF OpsType
<1>14. \A q \in ops : q.s \in Client /\ q # accept
  BY <1>8, OpFields DEF OpsType
<1>15. OneOp'
  <2>1. ASSUME NEW p \in ops', NEW q \in ops', p.s = q.s
        PROVE  p = q
    <3>1. CASE p = accept \/ q = accept
      BY <1>11, <1>14, <2>1, <3>1, OpFields, ProxyAssumption
    <3>2. CASE p \in O \/ q \in O
      BY <1>11, <1>12, <1>14, <2>1, <3>2, OpFields, ProxyAssumption
    <3>3. CASE p \in ops /\ q \in ops
      BY <2>1, <3>3 DEF OneOp
    <3>4. QED
      BY <1>11, <3>1, <3>2, <3>3
  <2>2. QED
    BY <2>1 DEF OneOp
<1>16. NotBoth'
  <2>1. ASSUME NEW p \in ops', NEW k \in Index', IsFor(k, p.s)'
        PROVE  FALSE
    <3>1. k + 1 \in Index /\ IsFor(k + 1, p.s)
      BY <1>2, <2>1 DEF IsFor
    <3>2. CASE p = accept
      <4>1. handlers[k + 1].op # "accept" /\ handlers[k + 1].s = None
        BY <3>1, <3>2, OpFields DEF IsFor
      <4>2. QED
        BY <3>1, <4>1, HandlerCases, ProxyAssumption
    <3>3. CASE p \in O
      BY <1>12, <3>1, <3>3
    <3>4. CASE p \in ops
      BY <3>1, <3>4 DEF NotBoth
    <3>5. QED
      BY <1>11, <3>2, <3>3, <3>4
  <2>2. QED
    BY <2>1 DEF NotBoth
<1>17. AliveIs'
  <2>1. \A d \in Client : (\E p \in ops' : p.s = d) <=>
                              (\E p \in ops : p.s = d) \/ (\E p \in O : p.s = d)
    BY <1>11, OpFields, ProxyAssumption
  <2>2. \A d : d \in alive' <=> d \in alive \/ \E p \in O : p.s = d
    <3>1. CASE O = {}
      BY <1>11, <3>1
    <3>2. CASE O # {}
      <4>1. PICK p \in O : alive' = alive \cup {p.s} /\ \A q \in O : p = q
        BY <1>11, <3>2
      <4>2. QED
        BY <4>1
    <3>3. QED
      BY <3>1, <3>2
  <2>3. \A d \in Client : d \in alive' <=> \/ \E p \in ops' : p.s = d
                                           \/ \E k \in Index' : IsFor(k, d)'
                                           \/ resolving' = d
    BY <1>1, <1>7, <2>1, <2>2 DEF AliveIs
  <2>4. alive' \subseteq Client
    BY <1>11, <2>2 DEF AliveIs
  <2>5. QED
    BY <2>3, <2>4 DEF AliveIs
<1>18. Newcomers'
  <2>1. \A j \in 1..Len(waiting) : New(waiting[j])'
    <3>1. CASE O = {}
      BY <1>1, <1>11, <3>1 DEF Newcomers, New
    <3>2. CASE O # {}
      <4>1. PICK p \in O : /\ alive' = alive \cup {p.s}
                           /\ \A j \in 1..Len(waiting) : waiting[j] # p.s
        BY <1>11, <3>2
      <4>2. QED
        BY <1>1, <4>1 DEF Newcomers, New
    <3>3. QED
      BY <3>1, <3>2
  <2>2. QED
    BY <1>1, <1>8, <2>1 DEF Newcomers
<1>19. ChainInv'
  BY <1>9, <1>10, <1>13, <1>15, <1>16, <1>17, <1>18
<1>20. QED
  BY <1>1, <1>3, <1>11, <1>19 DEF New

(* The request of a client is read: the thread is in resolve().            *)
LEMMA ReadClientChain ==
    ASSUME ChainInv, HandleReadClient
    PROVE  /\ ChainInv' /\ resolving' \in Client /\ 1 \in Index /\ ops' = ops
           /\ IsFor(1, resolving') /\ handlers[1].op = "read_client"
           /\ \A k \in Index' : /\ \E l \in Index : handlers'[k] = handlers[l]
                                /\ ~ IsFor(k, resolving)'
<1> USE DEF ChainInv
<1>1. /\ main = "run" /\ resolving = None /\ handlers # <<>> /\ handlers' = Tail(handlers)
      /\ Head(handlers).op = "read_client" /\ resolving' = Head(handlers).s
      /\ UNCHANGED <<main, faults, ops, alive, waiting, phase>>
  BY DEF HandleReadClient, Run, Ready, Session
<1>2. /\ HandlersType' /\ 1 \in Index /\ Head(handlers) = handlers[1]
      /\ \A k \in Index' : /\ k + 1 \in Index /\ k + 1 # 1
                           /\ handlers'[k] = handlers[k + 1]
      /\ \A l \in Index : l # 1 => \E k \in Index' : l = k + 1
      /\ \A j, k \in Index' : j + 1 = k + 1 => j = k
  BY <1>1, TailFacts
<1>3. \A k \in Index' : \E l \in Index : handlers'[k] = handlers[l]
  BY <1>2
<1>4. PICK c \in Client : c = handlers[1].s
  BY <1>1, <1>2, HandlerCases
<1>5. resolving' = c /\ c # None /\ IsFor(1, c)
  BY <1>1, <1>2, <1>4, ProxyAssumption DEF IsFor
<1>6. (\A p \in ops : p.s # c) /\ \A l \in Index : IsFor(l, c) => l = 1
  BY <1>2, <1>5 DEF NotBoth, OneHandler
<1>7. \A d \in Client : \A k \in Index' : IsFor(k, d)' <=> IsFor(k + 1, d)
  BY <1>2 DEF IsFor
<1>8. \A k \in Index' : ~ IsFor(k, c)'
  BY <1>2, <1>6, <1>7
<1>9. OpsType' /\ HandlersType' /\ RunType' /\ OneOp' /\ Begin'
  BY <1>1, <1>2, <1>5 DEF OpsType, RunType, OneOp, Begin
<1>10. OneHandler'
  BY <1>2, <1>7 DEF OneHandler
<1>11. NotBoth'
  <2>1. ASSUME NEW p \in ops', NEW k \in Index', IsFor(k, p.s)'
        PROVE  FALSE
    <3>1. k + 1 \in Index /\ handlers'[k] = handlers[k + 1] /\ p \in ops
      BY <1>1, <1>2
    <3>2. IsFor(k + 1, p.s)
      BY <2>1, <3>1 DEF IsFor
    <3>3. QED
      BY <3>1, <3>2 DEF NotBoth
  <2>2. QED
    BY <2>1 DEF NotBoth
<1>12. Alone'
  BY <1>1, <1>5, <1>6, <1>8 DEF Alone, IsFor
<1>13. AliveIs'
  <2>1. \A d \in Client \ {c} :
            (\E k \in Index' : IsFor(k, d)') <=> (\E l \in Index : IsFor(l, d))
    BY <1>2, <1>4, <1>7 DEF IsFor
  <2>2. \A d \in Client : d \in alive <=> \/ \E p \in ops' : p.s = d
                                          \/ \E k \in Index' : IsFor(k, d)'
                                          \/ resolving' = d
    BY <1>1, <1>2, <1>5, <2>1, ProxyAssumption DEF AliveIs
  <2>3. alive' \subseteq Client
    BY <1>1 DEF AliveIs
  <2>4. QED
    BY <1>1, <2>2, <2>3 DEF AliveIs
<1>14. OneAccept'
  <2>1. (accept \in ops)' => \A k \in Index' : handlers'[k].op # "accept"
    BY <1>1, <1>3 DEF OneAccept
  <2>2. \A k, l \in Index' : handlers'[k].op = "accept" /\ handlers'[l].op = "accept" => k = l
    BY <1>2 DEF OneAccept
  <2>3. QED
    BY <2>1, <2>2 DEF OneAccept
<1>15. Newcomers'
  <2>1. \A d : New(d)' <=> New(d)
    BY <1>1 DEF New
  <2>2. ASSUME NEW k \in Index', handlers'[k].op = "accept", handlers'[k].ec = "ok"
        PROVE  /\ New(handlers[k].s)'
               /\ \A j \in 1..Len(waiting) : waiting[j] # handlers'[k].s
    <3>1. PICK l \in Index : handlers'[k] = handlers[l]
      BY <1>3
    <3>2. PICK d : d = handlers[l].s
      OBVIOUS
    <3>3. New(d) /\ \A j \in 1..Len(waiting) : waiting[j] # d
      BY <2>2, <3>1, <3>2 DEF Newcomers
    <3>4. QED
      BY <1>1, <3>1, <3>2, <3>3 DEF New
  <2>3. QED
    BY <1>1, <2>1, <2>2 DEF Newcomers, New
<1>16. ChainInv'
  BY <1>9, <1>10, <1>11, <1>12, <1>13, <1>14, <1>15
<1>17. resolving' \in Client /\ IsFor(1, resolving')
  BY <1>5 DEF IsFor
<1>18. \A k \in Index' : ~ IsFor(k, resolving)'
  BY <1>5, <1>8 DEF IsFor
<1>19. ops' = ops /\ 1 \in Index /\ handlers[1].op = "read_client"
  BY <1>1, <1>2
<1>20. QED
  BY <1>3, <1>16, <1>17, <1>18, <1>19

-----------------------------------------------------------------------------
(* The bytes.                                                              *)

(* A step that leaves the stream of d alone, but for what its peers do: an *)
(* origin server that has closed sends no more.                            *)
Frame(d) ==
    /\ phase'[d] = phase[d] /\ relayed'[d] = relayed[d] /\ taken'[d] = taken[d]
    /\ server_buffer_'[d] = server_buffer_[d] /\ written'[d] = written[d]
    /\ (d \in fin => d \in fin' /\ sent'[d] = sent[d])
    /\ (d \in cut => d \in cut')
    /\ (d \in gone => d \in gone')

LEMMA StageFrame ==
    ASSUME NEW o, NEW d, Frame(d), Stage(o, d)
    PROVE  Stage(o, d)'
<1>1. UpToDate(d)' <=> UpToDate(d)
  BY DEF Frame, UpToDate
<1>2. \A n : Buffered(d, n, 0)' <=> Buffered(d, n, 0)
  BY DEF Frame, Buffered
<1>3. \A n : Buffered(d, n, written[d])' <=> Buffered(d, n, written[d])
  BY DEF Frame, Buffered
<1>4. QED
  BY <1>1, <1>2, <1>3 DEF Frame, Stage

(* Every operation and handler is a new one at its stage, or an old one of *)
(* a session that is left alone.                                           *)
LEMMA StagesStep ==
    ASSUME Stages,
           \A p \in ops' : p.s \in Client => Stage(p, p.s)' \/ (p \in ops /\ Frame(p.s)),
           \A k \in Index' : handlers'[k].op # "accept" =>
               \E h : /\ h = handlers'[k]
                      /\ Stage(h, h.s)' \/ (Frame(h.s) /\ \E l \in Index : h = handlers[l]),
           resolving' \in Client =>
               \/ phase'[resolving'] = "none" /\ Len(relayed'[resolving']) = taken'[resolving']
               \/ resolving' = resolving /\ Frame(resolving')
    PROVE  Stages'
<1> SUFFICES ASSUME NEW c \in Client
             PROVE  /\ \A o \in ops' : o.s = c => Stage(o, c)'
                    /\ \A k \in Index' : IsFor(k, c)' => Stage(handlers[k], c)'
                    /\ resolving' = c => phase'[c] = "none" /\ UpToDate(c)'
  BY DEF Stages
<1>1. ASSUME NEW o \in ops', o.s = c
      PROVE  Stage(o, c)'
  <2>1. CASE o \in ops /\ Frame(c)
    BY <1>1, <2>1, StageFrame DEF Stages
  <2>2. QED
    BY <1>1, <2>1
<1>2. ASSUME NEW k \in Index', IsFor(k, c)'
      PROVE  Stage(handlers[k], c)'
  <2>1. PICK h : /\ h = handlers'[k]
                 /\ Stage(h, h.s)' \/ (Frame(h.s) /\ \E l \in Index : h = handlers[l])
    BY <1>2 DEF IsFor
  <2>2. h.op # "accept" /\ h.s = c
    BY <1>2, <2>1 DEF IsFor
  <2>3. Stage(h, c)'
    <3>1. ASSUME Frame(h.s), NEW l \in Index, h = handlers[l]
          PROVE  Stage(h, c)'
      <4>1. Stage(h, c)
        BY <2>2, <3>1 DEF Stages, IsFor
      <4>2. QED
        BY <2>2, <3>1, <4>1, StageFrame
    <3>2. QED
      BY <2>1, <2>2, <3>1
  <2>4. QED
    BY <2>1, <2>3
<1>3. ASSUME resolving' = c
      PROVE  phase'[c] = "none" /\ UpToDate(c)'
  BY <1>3 DEF Stages, Frame, UpToDate
<1>4. QED
  BY <1>1, <1>2, <1>3

LEMMA CompletedData ==
    ASSUME ChainInv, Stages,
           NEW c \in Client, NEW o \in SessionOp(c), NEW n \in 0..BUFFER,
           NEW ec \in {"ok", "error", "eof"}, Completed(o, c, ec, n),
           UNCHANGED <<waiting, faults>>, \A d \in Client \ {c} : Frame(d),
           \A h \in SessionHandler(c) :
               h.op = o.op /\ h.ec = ec /\ h.length = n => Stage(h, c)'
    PROVE  ChainInv' /\ Stages'
<1>1. \A d \in Client \ {c} : phase'[d] = phase[d]
  BY DEF Frame
<1>2. /\ ChainInv'
      /\ ops' \subseteq ops /\ \A p \in ops' : p.s # c
      /\ resolving' = resolving /\ resolving' # c
      /\ \A k \in Index' : handlers'[k] = HandlerOf(o, c, ec, n)
                           \/ (k \in Index /\ handlers'[k] = handlers[k] /\ ~ IsFor(k, c))
  BY <1>1, CompletedChain
<1>3. PICK h : h = HandlerOf(o, c, ec, n)
  OBVIOUS
<1>4. h \in SessionHandler(c) /\ h.op = o.op /\ h.ec = ec /\ h.length = n
  BY <1>3, HandlerOfSession
<1>5. Stage(h, c)' /\ h.s = c
  BY <1>4, HandlerFields
<1>6. ASSUME NEW k \in Index', handlers'[k].op # "accept"
      PROVE  \E g : /\ g = handlers'[k]
                    /\ Stage(g, g.s)' \/ (Frame(g.s) /\ \E l \in Index : g = handlers[l])
  <2>1. CASE handlers'[k] = h
    BY <1>5, <2>1
  <2>2. CASE k \in Index /\ handlers'[k] = handlers[k] /\ ~ IsFor(k, c)
    <3>1. handlers[k].s \in Client \ {c}
      BY <1>6, <2>2, HandlerCases DEF ChainInv, IsFor
    <3>2. QED
      BY <2>2, <3>1
  <2>3. QED
    BY <1>2, <1>3, <2>1, <2>2
<1>7. \A p \in ops' : p.s \in Client => p \in ops /\ Frame(p.s)
  BY <1>2
<1>8. resolving' \in Client => resolving' = resolving /\ Frame(resolving')
  BY <1>2
<1>9. Stages'
  BY <1>6, <1>7, <1>8, StagesStep
<1>10. QED
  BY <1>2, <1>9

LEMMA RunData ==
    ASSUME ChainInv, Stages, Ready, NEW c \in Client, handlers # <<>>,
           Head(handlers) \in SessionHandler(c), handlers' = Tail(handlers),
           NEW O \in SUBSET SessionOp(c), \A p, q \in O : p = q, Start(O),
           \A d \in Client \ {c} : Frame(d), \A p \in O : Stage(p, c)'
    PROVE  ChainInv' /\ Stages'
<1>1. \A d \in Client \ {c} : phase'[d] = phase[d]
  BY DEF Frame
<1>2. /\ ChainInv'
      /\ \A p \in ops' : p \in O \/ (p \in ops /\ p.s # c)
      /\ resolving' = resolving /\ resolving' # c
      /\ \A k \in Index' : /\ k + 1 \in Index /\ handlers'[k] = handlers[k + 1]
                           /\ ~ IsFor(k, c)'
  BY <1>1, RunChain
<1>3. \A p \in ops' : p.s \in Client => Stage(p, p.s)' \/ (p \in ops /\ Frame(p.s))
  BY <1>2, OpFields
<1>4. ASSUME NEW k \in Index', handlers'[k].op # "accept"
      PROVE  \E g : /\ g = handlers'[k]
                    /\ Stage(g, g.s)' \/ (Frame(g.s) /\ \E l \in Index : g = handlers[l])
  <2>1. handlers'[k].s # c
    BY <1>2, <1>4 DEF IsFor
  <2>2. PICK l \in Index : handlers'[k] = handlers[l]
    BY <1>2
  <2>3. handlers[l].s \in Client \ {c}
    BY <1>4, <2>1, <2>2, HandlerCases DEF ChainInv
  <2>4. QED
    BY <2>2, <2>3
<1>5. resolving' \in Client => resolving' = resolving /\ Frame(resolving')
  BY <1>2
<1>6. Stages'
  BY <1>3, <1>4, <1>5, StagesStep
<1>7. QED
  BY <1>2, <1>6

LEMMA SessionOpIs ==
    ASSUME NEW c \in Client
    PROVE  /\ read_from_client(c) \in SessionOp(c) /\ read_from_client(c).op = "read_client"
           /\ async_connect(c) \in SessionOp(c) /\ async_connect(c).op = "connect"
           /\ write_to_server(c) \in SessionOp(c) /\ write_to_server(c).op = "write_server"
           /\ read_from_server(c) \in SessionOp(c) /\ read_from_server(c).op = "read_server"
           /\ \A n \in 0..BUFFER : /\ write_to_client(c, n) \in SessionOp(c)
                                   /\ write_to_client(c, n).op = "write_client"
                                   /\ write_to_client(c, n).length = n
BY ProxyAssumption DEF read_from_client, async_connect, write_to_server, read_from_server,
    write_to_client, Op, SessionOp, SessionOps

LEMMA SameData ==
    ASSUME DataInv, UNCHANGED <<bufVars, peerVars, phase>>
    PROVE  BufType' /\ PeerType' /\ InOrder' /\ \A d : Frame(d)
BY DEF DataInv, bufVars, peerVars, BufType, PeerType, InOrder, Ordered, UpToDate, Frame

LEMMA StageOfOp ==
    ASSUME ProxyInv, NEW c \in Client, NEW o \in SessionOp(c), o \in ops
    PROVE  Stage(o, c) /\ o.ec = "pending" /\ o.length \in 0..BUFFER
BY OpFields DEF ProxyInv, DataInv, Stages

(* An operation completes, and no byte moves.                              *)
LEMMA CompletedSame ==
    ASSUME ProxyInv, NEW c \in Client, NEW o \in SessionOp(c), NEW n \in 0..BUFFER,
           NEW ec \in {"ok", "error", "eof"}, Completed(o, c, ec, n),
           UNCHANGED <<waiting, faults, bufVars, phase>>,
           \A h \in SessionHandler(c) :
               h.op = o.op /\ h.ec = ec /\ h.length = n => Stage(h, c)
    PROVE  ProxyInv'
<1> USE DEF ProxyInv
<1>1. BufType' /\ PeerType' /\ InOrder' /\ \A d : Frame(d)
  BY SameData DEF Completed
<1>2. \A h \in SessionHandler(c) :
          h.op = o.op /\ h.ec = ec /\ h.length = n => Stage(h, c)'
  BY <1>1, StageFrame
<1>3. ChainInv' /\ Stages'
  BY <1>1, <1>2, CompletedData DEF DataInv
<1>4. QED
  BY <1>1, <1>3 DEF DataInv

LEMMA ReadClientCompletesInv ==
    ASSUME ProxyInv, NEW c \in Client, ReadClientCompletes(c)
    PROVE  ProxyInv'
<1>1. PICK o : o = read_from_client(c)
  OBVIOUS
<1>2. o \in SessionOp(c) /\ o.op = "read_client" /\ o \in ops
  BY <1>1, SessionOpIs DEF ReadClientCompletes, Completed
<1>3. phase[c] = "none" /\ UpToDate(c)
  BY <1>2, StageOfOp DEF Stage
<1>4. PICK ec \in {"ok", "error"}, n \in {0, 1} : Completed(o, c, ec, n)
  BY <1>1 DEF ReadClientCompletes
<1>5. n \in 0..BUFFER
  BY ProxyAssumption
<1>6. \A h \in SessionHandler(c) :
          h.op = o.op /\ h.ec = ec /\ h.length = n => Stage(h, c)
  BY <1>2, <1>3 DEF Stage
<1>7. QED
  BY <1>2, <1>4, <1>5, <1>6, CompletedSame DEF ReadClientCompletes

LEMMA WriteServerCompletesInv ==
    ASSUME ProxyInv, NEW c \in Client, WriteServerCompletes(c)
    PROVE  ProxyInv'
<1>1. PICK o : o = write_to_server(c)
  OBVIOUS
<1>2. o \in SessionOp(c) /\ o.op = "write_server" /\ o \in ops
  BY <1>1, SessionOpIs DEF WriteServerCompletes, Completed
<1>3. phase[c] = "open" /\ UpToDate(c)
  BY <1>2, StageOfOp DEF Stage
<1>4. PICK ec \in {"ok", "error"} : Completed(o, c, ec, 0) /\ (ec = "error" => c \in cut)
  BY <1>1 DEF WriteServerCompletes
<1>5. 0 \in 0..BUFFER
  BY ProxyAssumption
<1>6. \A h \in SessionHandler(c) :
          h.op = o.op /\ h.ec = ec /\ h.length = 0 => Stage(h, c)
  BY <1>2, <1>3, <1>4 DEF Stage
<1>7. QED
  BY <1>2, <1>4, <1>5, <1>6, CompletedSame DEF WriteServerCompletes

LEMMA ConnectCompletesInv ==
    ASSUME ProxyInv, NEW c \in Client, ConnectCompletes(c)
    PROVE  ProxyInv'
<1>1. PICK o : o = async_connect(c)
  OBVIOUS
<1>2. o \in SessionOp(c) /\ o.op = "connect" /\ o \in ops
  BY <1>1, SessionOpIs DEF ConnectCompletes, Completed
<1>3. phase[c] = "none" /\ UpToDate(c)
  BY <1>2, StageOfOp DEF Stage
<1>4. 0 \in 0..BUFFER
  BY ProxyAssumption
<1>5. CASE Completed(o, c, "error", 0) /\ UNCHANGED phase
  <2>1. \A h \in SessionHandler(c) :
            h.op = o.op /\ h.ec = "error" /\ h.length = 0 => Stage(h, c)
    BY <1>2, <1>3 DEF Stage
  <2>2. QED
    BY <1>2, <1>4, <1>5, <2>1, CompletedSame DEF ConnectCompletes
<1>6. CASE Completed(o, c, "ok", 0) /\ phase' = [phase EXCEPT ![c] = "open"]
  <2> USE DEF ProxyInv, DataInv
  <2>1. UNCHANGED <<bufVars, peerVars, faults, waiting>>
    BY <1>6 DEF Completed, ConnectCompletes
  <2>2. BufType' /\ PeerType'
    BY <1>6, <2>1 DEF BufType, PeerType, bufVars, peerVars
  <2>3. phase'[c] = "open" /\ \A d \in Client \ {c} : phase'[d] = phase[d]
    BY <1>6 DEF PeerType
  <2>4. \A d \in Client \ {c} : Frame(d)
    BY <2>1, <2>3 DEF Frame, bufVars, peerVars
  <2>5. InOrder'
    BY <2>1, <2>3 DEF InOrder, Ordered, UpToDate, bufVars, peerVars
  <2>6. UpToDate(c)'
    BY <1>3, <2>1 DEF UpToDate, bufVars
  <2>7. \A h \in SessionHandler(c) :
            h.op = o.op /\ h.ec = "ok" /\ h.length = 0 => Stage(h, c)'
    BY <1>2, <2>3, <2>6 DEF Stage
  <2>8. ChainInv' /\ Stages'
    BY <1>2, <1>4, <1>6, <2>1, <2>4, <2>7, CompletedData
  <2>9. QED
    BY <2>2, <2>5, <2>8
<1>7. QED
  BY <1>1, <1>5, <1>6 DEF ConnectCompletes

LEMMA WriteClientCompletesInv ==
    ASSUME ProxyInv, NEW c \in Client, WriteClientCompletes(c)
    PROVE  ProxyInv'
<1>1. PICK o \in ops : /\ o.op = "write_client" /\ o.s = c
                       /\ \/ written[c] = o.length /\ Completed(o, c, "ok", o.length)
                          \/ c \in gone /\ Completed(o, c, "error", written[c])
  BY DEF WriteClientCompletes
<1>2. o \in SessionOp(c)
  BY <1>1, OpFields DEF ProxyInv, ChainInv, OpsType
<1>3. /\ phase[c] = "open" /\ Buffered(c, o.length, written[c])
      /\ o.length \in 0..BUFFER /\ written[c] \in 0..BUFFER
  BY <1>1, <1>2, StageOfOp DEF Stage, ProxyInv, DataInv, BufType
<1>4. PICK ec \in {"ok", "error"}, n \in 0..BUFFER :
          /\ Completed(o, c, ec, n)
          /\ ec = "ok" => written[c] = o.length
          /\ ec = "error" => c \in gone
  BY <1>1, <1>3
<1>5. ec = "ok" => UpToDate(c)
  <2>1. Len(relayed[c]) \in Nat /\ taken[c] \in Nat
    BY LenProperties DEF ProxyInv, DataInv, BufType
  <2>2. QED
    BY <1>3, <1>4, <2>1 DEF Buffered, UpToDate
<1>6. \A h \in SessionHandler(c) :
          h.op = o.op /\ h.ec = ec /\ h.length = n => Stage(h, c)
  BY <1>1, <1>3, <1>4, <1>5 DEF Stage
<1>7. QED
  BY <1>2, <1>4, <1>6, CompletedSame DEF WriteClientCompletes

(* Bytes are read to the start of the buffer; all that was read before has *)
(* been written.                                                           *)
LEMMA ReadServerCompletesInv ==
    ASSUME ProxyInv, NEW c \in Client, ReadServerCompletes(c)
    PROVE  ProxyInv'
<1>1. PICK o : o = read_from_server(c)
  OBVIOUS
<1>2. o \in SessionOp(c) /\ o.op = "read_server" /\ o \in ops
  BY <1>1, SessionOpIs DEF ReadServerCompletes, Completed
<1>3. phase[c] = "open" /\ UpToDate(c)
  BY <1>2, StageOfOp DEF Stage
<1>4. 0 \in 0..BUFFER
  BY ProxyAssumption
<1>5. ASSUME NEW ec \in {"eof", "error"}, Completed(o, c, ec, 0),
             UNCHANGED <<server_buffer_, taken>>,
             ec = "eof" => c \in fin /\ taken[c] = sent[c], ec = "error" => c \in cut
      PROVE  ProxyInv'
  <2>1. \A h \in SessionHandler(c) :
            h.op = o.op /\ h.ec = ec /\ h.length = 0 => Stage(h, c)
    BY <1>2, <1>3, <1>5 DEF Stage
  <2>2. UNCHANGED <<waiting, faults, bufVars, phase>>
    BY <1>5 DEF ReadServerCompletes, bufVars
  <2>3. QED
    BY <1>2, <1>4, <1>5, <2>1, <2>2, CompletedSame
<1>6. ASSUME NEW n \in 1..BUFFER, taken[c] + n <= sent[c],
             server_buffer_' = [server_buffer_ EXCEPT ![c] =
                 [k \in 1..BUFFER |-> IF k <= n THEN taken[c] + k ELSE @[k]]],
             taken' = [taken EXCEPT ![c] = @ + n], Completed(o, c, "ok", n)
      PROVE  ProxyInv'
  <2> USE DEF ProxyInv, DataInv
  <2>1. UNCHANGED <<peerVars, faults, waiting, written, relayed, phase>>
    BY <1>6 DEF Completed, ReadServerCompletes
  <2>2. /\ taken[c] \in Nat /\ sent[c] \in Nat /\ n \in Nat /\ n > 0
        /\ server_buffer_[c] \in [1..BUFFER -> Nat] /\ Len(relayed[c]) \in Nat
        /\ n \in 0..BUFFER
    BY <1>6, ProxyAssumption, LenProperties DEF BufType, PeerType
  <2>3. /\ taken'[c] = taken[c] + n
        /\ \A k \in 1..BUFFER : k <= n => server_buffer_'[c][k] = taken[c] + k
        /\ \A d \in Client \ {c} : taken'[d] = taken[d]
                                   /\ server_buffer_'[d] = server_buffer_[d]
    BY <1>6 DEF BufType
  <2>4. [k \in 1..BUFFER |-> IF k <= n THEN taken[c] + k ELSE server_buffer_[c][k]]
            \in [1..BUFFER -> Nat]
    <3>1. \A k \in 1..BUFFER :
              (IF k <= n THEN taken[c] + k ELSE server_buffer_[c][k]) \in Nat
      BY <2>2, ProxyAssumption
    <3>2. QED
      BY <3>1
  <2>5. BufType'
    BY <1>6, <2>1, <2>2, <2>4 DEF BufType
  <2>6. PeerType'
    BY <2>1 DEF PeerType, peerVars
  <2>7. \A d \in Client \ {c} : Frame(d)
    BY <2>1, <2>3 DEF Frame, peerVars
  <2>8. InOrder'
    <3>1. ASSUME NEW d \in Client \ {c}
          PROVE  Ordered(d)'
      BY <2>1, <2>3 DEF InOrder, Ordered, UpToDate, peerVars
    <3>2. /\ Ordered(c) /\ phase'[c] = phase[c] /\ phase[c] # "none"
          /\ relayed' = relayed /\ sent' = sent
      BY <1>3, <2>1 DEF InOrder, peerVars
    <3>3. taken'[c] <= sent[c] /\ Len(relayed[c]) <= taken'[c]
      BY <1>6, <2>2, <2>3, <3>2 DEF Ordered
    <3>4. Ordered(c)'
      BY <3>2, <3>3 DEF Ordered
    <3>5. QED
      BY <3>1, <3>4 DEF InOrder
  <2>9. Buffered(c, n, 0)'
    <3>1. 0 <= n /\ Len(relayed'[c]) + (n - 0) = taken'[c]
      BY <1>3, <2>1, <2>2, <2>3 DEF UpToDate
    <3>2. \A k \in 1..n : k \in 1..BUFFER /\ k <= n /\ k \in Nat
      BY <1>6, ProxyAssumption
    <3>3. ASSUME NEW k \in 1..n
          PROVE  server_buffer_'[c][k] + n = taken'[c] + k
      <4>1. server_buffer_'[c][k] = taken[c] + k
        BY <2>3, <3>2
      <4>2. QED
        BY <2>2, <2>3, <3>2, <4>1
    <3>4. QED
      BY <3>1, <3>3 DEF Buffered
  <2>10. \A h \in SessionHandler(c) :
             h.op = o.op /\ h.ec = "ok" /\ h.length = n => Stage(h, c)'
    BY <1>2, <1>3, <2>1, <2>2, <2>9 DEF Stage
  <2>11. ChainInv' /\ Stages'
    BY <1>2, <1>6, <2>1, <2>2, <2>7, <2>10, CompletedData
  <2>12. QED
    BY <2>5, <2>6, <2>8, <2>11
<1>7. QED
  BY <1>1, <1>5, <1>6 DEF ReadServerCompletes

LEMMA NextByte ==
    ASSUME NEW l \in Nat, NEW n \in Nat, NEW w \in Nat, NEW t \in Nat, NEW b \in Nat,
           l + (n - w) = t, b + n = t + (w + 1)
    PROVE  b = l + 1
OBVIOUS

(* The next byte goes out, while the operation goes on.                    *)
LEMMA WriteSomeInv ==
    ASSUME ProxyInv, NEW c \in Client, WriteSome(c)
    PROVE  /\ ProxyInv' /\ phase[c] = "open"
           /\ relayed'[c] = [k \in 1..(Len(relayed[c]) + 1) |-> k]
           /\ Len(relayed[c]) + 1 <= sent[c]
<1> USE DEF ProxyInv, DataInv
<1>1. PICK o \in ops :
          /\ o.op = "write_client" /\ o.s = c /\ written[c] < o.length
          /\ relayed' = [relayed EXCEPT ![c] = Append(@, server_buffer_[c][written[c] + 1])]
          /\ written' = [written EXCEPT ![c] = @ + 1]
          /\ UNCHANGED <<runVars, waiting, server_buffer_, taken, peerVars, phase>>
  BY DEF WriteSome
<1>2. o \in SessionOp(c)
  BY <1>1, OpFields DEF ChainInv, OpsType
<1>3. /\ phase[c] = "open" /\ Buffered(c, o.length, written[c]) /\ o.ec = "pending"
      /\ o.length \in 0..BUFFER /\ written[c] \in 0..BUFFER
  BY <1>1, <1>2, StageOfOp DEF Stage, BufType
<1>4. PICK w, n, b : w = written[c] /\ n = o.length /\ b = server_buffer_[c][w + 1]
  OBVIOUS
<1>5. /\ w \in Nat /\ n \in Nat /\ w < n /\ n <= BUFFER /\ w + 1 \in 1..n
      /\ w + 1 \in 0..BUFFER /\ w + 1 \in 1..BUFFER /\ BUFFER \in Nat
  BY <1>1, <1>3, <1>4, ProxyAssumption
<1>6. /\ relayed[c] \in Seq(Nat) /\ Len(relayed[c]) \in Nat /\ taken[c] \in Nat
      /\ b \in Nat /\ sent[c] \in Nat
  BY <1>4, <1>5, LenProperties DEF BufType, PeerType
<1>7. Len(relayed[c]) + (n - w) = taken[c] /\ b + n = taken[c] + (w + 1)
  BY <1>3, <1>4, <1>5 DEF Buffered
<1>8. b = Len(relayed[c]) + 1
  <2> HIDE DEF ProxyInv, DataInv
  <2>1. PICK l, t \in Nat : l = Len(relayed[c]) /\ t = taken[c]
    BY <1>6
  <2>2. l + (n - w) = t /\ b + n = t + (w + 1)
    BY <1>7, <2>1
  <2>3. b = l + 1
    BY <1>5, <1>6, <2>2, NextByte
  <2>4. QED
    BY <2>1, <2>3
<1>9. relayed'[c] = Append(relayed[c], b) /\ written'[c] = w + 1
  BY <1>1, <1>4 DEF BufType
<1>10. /\ relayed'[c] \in Seq(Nat) /\ Len(relayed'[c]) = Len(relayed[c]) + 1
       /\ relayed'[c][Len(relayed[c]) + 1] = b
       /\ \A k \in 1..Len(relayed[c]) : relayed'[c][k] = relayed[c][k]
  BY <1>6, <1>9, AppendProperties
<1>11. \A d \in Client \ {c} : relayed'[d] = relayed[d] /\ written'[d] = written[d]
  BY <1>1 DEF BufType
<1>12. ChainInv'
  BY <1>1, QuietChain DEF runVars, ChainInv, RunType
<1>13. BufType' /\ PeerType'
  <2>1. written' \in [Client -> 0..BUFFER] /\ relayed' \in [Client -> Seq(Nat)]
    BY <1>1, <1>4, <1>5, <1>9, <1>10 DEF BufType
  <2>2. QED
    BY <1>1, <2>1 DEF BufType, PeerType, peerVars
<1>14. \A d \in Client \ {c} : Frame(d)
  BY <1>1, <1>11 DEF Frame, peerVars
<1>15. \A k \in 1..(Len(relayed[c]) + 1) : relayed'[c][k] = k
  <2>1. \A k \in 1..Len(relayed[c]) : relayed[c][k] = k
    BY DEF InOrder, Ordered
  <2>2. \A k \in 1..(Len(relayed[c]) + 1) :
            k \in 1..Len(relayed[c]) \/ k = Len(relayed[c]) + 1
    BY <1>6
  <2>3. QED
    BY <1>8, <1>10, <2>1, <2>2
<1>16. Len(relayed[c]) + 1 <= taken[c] /\ taken[c] <= sent[c]
  <2>1. taken[c] <= sent[c]
    BY DEF InOrder, Ordered
  <2>2. QED
    BY <1>5, <1>6, <1>7, <2>1
<1>17. InOrder'
  <2>1. ASSUME NEW d \in Client \ {c}
        PROVE  Ordered(d)'
    BY <1>1, <1>11 DEF InOrder, Ordered, UpToDate, peerVars
  <2>2. Ordered(c)'
    BY <1>1, <1>3, <1>10, <1>15, <1>16 DEF Ordered, peerVars
  <2>3. QED
    BY <2>1, <2>2 DEF InOrder
<1>18. Buffered(c, n, w + 1)'
  <2>1. w + 1 <= n /\ Len(relayed'[c]) + (n - (w + 1)) = taken'[c]
    BY <1>1, <1>5, <1>6, <1>7, <1>10
  <2>2. \A k \in 1..n : server_buffer_'[c][k] + n = taken'[c] + k
    BY <1>1, <1>3, <1>4 DEF Buffered
  <2>3. QED
    BY <2>1, <2>2 DEF Buffered
<1>19. Stage(o, c)'
  <2>1. Buffered(c, o.length, written[c])'
    BY <1>4, <1>9, <1>18 DEF Buffered
  <2>2. QED
    BY <1>1, <1>3, <2>1 DEF Stage
<1>20. Stages'
  <2>1. \A p \in ops' : p.s \in Client => Stage(p, p.s)' \/ (p \in ops /\ Frame(p.s))
    <3>1. \A p \in ops : p.s = c => p = o
      BY <1>1 DEF ChainInv, OneOp
    <3>2. ops' = ops
      BY <1>1 DEF runVars
    <3>3. QED
      BY <1>1, <1>14, <1>19, <3>1, <3>2
  <2>2. ASSUME NEW k \in Index', handlers'[k].op # "accept"
        PROVE  \E g : /\ g = handlers'[k]
                      /\ Stage(g, g.s)' \/ (Frame(g.s) /\ \E l \in Index : g = handlers[l])
    <3>1. k \in Index /\ handlers'[k] = handlers[k]
      BY <1>1 DEF runVars, Index
    <3>2. handlers[k].s \in Client /\ handlers[k].s # c
      BY <1>1, <2>2, <3>1, HandlerCases DEF ChainInv, NotBoth, IsFor
    <3>3. QED
      BY <1>14, <3>1, <3>2
  <2>3. resolving' \in Client => resolving' = resolving /\ Frame(resolving')
    <3>1. resolving' = None
      BY <1>1 DEF runVars, WriteSome, Ready
    <3>2. QED
      BY <3>1, ProxyAssumption
  <2>4. QED
    BY <2>1, <2>2, <2>3, StagesStep
<1>21. relayed'[c] = [k \in 1..(Len(relayed[c]) + 1) |-> k]
  <2>1. relayed'[c] \in [1..(Len(relayed[c]) + 1) -> Nat]
    BY <1>10, LenProperties
  <2>2. QED
    BY <1>15, <2>1
<1>22. Len(relayed[c]) + 1 <= sent[c]
  BY <1>6, <1>16
<1>23. QED
  BY <1>3, <1>12, <1>13, <1>17, <1>20, <1>21, <1>22

(* The handler that runs is that of a session, at its stage.               *)
LEMMA HeadStage ==
    ASSUME ProxyInv, NEW op \in SessionOps, NEW EC, Run(op, EC)
    PROVE  \E c \in Client :
               /\ c = Session /\ Head(handlers) \in SessionHandler(c)
               /\ Stage(Head(handlers), c)
               /\ Head(handlers).op = op /\ Head(handlers).ec \in EC
               /\ Ready /\ handlers # <<>> /\ handlers' = Tail(handlers)
<1> USE DEF ProxyInv, ChainInv, DataInv
<1>1. /\ Ready /\ handlers # <<>> /\ handlers' = Tail(handlers)
      /\ Head(handlers).op = op /\ Head(handlers).ec \in EC
  BY DEF Run
<1>2. 1 \in Index /\ Head(handlers) = handlers[1]
  BY <1>1, TailFacts
<1>3. op # "accept"
  BY DEF SessionOps
<1>4. PICK c \in Client : c = handlers[1].s /\ handlers[1] \in SessionHandler(c)
  BY <1>1, <1>2, <1>3, HandlerCases
<1>5. Stage(handlers[1], c)
  BY <1>1, <1>2, <1>3, <1>4 DEF Stages, IsFor
<1>6. QED
  BY <1>1, <1>2, <1>4, <1>5 DEF Session

(* A handler runs, and no byte moves.                                      *)
LEMMA RunSame ==
    ASSUME ProxyInv, Ready, NEW c \in Client, handlers # <<>>,
           Head(handlers) \in SessionHandler(c), handlers' = Tail(handlers),
           NEW p \in SessionOp(c), Start({p}), UNCHANGED <<bufVars, phase>>, Stage(p, c)
    PROVE  ProxyInv'
<1> USE DEF ProxyInv
<1>1. BufType' /\ PeerType' /\ InOrder' /\ \A d : Frame(d)
  BY SameData DEF Start
<1>2. PICK O \in SUBSET SessionOp(c) : O = {p}
  OBVIOUS
<1>3. Start(O) /\ (\A q \in O : Stage(q, c)') /\ \A q, r \in O : q = r
  BY <1>1, <1>2, StageFrame
<1>4. ChainInv' /\ Stages'
  BY <1>1, <1>3, RunData DEF DataInv
<1>5. QED
  BY <1>1, <1>4 DEF DataInv

LEMMA HandleConnectInv ==
    ASSUME ProxyInv, HandleConnect
    PROVE  ProxyInv'
<1>1. Run("connect", {"ok"}) /\ "connect" \in SessionOps
  BY DEF HandleConnect, SessionOps
<1>2. PICK c \in Client :
          /\ c = Session /\ Head(handlers) \in SessionHandler(c)
          /\ Stage(Head(handlers), c)
          /\ Head(handlers).op = "connect" /\ Head(handlers).ec \in {"ok"}
          /\ Ready /\ handlers # <<>> /\ handlers' = Tail(handlers)
  BY <1>1, HeadStage
<1>3. PICK p : p = write_to_server(c)
  OBVIOUS
<1>4. p \in SessionOp(c) /\ p.op = "write_server" /\ p.ec = "pending"
  BY <1>3, SessionOpIs, OpFields
<1>5. Stage(p, c)
  BY <1>2, <1>4 DEF Stage
<1>6. Start({p}) /\ UNCHANGED <<bufVars, phase>>
  BY <1>2, <1>3 DEF HandleConnect
<1>7. QED
  BY <1>2, <1>4, <1>5, <1>6, RunSame

LEMMA HandleWriteServerInv ==
    ASSUME ProxyInv, HandleWriteServer
    PROVE  ProxyInv'
<1>1. Run("write_server", {"ok"}) /\ "write_server" \in SessionOps
  BY DEF HandleWriteServer, SessionOps
<1>2. PICK c \in Client :
          /\ c = Session /\ Head(handlers) \in SessionHandler(c)
          /\ Stage(Head(handlers), c)
          /\ Head(handlers).op = "write_server" /\ Head(handlers).ec \in {"ok"}
          /\ Ready /\ handlers # <<>> /\ handlers' = Tail(handlers)
  BY <1>1, HeadStage
<1>3. PICK p : p = read_from_server(c)
  OBVIOUS
<1>4. p \in SessionOp(c) /\ p.op = "read_server" /\ p.ec = "pending"
  BY <1>3, SessionOpIs, OpFields
<1>5. Stage(p, c)
  BY <1>2, <1>4 DEF Stage
<1>6. Start({p}) /\ UNCHANGED <<bufVars, phase>>
  BY <1>2, <1>3 DEF HandleWriteServer
<1>7. QED
  BY <1>2, <1>4, <1>5, <1>6, RunSame

LEMMA HandleWriteClientInv ==
    ASSUME ProxyInv, HandleWriteClient
    PROVE  ProxyInv'
<1>1. Run("write_client", {"ok"}) /\ "write_client" \in SessionOps
  BY DEF HandleWriteClient, SessionOps
<1>2. PICK c \in Client :
          /\ c = Session /\ Head(handlers) \in SessionHandler(c)
          /\ Stage(Head(handlers), c)
          /\ Head(handlers).op = "write_client" /\ Head(handlers).ec \in {"ok"}
          /\ Ready /\ handlers # <<>> /\ handlers' = Tail(handlers)
  BY <1>1, HeadStage
<1>3. PICK p : p = read_from_server(c)
  OBVIOUS
<1>4. p \in SessionOp(c) /\ p.op = "read_server" /\ p.ec = "pending"
  BY <1>3, SessionOpIs, OpFields
<1>5. Stage(p, c)
  BY <1>2, <1>4 DEF Stage
<1>6. Start({p}) /\ UNCHANGED <<bufVars, phase>>
  BY <1>2, <1>3 DEF HandleWriteClient
<1>7. QED
  BY <1>2, <1>4, <1>5, <1>6, RunSame

(* The bytes that were read are to be written, from the first one.         *)
LEMMA HandleReadServerInv ==
    ASSUME ProxyInv, HandleReadServer
    PROVE  ProxyInv'
<1> USE DEF ProxyInv, DataInv
<1>1. Run("read_server", {"ok"}) /\ "read_server" \in SessionOps
  BY DEF HandleReadServer, SessionOps
<1>2. PICK c \in Client :
          /\ c = Session /\ Head(handlers) \in SessionHandler(c)
          /\ Stage(Head(handlers), c)
          /\ Head(handlers).op = "read_server" /\ Head(handlers).ec \in {"ok"}
          /\ Ready /\ handlers # <<>> /\ handlers' = Tail(handlers)
  BY <1>1, HeadStage
<1>3. PICK n : n = Head(handlers).length
  OBVIOUS
<1>4. n \in 0..BUFFER /\ phase[c] = "open" /\ Buffered(c, n, 0)
  BY <1>2, <1>3, HandlerFields DEF Stage
<1>5. PICK p : p = write_to_client(c, n)
  OBVIOUS
<1>6. p \in SessionOp(c) /\ p.op = "write_client" /\ p.ec = "pending" /\ p.length = n
  BY <1>4, <1>5, SessionOpIs, OpFields
<1>7. /\ Start({p}) /\ written' = [written EXCEPT ![c] = 0]
      /\ UNCHANGED <<server_buffer_, taken, relayed, phase, peerVars>>
  BY <1>2, <1>3, <1>5 DEF HandleReadServer, Start
<1>8. written'[c] = 0 /\ \A d \in Client \ {c} : written'[d] = written[d]
  BY <1>7 DEF BufType
<1>9. \A d \in Client \ {c} : Frame(d)
  BY <1>7, <1>8 DEF Frame, peerVars
<1>10. BufType' /\ PeerType'
  <2>1. 0 \in 0..BUFFER
    BY ProxyAssumption
  <2>2. written' \in [Client -> 0..BUFFER]
    BY <1>7, <2>1 DEF BufType
  <2>3. BufType'
    BY <1>7, <2>2 DEF BufType
  <2>4. PeerType'
    BY <1>7 DEF PeerType, peerVars
  <2>5. QED
    BY <2>3, <2>4
<1>11. InOrder'
  BY <1>7 DEF InOrder, Ordered, UpToDate, peerVars
<1>12. Buffered(c, n, written[c])'
  BY <1>4, <1>7, <1>8 DEF Buffered
<1>13. Stage(p, c)'
  <2>1. phase'[c] = "open" /\ Buffered(c, p.length, written[c])'
    BY <1>4, <1>6, <1>7, <1>12
  <2>2. QED
    BY <1>6, <2>1 DEF Stage
<1>14. PICK O \in SUBSET SessionOp(c) : O = {p}
  BY <1>6
<1>15. Start(O) /\ (\A q \in O : Stage(q, c)') /\ \A q, r \in O : q = r
  BY <1>7, <1>13, <1>14
<1>16. ChainInv' /\ Stages'
  BY <1>2, <1>9, <1>15, RunData
<1>17. QED
  BY <1>10, <1>11, <1>16

(* What a handler that gets an error knows of the stream that it gives up. *)
LEMMA HandleErrorInv ==
    ASSUME ProxyInv, HandleError
    PROVE  /\ ProxyInv'
           /\ \E c \in Client :
                  \/ phase' = phase
                  \/ /\ phase[c] = "open" /\ phase' = [phase EXCEPT ![c] = "done"]
                     /\ c \in fin /\ Len(relayed[c]) = sent[c]
                  \/ /\ phase[c] = "open" /\ phase' = [phase EXCEPT ![c] = "broken"]
                     /\ c \in cut \cup gone
<1> USE DEF ProxyInv, DataInv
<1>1. PICK op \in SessionOps : Run(op, {"error", "eof"})
  BY DEF HandleError
<1>2. PICK c \in Client :
          /\ c = Session /\ Head(handlers) \in SessionHandler(c)
          /\ Stage(Head(handlers), c)
          /\ Head(handlers).op = op /\ Head(handlers).ec \in {"error", "eof"}
          /\ Ready /\ handlers # <<>> /\ handlers' = Tail(handlers)
  BY <1>1, HeadStage
<1>3. /\ Start({}) /\ UNCHANGED <<bufVars, peerVars>>
      /\ phase' = [phase EXCEPT ![c] = IF phase[c] # "open" THEN phase[c]
             ELSE IF Head(handlers).ec = "eof" THEN "done" ELSE "broken"]
  BY <1>2 DEF HandleError, Start
<1>4. PeerType' /\ BufType'
  BY <1>3 DEF PeerType, BufType, peerVars, bufVars
<1>5. \A d \in Client \ {c} : phase'[d] = phase[d]
  BY <1>3 DEF PeerType
<1>6. \A d \in Client \ {c} : Frame(d)
  BY <1>3, <1>5 DEF Frame, peerVars, bufVars
<1>7. phase'[c] = "none" => phase[c] = "none"
  BY <1>3 DEF PeerType
<1>8. InOrder'
  <2>1. \A d \in Client : phase'[d] = "none" => phase[d] = "none"
    BY <1>5, <1>7
  <2>2. QED
    BY <1>3, <2>1 DEF InOrder, Ordered, UpToDate, bufVars, peerVars
<1>9. PICK O \in SUBSET SessionOp(c) : O = {}
  OBVIOUS
<1>10. ChainInv' /\ Stages'
  BY <1>2, <1>3, <1>6, <1>9, RunData
<1>11. CASE phase[c] # "open"
  <2>1. phase' = phase
    BY <1>3, <1>11 DEF PeerType
  <2>2. QED
    BY <1>4, <1>8, <1>10, <2>1
<1>12. CASE phase[c] = "open" /\ Head(handlers).ec = "eof"
  <2>1. c \in fin /\ Len(relayed[c]) = sent[c]
    BY <1>2, <1>12 DEF Stage, UpToDate
  <2>2. phase' = [phase EXCEPT ![c] = "done"]
    BY <1>3, <1>12
  <2>3. QED
    BY <1>4, <1>8, <1>10, <1>12, <2>1, <2>2
<1>13. CASE phase[c] = "open" /\ Head(handlers).ec = "error"
  <2>1. c \in cut \cup gone
    BY <1>2, <1>13 DEF Stage, SessionOps
  <2>2. phase' = [phase EXCEPT ![c] = "broken"]
    BY <1>3, <1>13
  <2>3. QED
    BY <1>4, <1>8, <1>10, <1>13, <2>1, <2>2
<1>14. QED
  BY <1>2, <1>11, <1>12, <1>13

(* The other steps of the thread, and those of the peers.                  *)

LEMMA InitInv == Init => ProxyInv
<1> SUFFICES ASSUME Init PROVE ProxyInv
  OBVIOUS
<1> USE DEF Init
<1>1. HandlersType /\ Index = {}
  BY EmptySeq DEF HandlersType, Index
<1>2. waiting \in Seq(Client) /\ Len(waiting) = 0 /\ 1..Len(waiting) = {}
  BY EmptySeq
<1>3. RunType
  BY <1>2, ProxyAssumption DEF RunType
<1>4. OpsType /\ OneOp /\ OneHandler /\ NotBoth /\ Alone /\ OneAccept /\ Newcomers /\ Begin
  BY <1>1, <1>2 DEF OpsType, OneOp, OneHandler, NotBoth, Alone, OneAccept, Newcomers, Begin
<1>5. AliveIs
  BY <1>1, ProxyAssumption DEF AliveIs
<1>6. \A c \in Client : relayed[c] = <<>> /\ Len(relayed[c]) = 0 /\ 1..Len(relayed[c]) = {}
  BY EmptySeq
<1>7. BufType /\ PeerType
  <2>1. relayed \in [Client -> Seq(Nat)] /\ written \in [Client -> 0..BUFFER]
    BY EmptySeq, ProxyAssumption
  <2>2. server_buffer_ \in [Client -> [1..BUFFER -> Nat]]
    OBVIOUS
  <2>3. QED
    BY <2>1, <2>2 DEF BufType, PeerType
<1>8. InOrder
  BY <1>6 DEF InOrder, Ordered, UpToDate
<1>9. Stages
  BY <1>1, ProxyAssumption DEF Stages
<1>10. QED
  BY <1>1, <1>3, <1>4, <1>5, <1>7, <1>8, <1>9 DEF ProxyInv, ChainInv, DataInv

LEMMA EndInv ==
    ASSUME ProxyInv, End
    PROVE  ProxyInv'
<1> USE DEF ProxyInv, DataInv
<1>1. ChainInv'
  BY EndChain
<1>2. /\ ops' = {} /\ handlers' = <<>> /\ resolving' = None
      /\ UNCHANGED <<bufVars, peerVars>>
      /\ phase' = [c \in Client |-> IF phase[c] = "open" THEN "stopped" ELSE phase[c]]
  BY DEF End
<1>3. Stages'
  <2>1. Index' = {}
    BY <1>2, EmptyQueue
  <2>2. QED
    BY <1>2, <2>1, ProxyAssumption DEF Stages
<1>4. BufType' /\ PeerType'
  BY <1>2 DEF BufType, PeerType, bufVars, peerVars
<1>5. \A c \in Client : phase'[c] = "none" => phase[c] = "none"
  BY <1>2
<1>6. InOrder'
  BY <1>2, <1>5 DEF InOrder, Ordered, UpToDate, bufVars, peerVars
<1>7. QED
  BY <1>1, <1>3, <1>4, <1>6

LEMMA ConstructInv ==
    ASSUME ProxyInv, Construct
    PROVE  ProxyInv'
<1> USE DEF ProxyInv
<1>1. CASE End
  BY <1>1, EndInv
<1>2. CASE /\ main' = "run" /\ ops' = {accept}
           /\ UNCHANGED <<faults, handlers, resolving, alive, waiting, bufVars,
                          peerVars, phase>>
  <2>1. ChainInv' /\ main = "construct"
    BY <1>2, ConstructChain DEF Construct
  <2>2. BufType' /\ PeerType' /\ InOrder'
    BY <1>2, SameData
  <2>3. handlers' = <<>> /\ resolving' = None
    BY <1>2, <2>1 DEF ChainInv, Begin
  <2>4. Stages'
    BY <1>2, <2>3, EmptyQueue, OpFields, ProxyAssumption DEF Stages
  <2>5. QED
    BY <2>1, <2>2, <2>4 DEF DataInv
<1>3. QED
  BY <1>1, <1>2 DEF Construct

LEMMA AcceptCompletesInv ==
    ASSUME ProxyInv, AcceptCompletes
    PROVE  ProxyInv'
<1> USE DEF ProxyInv, DataInv
<1>1. /\ ChainInv'
      /\ ops' \subseteq ops /\ resolving' = resolving
      /\ \A k \in Index' : \/ handlers'[k].op = "accept"
                           \/ k \in Index /\ handlers'[k] = handlers[k]
  BY AcceptedChain
<1>2. BufType' /\ PeerType' /\ InOrder' /\ \A d : Frame(d)
  BY SameData DEF AcceptCompletes, Completed
<1>3. Stages'
  <2>1. \A k \in Index' : handlers'[k].op # "accept" =>
            \E h : h = handlers'[k] /\ (Frame(h.s) /\ \E l \in Index : h = handlers[l])
    BY <1>1, <1>2
  <2>2. QED
    BY <1>1, <1>2, <2>1, StagesStep
<1>4. QED
  BY <1>1, <1>2, <1>3

LEMMA HandleAcceptInv ==
    ASSUME ProxyInv, HandleAccept
    PROVE  ProxyInv'
<1> USE DEF ProxyInv, DataInv
<1>1. /\ ChainInv'
      /\ \A p \in ops' : \/ p \in ops \/ p = accept
                         \/ \E c \in Client : /\ p = read_from_client(c)
                                              /\ phase[c] = "none"
      /\ resolving' = resolving
      /\ \A k \in Index' : \E l \in Index : handlers'[k] = handlers[l]
  BY HandleAcceptChain
<1>2. BufType' /\ PeerType' /\ InOrder' /\ \A d : Frame(d)
  BY SameData DEF HandleAccept
<1>3. ASSUME NEW p \in ops', p.s \in Client
      PROVE  Stage(p, p.s)' \/ (p \in ops /\ Frame(p.s))
  <2>1. CASE p \in ops
    BY <1>2, <2>1
  <2>2. CASE p = accept
    BY <1>3, <2>2, OpFields, ProxyAssumption
  <2>3. ASSUME NEW c \in Client, p = read_from_client(c), phase[c] = "none"
        PROVE  Stage(p, p.s)'
    <3>1. p.s = c /\ p.op = "read_client" /\ p.ec = "pending"
      BY <2>3, SessionOpIs, OpFields
    <3>2. UpToDate(c)
      BY <2>3 DEF InOrder, Ordered
    <3>3. Stage(p, c)
      BY <2>3, <3>1, <3>2 DEF Stage
    <3>4. QED
      BY <1>2, <3>1, <3>3, StageFrame
  <2>4. QED
    BY <1>1, <2>1, <2>2, <2>3
<1>4. Stages'
  <2>1. \A k \in Index' : handlers'[k].op # "accept" =>
            \E h : h = handlers'[k] /\ (Frame(h.s) /\ \E l \in Index : h = handlers[l])
    BY <1>1, <1>2
  <2>2. QED
    BY <1>1, <1>2, <1>3, <2>1, StagesStep
<1>5. QED
  BY <1>1, <1>2, <1>4

LEMMA HandleReadClientInv ==
    ASSUME ProxyInv, HandleReadClient
    PROVE  ProxyInv'
<1> USE DEF ProxyInv, DataInv
<1>1. /\ ChainInv' /\ resolving' \in Client /\ 1 \in Index /\ ops' = ops
      /\ IsFor(1, resolving') /\ handlers[1].op = "read_client"
      /\ \A k \in Index' : \E l \in Index : handlers'[k] = handlers[l]
  BY ReadClientChain
<1>2. BufType' /\ PeerType' /\ InOrder' /\ \A d : Frame(d)
  BY SameData DEF HandleReadClient
<1>3. PICK c \in Client : c = resolving'
  BY <1>1
<1>4. phase[c] = "none" /\ UpToDate(c)
  <2>1. Stage(handlers[1], c)
    BY <1>1, <1>3 DEF Stages, IsFor
  <2>2. QED
    BY <1>1, <2>1 DEF Stage
<1>5. phase'[c] = "none" /\ Len(relayed'[c]) = taken'[c]
  BY <1>2, <1>4 DEF Frame, UpToDate
<1>6. \A k \in Index' : handlers'[k].op # "accept" =>
          \E h : h = handlers'[k] /\ (Frame(h.s) /\ \E l \in Index : h = handlers[l])
  BY <1>1, <1>2
<1>7. \A p \in ops' : p \in ops /\ Frame(p.s)
  BY <1>1, <1>2
<1>8. Stages'
  BY <1>3, <1>5, <1>6, <1>7, StagesStep
<1>9. QED
  BY <1>1, <1>2, <1>8

LEMMA connect_to_serverInv ==
    ASSUME ProxyInv, connect_to_server
    PROVE  ProxyInv'
<1> USE DEF ProxyInv, DataInv
<1>1. CASE End
  BY <1>1, EndInv
<1>2. CASE /\ ops' = ops \cup {async_connect(resolving)} /\ resolving' = None
           /\ UNCHANGED <<main, faults, handlers, alive, waiting, bufVars, peerVars, phase>>
  <2>1. PICK c \in Client : c = resolving
    BY DEF connect_to_server, ChainInv, RunType
  <2>2. PICK o : o = async_connect(c)
    OBVIOUS
  <2>3. o \in SessionOp(c) /\ o.op = "connect" /\ o.ec = "pending" /\ o.s = c
    BY <2>2, SessionOpIs, OpFields
  <2>4. ops' = ops \cup {o} /\ main = "run"
    BY <1>2, <2>1, <2>2 DEF connect_to_server
  <2>5. ChainInv'
    BY <1>2, <2>1, <2>3, <2>4, ResolvedChain
  <2>6. BufType' /\ PeerType' /\ InOrder' /\ \A d : Frame(d)
    BY <1>2, SameData
  <2>7. phase[c] = "none" /\ UpToDate(c)
    BY <2>1 DEF Stages
  <2>8. Stage(o, c)
    BY <2>3, <2>7 DEF Stage
  <2>9. \A p \in ops' : Stage(p, p.s)' \/ (p \in ops /\ Frame(p.s))
    BY <2>3, <2>4, <2>6, <2>8, StageFrame
  <2>10. \A k \in Index' : k \in Index /\ handlers'[k] = handlers[k]
    BY <1>2 DEF Index
  <2>11. \A k \in Index' : handlers'[k].op # "accept" =>
             \E h : h = handlers'[k] /\ (Frame(h.s) /\ \E l \in Index : h = handlers[l])
    BY <2>6, <2>10
  <2>12. Stages'
    BY <1>2, <2>9, <2>11, StagesStep, ProxyAssumption
  <2>13. QED
    BY <2>5, <2>6, <2>12
<1>3. QED
  BY <1>1, <1>2 DEF connect_to_server

(* A peer does something, and the proxy does nothing.                      *)
LEMMA PeerStages ==
    ASSUME Stages, UNCHANGED <<ops, handlers, resolving>>, \A d : Frame(d)
    PROVE  Stages'
<1>1. \A k \in Index' : k \in Index /\ handlers'[k] = handlers[k]
  BY DEF Index
<1>2. \A k \in Index' : handlers'[k].op # "accept" =>
          \E h : h = handlers'[k] /\ (Frame(h.s) /\ \E l \in Index : h = handlers[l])
  BY <1>1
<1>3. \A p \in ops' : p \in ops /\ Frame(p.s)
  OBVIOUS
<1>4. QED
  BY <1>2, <1>3, StagesStep

LEMMA PeerInv ==
    ASSUME ProxyInv, NEW c \in Client,
           ClientConnects(c) \/ ClientSends(c) \/ ClientGoes(c) \/ Origin(c)
    PROVE  ProxyInv'
<1> USE DEF ProxyInv, DataInv
<1>1. UNCHANGED <<main, ops, handlers, resolving, alive, bufVars, phase>>
  BY DEF ClientConnects, ClientSends, ClientGoes, Origin, Peer
<1>2. CASE ClientConnects(c)
  <2>1. ChainInv'
    BY <1>2, ConnectsChain
  <2>2. BufType' /\ PeerType' /\ InOrder' /\ \A d : Frame(d)
    BY <1>1, <1>2, SameData DEF ClientConnects
  <2>3. QED
    BY <1>1, <2>1, <2>2, PeerStages
<1>3. CASE ClientSends(c) \/ ClientGoes(c) \/ Origin(c)
  <2>1. ChainInv'
    <3>1. faults' \in 0..MaxFaults
      <4>1. faults' = faults \/ (faults < MaxFaults /\ faults' = faults + 1)
        BY <1>3 DEF ClientSends, ClientGoes, Origin
      <4>2. QED
        BY <4>1, ProxyAssumption DEF ChainInv, RunType
    <3>2. waiting' = waiting
      BY <1>3 DEF ClientSends, ClientGoes, Origin
    <3>3. QED
      BY <1>1, <3>1, <3>2, QuietChain
  <2>2. /\ gone \subseteq gone' /\ gone' \subseteq Client /\ request' \subseteq Client
        /\ fin \subseteq fin' /\ fin' \subseteq Client
        /\ cut \subseteq cut' /\ cut' \subseteq Client
    BY <1>3 DEF ClientSends, ClientGoes, Origin, PeerType
  <2>3. /\ sent' \in [Client -> Nat]
        /\ \A d \in Client : sent[d] <= sent'[d] /\ (d \in fin => sent'[d] = sent[d])
    <3>1. sent' = sent \/ (c \notin fin /\ sent' = [sent EXCEPT ![c] = @ + 1])
      BY <1>3 DEF ClientSends, ClientGoes, Origin
    <3>2. \A d \in Client : sent[d] \in Nat /\ sent[d] <= sent[d]
      BY DEF PeerType
    <3>3. CASE sent' = sent
      BY <3>2, <3>3 DEF PeerType
    <3>4. CASE c \notin fin /\ sent' = [sent EXCEPT ![c] = @ + 1]
      BY <3>2, <3>4 DEF PeerType
    <3>5. QED
      BY <3>1, <3>3, <3>4
  <2>4. \A d : Frame(d)
    BY <1>1, <2>2, <2>3 DEF Frame, bufVars, PeerType
  <2>5. BufType' /\ PeerType'
    BY <1>1, <2>2, <2>3 DEF BufType, PeerType, bufVars
  <2>6. InOrder'
    <3>1. ASSUME NEW d \in Client
          PROVE  taken'[d] <= sent'[d]
      <4>1. taken[d] <= sent[d] /\ sent[d] <= sent'[d] /\ taken'[d] = taken[d]
        BY <1>1, <2>3 DEF InOrder, Ordered, bufVars
      <4>2. taken[d] \in Nat /\ sent[d] \in Nat /\ sent'[d] \in Nat
        BY <2>3 DEF BufType, PeerType
      <4>3. QED
        BY <4>1, <4>2
    <3>2. QED
      BY <1>1, <3>1 DEF InOrder, Ordered, UpToDate, bufVars
  <2>7. QED
    BY <1>1, <2>1, <2>4, <2>5, <2>6, PeerStages
<1>4. QED
  BY <1>2, <1>3

-----------------------------------------------------------------------------
LEMMA NextInv ==
    ASSUME ProxyInv, [Next]_vars
    PROVE  ProxyInv'
<1>1. CASE UNCHANGED vars
  <2>1. BufType' /\ PeerType' /\ InOrder' /\ \A d : Frame(d)
    BY <1>1, SameData DEF ProxyInv, vars
  <2>2. ChainInv'
    BY <1>1, QuietChain DEF ProxyInv, ChainInv, RunType, vars, runVars
  <2>3. Stages'
    BY <1>1, <2>1, PeerStages DEF ProxyInv, DataInv, vars, runVars
  <2>4. QED
    BY <2>1, <2>2, <2>3 DEF ProxyInv, DataInv
<1>2. CASE Handlers
  BY <1>2, HandleAcceptInv, HandleReadClientInv, connect_to_serverInv, HandleConnectInv,
     HandleWriteServerInv, HandleReadServerInv, HandleWriteClientInv, HandleErrorInv
     DEF Handlers
<1>3. ASSUME NEW c \in Client, Completes(c)
      PROVE  ProxyInv'
  BY <1>3, ReadClientCompletesInv, ConnectCompletesInv, WriteServerCompletesInv,
     ReadServerCompletesInv, WriteSomeInv, WriteClientCompletesInv DEF Completes
<1>4. QED
  BY <1>1, <1>2, <1>3, ConstructInv, AcceptCompletesInv, PeerInv DEF Next

LEMMA ProxyAlways == Spec => []ProxyInv
BY InitInv, NextInv, PTL DEF Spec

(* Every behaviour of the proxy is well typed, and every byte that a       *)
(* client gets is one that async_read_some has put in the buffer.          *)
THEOREM TypeCorrect == Spec => []TypeOK
BY ProxyAlways, ProxyInvType, PTL

LEMMA AtMostOne ==
    ASSUME NEW S, \A x, y \in S : x = y
    PROVE  Cardinality(S) = (IF S = {} THEN 0 ELSE 1)
<1>1. CASE S = {}
  BY <1>1, FS_EmptySet
<1>2. CASE S # {}
  <2>1. PICK x \in S : S = {x}
    BY <1>2
  <2>2. QED
    BY <1>2, <2>1, FS_Singleton
<1>3. QED
  BY <1>1, <1>2

LEMMA ChainIsOne == ChainInv => OneStepAtATime
<1> SUFFICES ASSUME ChainInv, NEW c \in Client
             PROVE  Chain(c) = (IF c \in alive THEN 1 ELSE 0)
  BY DEF OneStepAtATime
<1> DEFINE A == {o \in ops : o.s = c}
           B == {k \in 1..Len(handlers) : handlers[k].op # "accept" /\ handlers[k].s = c}
<1> USE DEF ChainInv
<1>1. Cardinality(A) = (IF A = {} THEN 0 ELSE 1)
  BY AtMostOne DEF OneOp
<1>2. Cardinality(B) = (IF B = {} THEN 0 ELSE 1)
  BY AtMostOne DEF OneHandler, Index, IsFor
<1>3. A = {} \/ B = {}
  BY DEF NotBoth, Index, IsFor
<1>4. resolving = c => A = {} /\ B = {}
  BY ProxyAssumption DEF Alone, Index, IsFor
<1>5. c \in alive <=> A # {} \/ B # {} \/ resolving = c
  BY DEF AliveIs, Index, IsFor
<1>6. Chain(c) = Cardinality(A) + Cardinality(B) + (IF resolving = c THEN 1 ELSE 0)
  BY DEF Chain
<1> HIDE DEF A, B
<1>7. QED
  BY <1>1, <1>2, <1>3, <1>4, <1>5, <1>6

(* A session is one chain: while it lives, exactly one operation, queued   *)
(* handler or resolve() is under way for it, and when it is destroyed none *)
(* is, so that no handler of proxy.cpp uses a dangling this.               *)
THEOREM SessionIsChain == Spec => []OneStepAtATime
BY ProxyAlways, ChainIsOne, PTL DEF ProxyInv

-----------------------------------------------------------------------------
(* The answers of the origin server implement ByteStream.                  *)

Up == main # "return"

EndedOf(c) == IF c \in cut \cup gone THEN "cut" ELSE IF c \in fin THEN "fin" ELSE "no"

Ended == [c \in Client |-> EndedOf(c)]

LEMMA UnchangedStream ==
    ASSUME UNCHANGED <<phase, sent, Ended, relayed, Up>>
    PROVE  [Stream!Next]_(Stream!streamVars)
BY DEF Stream!streamVars, Ended, EndedOf, Up

LEMMA EndedSame ==
    ASSUME UNCHANGED <<gone, fin, cut>>
    PROVE  Ended' = Ended
BY DEF Ended, EndedOf

LEMMA StopStep ==
    ASSUME ProxyInv, End
    PROVE  [Stream!Next]_(Stream!streamVars)
<1>1. ~ Up' /\ UNCHANGED <<sent, Ended, relayed>>
  BY EndedSame DEF End, Up, bufVars, peerVars
<1>2. PICK S \in SUBSET Client : S = Client
  OBVIOUS
<1>3. phase' = [c \in Client |->
          IF c \in S /\ phase[c] = "open" THEN "stopped" ELSE phase[c]]
  BY <1>2 DEF End
<1>4. QED
  BY <1>1, <1>3 DEF Stream!Next, Stream!Stop, Ended, EndedOf, Up

LEMMA CompletesStep ==
    ASSUME ProxyInv, NEW c \in Client, Completes(c)
    PROVE  [Stream!Next]_(Stream!streamVars)
<1>1. UNCHANGED <<main, gone, fin, cut, sent>>
  BY DEF Completes, ReadClientCompletes, ConnectCompletes, WriteServerCompletes,
         ReadServerCompletes, WriteSome, WriteClientCompletes, Completed, peerVars, runVars
<1>2. UNCHANGED <<Ended, Up, sent>>
  BY <1>1, EndedSame DEF Up
<1>3. CASE WriteSome(c)
  <2>1. /\ phase[c] = "open" /\ Len(relayed[c]) + 1 <= sent[c]
        /\ relayed'[c] = [k \in 1..(Len(relayed[c]) + 1) |-> k]
    BY <1>3, WriteSomeInv
  <2>2. relayed' = [relayed EXCEPT ![c] = relayed'[c]] /\ phase' = phase
    BY <1>3 DEF WriteSome, ProxyInv, DataInv, BufType
  <2>3. PICK n : n = Len(relayed[c]) + 1
    OBVIOUS
  <2>4. n \in (Len(relayed[c]) + 1)..sent[c]
    BY <2>1, <2>3, LenProperties DEF ProxyInv, DataInv, BufType, PeerType
  <2>5. relayed' = [relayed EXCEPT ![c] = [i \in 1..n |-> i]]
    BY <2>1, <2>2, <2>3
  <2>6. QED
    BY <1>2, <2>1, <2>2, <2>4, <2>5 DEF Stream!Next, Stream!Get, Ended, EndedOf, Up
<1>4. CASE ConnectCompletes(c) /\ phase' = [phase EXCEPT ![c] = "open"]
  <2>1. async_connect(c) \in ops
    BY <1>4 DEF ConnectCompletes, Completed
  <2>2. phase[c] = "none"
    BY <2>1, SessionOpIs, StageOfOp DEF Stage
  <2>3. relayed' = relayed
    BY <1>4 DEF ConnectCompletes, bufVars
  <2>4. QED
    BY <1>2, <1>4, <2>2, <2>3 DEF Stream!Next, Stream!Open, Stream!Move, Ended, EndedOf, Up
<1>5. CASE UNCHANGED <<phase, relayed>>
  BY <1>2, <1>5, UnchangedStream
<1>6. QED
  BY <1>3, <1>4, <1>5 DEF Completes, ReadClientCompletes, ConnectCompletes,
      WriteServerCompletes, ReadServerCompletes, WriteClientCompletes, bufVars

LEMMA HandlersStep ==
    ASSUME ProxyInv, Handlers
    PROVE  [Stream!Next]_(Stream!streamVars)
<1>1. CASE End
  BY <1>1, StopStep
<1>2. CASE HandleError
  <2>1. UNCHANGED <<main, relayed, gone, fin, cut, sent>>
    BY <1>2 DEF HandleError, Start, bufVars, peerVars
  <2>2. UNCHANGED <<Ended, Up, sent, relayed>>
    BY <2>1, EndedSame DEF Up
  <2>3. PICK c \in Client :
            \/ phase' = phase
            \/ /\ phase[c] = "open" /\ phase' = [phase EXCEPT ![c] = "done"]
               /\ c \in fin /\ Len(relayed[c]) = sent[c]
            \/ /\ phase[c] = "open" /\ phase' = [phase EXCEPT ![c] = "broken"]
               /\ c \in cut \cup gone
    BY <1>2, HandleErrorInv
  <2>4. CASE phase' = phase
    BY <2>2, <2>4, UnchangedStream
  <2>5. CASE /\ phase[c] = "open" /\ phase' = [phase EXCEPT ![c] = "done"]
             /\ c \in fin /\ Len(relayed[c]) = sent[c]
    <3>1. EndedOf(c) # "no"
      BY <2>5 DEF EndedOf
    <3>2. QED
      BY <2>2, <2>5, <3>1 DEF Stream!Next, Stream!Done, Stream!Move, Ended, EndedOf, Up
  <2>6. CASE /\ phase[c] = "open" /\ phase' = [phase EXCEPT ![c] = "broken"]
             /\ c \in cut \cup gone
    <3>1. EndedOf(c) = "cut"
      BY <2>6 DEF EndedOf
    <3>2. QED
      BY <2>2, <2>6, <3>1 DEF Stream!Next, Stream!Break, Stream!Move, Ended, EndedOf, Up
  <2>7. QED
    BY <2>3, <2>4, <2>5, <2>6
<1>3. CASE UNCHANGED <<main, phase, relayed, gone, fin, cut, sent>>
  BY <1>3, EndedSame, UnchangedStream DEF Up
<1>4. QED
  BY <1>1, <1>2, <1>3 DEF Handlers, HandleAccept, HandleReadClient, connect_to_server,
      HandleConnect, HandleWriteServer, HandleReadServer, HandleWriteClient, Start,
      bufVars, peerVars

LEMMA PeerStep ==
    ASSUME ProxyInv, NEW c \in Client,
           ClientConnects(c) \/ ClientSends(c) \/ ClientGoes(c) \/ Origin(c)
    PROVE  [Stream!Next]_(Stream!streamVars)
<1>1. UNCHANGED <<main, phase, relayed, Up>>
  BY DEF ClientConnects, ClientSends, ClientGoes, Origin, Peer, bufVars, Up
<1>2. CASE UNCHANGED <<gone, fin, cut, sent>>
  BY <1>1, <1>2, EndedSame, UnchangedStream
<1>3. CASE gone' \cup cut' = gone \cup cut \cup {c} /\ UNCHANGED <<fin, sent>>
  <2>1. CASE c \in cut \cup gone
    <3>1. Ended' = Ended
      BY <1>3, <2>1 DEF Ended, EndedOf
    <3>2. QED
      BY <1>1, <1>3, <3>1, UnchangedStream
  <2>2. CASE c \notin cut \cup gone
    <3>1. EndedOf(c) # "cut" /\ Ended' = [Ended EXCEPT ![c] = "cut"]
      <4>1. \A d \in Client : EndedOf(d)' = (IF d = c THEN "cut" ELSE EndedOf(d))
        BY <1>3 DEF EndedOf
      <4>2. Ended' = [d \in Client |-> EndedOf(d)']
        BY DEF Ended
      <4>3. QED
        BY <2>2, <4>1, <4>2 DEF Ended, EndedOf
    <3>2. QED
      BY <1>1, <1>3, <3>1 DEF Stream!Next, Stream!End, Ended, EndedOf, Up
  <2>3. QED
    BY <2>1, <2>2
<1>4. CASE /\ phase[c] = "open" /\ c \notin fin /\ fin' = fin \cup {c}
           /\ UNCHANGED <<gone, cut, sent>>
  <2>1. CASE c \in cut \cup gone
    <3>1. Ended' = Ended
      BY <1>4, <2>1 DEF Ended, EndedOf
    <3>2. QED
      BY <1>1, <1>4, <3>1, UnchangedStream
  <2>2. CASE c \notin cut \cup gone
    <3>1. EndedOf(c) = "no" /\ Ended' = [Ended EXCEPT ![c] = "fin"]
      BY <1>4, <2>2 DEF Ended, EndedOf
    <3>2. QED
      BY <1>1, <1>4, <3>1 DEF Stream!Next, Stream!End, Ended, EndedOf, Up
  <2>3. QED
    BY <2>1, <2>2
<1>5. CASE /\ phase[c] = "open" /\ c \notin fin /\ sent' = [sent EXCEPT ![c] = @ + 1]
           /\ UNCHANGED <<gone, fin, cut>>
  <2>1. Ended' = Ended /\ EndedOf(c) # "fin"
    BY <1>5, EndedSame DEF EndedOf
  <2>2. sent'[c] > sent[c] /\ sent' = [sent EXCEPT ![c] = sent'[c]]
    BY <1>5 DEF ProxyInv, DataInv, PeerType
  <2>3. QED
    BY <1>1, <1>5, <2>1, <2>2 DEF Stream!Next, Stream!Send, Ended, EndedOf, Up
<1>6. QED
  BY <1>2, <1>3, <1>4, <1>5 DEF ClientConnects, ClientSends, ClientGoes, Origin, peerVars

LEMMA StreamNext ==
    ASSUME ProxyInv, [Next]_vars
    PROVE  [Stream!Next]_(Stream!streamVars)
<1>1. CASE UNCHANGED vars
  BY <1>1, EndedSame, UnchangedStream DEF vars, runVars, bufVars, peerVars, Up
<1>2. CASE Construct
  <2>1. CASE End
    BY <2>1, StopStep
  <2>2. CASE /\ main = "construct" /\ main' = "run"
             /\ UNCHANGED <<bufVars, peerVars, phase>>
    <3>1. Up' = Up
      BY <2>2 DEF Up
    <3>2. QED
      BY <2>2, <3>1, EndedSame, UnchangedStream DEF bufVars, peerVars
  <2>3. QED
    BY <1>2, <2>1, <2>2 DEF Construct
<1>3. CASE AcceptCompletes
  <2>1. UNCHANGED <<main, bufVars, peerVars, phase>>
    BY <1>3 DEF AcceptCompletes, Completed
  <2>2. QED
    BY <2>1, EndedSame, UnchangedStream DEF bufVars, peerVars, Up
<1>4. QED
  BY <1>1, <1>2, <1>3, HandlersStep, CompletesStep, PeerStep DEF Next

(* Through the proxy a client gets the answer of the origin server as      *)
(* ByteStream promises: every byte once and in order, and a session ends   *)
(* only when all of it is written, a connection is broken, or the proxy    *)
(* ends.                                                                   *)
THEOREM ProxyImplementsStreams == Spec => RelaysStreams
<1>1. Init => Stream!Init
  BY DEF Init, Stream!Init
<1>2. QED
  BY <1>1, ProxyAlways, StreamNext, PTL DEF Spec, RelaysStreams, Stream!Spec
=============================================================================
