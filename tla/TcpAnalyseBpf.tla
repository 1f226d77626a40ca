--------------------------- MODULE TcpAnalyseBpf ---------------------------
(***************************************************************************)
(* The kernel half of the client tracer: the three fentry programs of      *)
(* ebpf_for_client/tcp_analyse.bpf.c, the hash map "connect" they share,   *)
(* and the two perf event arrays they write to.                            *)
(*                                                                         *)
(* A context (a task or a softirq on some CPU) that enters a traced kernel *)
(* function runs the program attached to it in several steps: read the     *)
(* clock and the socket, access the map, output the event.  Only then does *)
(* the body of the kernel function run.  Any other context moves between   *)
(* two of these steps; what serialises the programs of one socket is the   *)
(* socket lock that the kernel holds around tcp_v4_connect and             *)
(* tcp_rcv_state_process, not anything in the programs.                    *)
(***************************************************************************)
EXTENDS Integers, Sequences, FiniteSets

CONSTANTS
    Sock,           \* addresses of struct sock, the keys of the map
    Ctx,            \* execution contexts
    CPU,            \* processors: a perf event array has a ring for each
    CpuOf,          \* [Ctx -> CPU]
    Pid,            \* tgids of the processes that own sockets
    MAX_ENTRIES,    \* max_entries of the map "connect" (4096)
    RING_SIZE,      \* records that fit into one perf ring
    NSEC_PER_USEC,  \* 1000U
    U64,            \* 2^64, the range of __u64
    targ_min_us,    \* the filter in read-only data, 0 when there is none
    MaxClock,       \* bound: last value of bpf_ktime_get_ns()
    MaxCalls,       \* bound: traced kernel functions entered
    None

ASSUME BpfAssumption ==
    /\ CpuOf \in [Ctx -> CPU]
    /\ MAX_ENTRIES \in Nat \ {0}
    /\ RING_SIZE \in Nat \ {0}
    /\ NSEC_PER_USEC \in Nat \ {0}
    /\ targ_min_us \in Nat
    /\ MaxClock \in Nat
    /\ MaxCalls \in Nat
    /\ U64 \in Nat /\ MaxClock < U64
    /\ None \notin Nat
    /\ None \notin Ctx

VARIABLES
    clock,      \* bpf_ktime_get_ns()
    skc_state,  \* [Sock -> TCP state], FREE for memory that is no socket
    owner,      \* [Sock -> Pid], the process that created the socket
    lock,       \* [Sock -> the context that holds the socket lock, or None]
    frame,      \* [Ctx -> where the context is in a traced function]
    connect,    \* the map: [Sock -> pd.ts, or None where there is no entry]
    attached,   \* the programs that are attached
    opened,     \* the perf event arrays that user space has opened
    rings,      \* [Maps \X CPU -> Seq of records not yet read]
    overrun,    \* [Maps \X CPU -> samples lost since the last record]
    emitted,    \* [Maps \X CPU -> samples written or lost]  (history)
    attempt,    \* [Sock -> the current connection attempt]  (history)
    calls       \* traced functions entered so far

kernelVars == <<clock, skc_state, owner, lock, frame, connect, rings, overrun,
                emitted, attempt, calls>>

-----------------------------------------------------------------------------
(* Names.                                                                  *)

Probes == {"tcp_rcv_state_process", "tcp_v4_connect", "tcp_sendmsg"}
Maps   == {"events", "tcp_sendmsg_events"}

FREE            == 0
TCP_ESTABLISHED == 1
TCP_SYN_SENT    == 2
TCP_FIN_WAIT1   == 4
TCP_CLOSE       == 7

TcpStateNames ==
    <<"TCP_ESTABLISHED", "TCP_SYN_SENT", "TCP_SYN_RECV", "TCP_FIN_WAIT1",
      "TCP_FIN_WAIT2", "TCP_TIME_WAIT", "TCP_CLOSE", "TCP_CLOSE_WAIT",
      "TCP_LAST_ACK", "TCP_LISTEN", "TCP_CLOSING", "TCP_NEW_SYN_RECV">>

get_tcp_state(state) ==
    IF state \in 1..12 THEN TcpStateNames[state] ELSE "UNKNOWN_STATE"

(* ktime in microseconds, and subtraction of __u64.                        *)
Usec(ns)     == ns \div NSEC_PER_USEC
U64Sub(a, b) == (a - b) % U64

IdleFrame == [at |-> "idle", func |-> "none", sk |-> None, event |-> None]

(* The attempt whose program did not run, and the states of the others:    *)
(* "unstored" when the map was full, "waiting" while the first segment in  *)
(* SYN_SENT is still to come, "measured" after it.                         *)
Untraced == [status |-> "untraced", began |-> 0]

-----------------------------------------------------------------------------
(* The hash map and the perf rings of the kernel.                          *)

Entries == {s \in Sock : connect[s] # None}

HasRoom(s) == connect[s] # None \/ Cardinality(Entries) < MAX_ENTRIES

(* Mutant: BPF_NOEXIST in place of flags 0.                                *)
bpf_map_update_elem_NoExist(s, ts) ==
    IF HasRoom(s) /\ connect[s] = None THEN [connect EXCEPT ![s] = ts] ELSE connect

(* Flags 0 is BPF_ANY: insert or replace; E2BIG leaves the map alone.      *)
bpf_map_update_elem(s, ts) ==
    IF HasRoom(s) THEN [connect EXCEPT ![s] = ts] ELSE connect

bpf_map_delete_elem(s) == [connect EXCEPT ![s] = None]

(* A record of the lost samples is written in front of the next sample     *)
(* that fits, so the two need room together.                               *)
Fits(r) == Len(rings[r]) + (IF overrun[r] > 0 THEN 2 ELSE 1) <= RING_SIZE

LostRecord(r) == [lost |-> overrun[r]]
Sample(r, e)  == [lost |-> 0, event |-> e, seq |-> emitted[r] + 1]

bpf_perf_event_output(r, e) ==
    IF r[1] \notin opened
    THEN UNCHANGED <<rings, overrun, emitted>>
    ELSE /\ emitted' = [emitted EXCEPT ![r] = @ + 1]
         /\ \/ /\ Fits(r)
               /\ rings' = [rings EXCEPT ![r] =
                      (IF overrun[r] > 0 THEN Append(@, LostRecord(r)) ELSE @)
                        \o <<Sample(r, e)>>]
               /\ overrun' = [overrun EXCEPT ![r] = 0]
            \/ /\ ~ Fits(r)
               /\ overrun' = [overrun EXCEPT ![r] = @ + 1]
               /\ UNCHANGED rings

-----------------------------------------------------------------------------
(* The programs.  A handler begins when a context enters the function.     *)

Dropped(ts) == targ_min_us # 0 /\ Usec(ts) < targ_min_us

(* The program runs: it is attached and the filter lets the call through.  *)
Runs(func) == func \in attached /\ ~ Dropped(clock)

Event(func, s, tgid) ==
    [func |-> func, sk |-> s, owner |-> owner[s],
     tcp_state |-> get_tcp_state(skc_state[s]), ts_us |-> Usec(clock),
     tgid |-> tgid, tcp_connect_time |-> 0]

EnterFrame(c, func, s, tgid, first) ==
    /\ frame[c].at = "idle"
    /\ skc_state[s] # FREE
    /\ calls < MaxCalls
    /\ calls' = calls + 1
    /\ frame' = [frame EXCEPT ![c] =
           [at |-> IF Runs(func) THEN first ELSE "body", func |-> func,
            sk |-> s, event |-> Event(func, s, tgid)]]

(* tcp_v4_connect: called by the owner of the socket, which is locked.     *)
handle_tcp_v4_connect(c, s) ==
    /\ lock[s] = None /\ skc_state[s] = TCP_CLOSE
    /\ EnterFrame(c, "tcp_v4_connect", s, owner[s], "update")
    /\ lock' = [lock EXCEPT ![s] = c]
    /\ attempt' = IF Runs("tcp_v4_connect") THEN attempt
                  ELSE [attempt EXCEPT ![s] = Untraced]
    /\ UNCHANGED <<clock, skc_state, owner, connect, rings, overrun, emitted>>

UpdateConnect(c) ==
    LET s  == frame[c].sk
        ts == frame[c].event.ts_us
    IN  /\ frame[c].at = "update"
        /\ connect' = bpf_map_update_elem(s, ts)
        /\ attempt' = [attempt EXCEPT ![s] =
               [status |-> IF HasRoom(s) THEN "waiting" ELSE "unstored",
                began |-> ts]]
        /\ frame' = [frame EXCEPT ![c].at = "output"]
        /\ UNCHANGED <<clock, skc_state, owner, lock, rings, overrun, emitted,
                       calls>>

(* tcp_rcv_state_process: usually in a softirq, on whatever task happens   *)
(* to be current (the idle task, too); the socket is locked.               *)
handle_tcp_rcv_state_process(c, s, tgid) ==
    /\ lock[s] = None /\ skc_state[s] \notin {TCP_ESTABLISHED, TCP_CLOSE}
    /\ EnterFrame(c, "tcp_rcv_state_process", s, tgid, "lookup")
    /\ lock' = [lock EXCEPT ![s] = c]
    /\ UNCHANGED <<clock, skc_state, owner, connect, rings, overrun, emitted,
                   attempt>>

(* Mutant: the operands swapped.                                           *)
ConnectTimeSwapped(s, ts_us) ==
    IF connect[s] = None THEN 0 ELSE U64Sub(connect[s], ts_us)

ConnectTime(s, ts_us) ==
    IF connect[s] = None THEN 0 ELSE U64Sub(ts_us, connect[s])

LookupConnect(c) ==
    LET s == frame[c].sk
        e == frame[c].event
    IN  /\ frame[c].at = "lookup"
        /\ IF skc_state[s] = TCP_SYN_SENT
           THEN frame' = [frame EXCEPT ![c] = [@ EXCEPT !.at = "delete",
                    !.event = [e EXCEPT !.tcp_connect_time =
                                   ConnectTime(s, e.ts_us)]]]
           ELSE frame' = [frame EXCEPT ![c].at = "output"]
        /\ UNCHANGED <<clock, skc_state, owner, lock, connect, rings, overrun,
                       emitted, attempt, calls>>

(* Mutant: the entry is deleted only where there is none.                  *)
DeleteConnectNoEntry(c) ==
    /\ frame[c].at = "delete"
    /\ attempt' = [attempt EXCEPT ![frame[c].sk].status =
           IF @ = "waiting" THEN "measured" ELSE @]
    /\ frame' = [frame EXCEPT ![c].at = "output"]
    /\ UNCHANGED <<clock, skc_state, owner, lock, connect, rings, overrun,
                   emitted, calls>>

(* Both branches of the code delete; the history notes the measurement.    *)
DeleteConnect(c) ==
    LET s == frame[c].sk
    IN  /\ frame[c].at = "delete"
        /\ connect' = bpf_map_delete_elem(s)
        /\ attempt' = [attempt EXCEPT ![s].status =
               IF @ = "waiting" THEN "measured" ELSE @]
        /\ frame' = [frame EXCEPT ![c].at = "output"]
        /\ UNCHANGED <<clock, skc_state, owner, lock, rings, overrun, emitted,
                       calls>>

(* tcp_sendmsg: the function takes the socket lock only in its body.       *)
handle_tcp_sendmsg(c, s) ==
    /\ EnterFrame(c, "tcp_sendmsg", s, owner[s], "output")
    /\ UNCHANGED <<clock, skc_state, owner, lock, connect, rings, overrun,
                   emitted, attempt>>

RingOf(c) ==
    <<IF frame[c].func = "tcp_sendmsg" THEN "tcp_sendmsg_events" ELSE "events",
      CpuOf[c]>>

Output(c) ==
    /\ frame[c].at = "output"
    /\ bpf_perf_event_output(RingOf(c), frame[c].event)
    /\ frame' = [frame EXCEPT ![c].at = "body"]
    /\ UNCHANGED <<clock, skc_state, owner, lock, connect, attempt, calls>>

-----------------------------------------------------------------------------
(* The kernel around the programs.                                         *)

(* What the traced function may do to the state of the socket.             *)
BodyResults(func, state) ==
    CASE func = "tcp_v4_connect" -> {TCP_SYN_SENT, TCP_CLOSE}
      [] func = "tcp_sendmsg"    -> {state}
      [] OTHER -> IF state = TCP_SYN_SENT
                  THEN {TCP_SYN_SENT, TCP_ESTABLISHED, TCP_CLOSE}
                  ELSE {state, TCP_CLOSE}

Body(c) ==
    LET s == frame[c].sk
    IN  /\ frame[c].at = "body"
        /\ \E state \in BodyResults(frame[c].func, skc_state[s]) :
               skc_state' = [skc_state EXCEPT ![s] = state]
        /\ lock' = IF lock[s] = c THEN [lock EXCEPT ![s] = None] ELSE lock
        /\ frame' = [frame EXCEPT ![c] = IdleFrame]
        /\ UNCHANGED <<clock, owner, connect, rings, overrun, emitted, attempt,
                       calls>>

Tick ==
    /\ clock < MaxClock
    /\ clock' = clock + 1
    /\ UNCHANGED <<skc_state, owner, lock, frame, connect, rings, overrun,
                   emitted, attempt, calls>>

(* A step of the stack that enters no traced function.                     *)
SockStep(s, from, to) ==
    /\ lock[s] = None /\ skc_state[s] \in from
    /\ skc_state' = [skc_state EXCEPT ![s] = to]
    /\ UNCHANGED <<clock, lock, frame, connect, rings, overrun, emitted, calls>>

SockAlloc(s, p) ==
    /\ SockStep(s, {FREE}, TCP_CLOSE)
    /\ owner' = [owner EXCEPT ![s] = p]
    /\ attempt' = [attempt EXCEPT ![s] = Untraced]

(* The last reference goes: no function works on the socket any more.      *)
SockFree(s) ==
    /\ \A c \in Ctx : frame[c].sk # s
    /\ SockStep(s, {TCP_CLOSE}, FREE)
    /\ UNCHANGED <<owner, attempt>>

(* The SYN is never answered, or close() gives the attempt up.             *)
ConnectTimeout(s) ==
    SockStep(s, {TCP_SYN_SENT}, TCP_CLOSE) /\ UNCHANGED <<owner, attempt>>

Shutdown(s) ==
    SockStep(s, {TCP_ESTABLISHED}, TCP_FIN_WAIT1) /\ UNCHANGED <<owner, attempt>>

(* An AF_INET6 socket may connect without tcp_v4_connect.                  *)
tcp_v6_connect(s) ==
    /\ SockStep(s, {TCP_CLOSE}, TCP_SYN_SENT)
    /\ attempt' = [attempt EXCEPT ![s] = Untraced]
    /\ UNCHANGED owner

-----------------------------------------------------------------------------
KernelInit ==
    /\ clock = 0
    /\ skc_state = [s \in Sock |-> FREE]
    /\ owner \in [Sock -> Pid]
    /\ lock = [s \in Sock |-> None]
    /\ frame = [c \in Ctx |-> IdleFrame]
    /\ connect = [s \in Sock |-> None]
    /\ rings = [r \in Maps \X CPU |-> <<>>]
    /\ overrun = [r \in Maps \X CPU |-> 0]
    /\ emitted = [r \in Maps \X CPU |-> 0]
    /\ attempt = [s \in Sock |-> Untraced]
    /\ calls = 0

Program(c) ==
    \/ \E s \in Sock : \/ handle_tcp_v4_connect(c, s)
                       \/ handle_tcp_sendmsg(c, s)
                       \/ \E tgid \in Pid \cup {0} : handle_tcp_rcv_state_process(c, s, tgid)
    \/ UpdateConnect(c)
    \/ LookupConnect(c)
    \/ DeleteConnect(c)
    \/ Output(c)
    \/ Body(c)

Stack(s) ==
    \/ \E p \in Pid : SockAlloc(s, p)
    \/ SockFree(s)
    \/ ConnectTimeout(s)
    \/ Shutdown(s)
    \/ tcp_v6_connect(s)

KernelNext ==
    \/ \E c \in Ctx : Program(c)
    \/ \E s \in Sock : Stack(s)
    \/ Tick

-----------------------------------------------------------------------------
(* What user space does to the kernel's side of the tracer.                *)

Attach(p) ==
    attached' = attached \cup {p} /\ UNCHANGED <<kernelVars, opened>>

OpenArray(m) ==
    opened' = opened \cup {m} /\ UNCHANGED <<kernelVars, attached>>

(* The reader moves data_tail over the n oldest records of a ring.         *)
ConsumeRing(r, n) ==
    /\ rings' = [rings EXCEPT ![r] = SubSeq(@, n + 1, Len(@))]
    /\ UNCHANGED <<clock, skc_state, owner, lock, frame, connect, overrun,
                   emitted, attempt, calls, attached, opened>>

CloseArray(m) ==
    /\ opened' = opened \ {m}
    /\ rings' = [r \in Maps \X CPU |-> IF r[1] = m THEN <<>> ELSE rings[r]]
    /\ overrun' = [r \in Maps \X CPU |-> IF r[1] = m THEN 0 ELSE overrun[r]]
    /\ UNCHANGED <<clock, skc_state, owner, lock, frame, connect, emitted,
                   attempt, calls, attached>>

DetachAll ==
    attached' = {} /\ UNCHANGED <<kernelVars, opened>>

(* The process is killed: the kernel closes its file descriptors.          *)
Release ==
    /\ attached' = {} /\ opened' = {}
    /\ rings' = [r \in Maps \X CPU |-> <<>>]
    /\ overrun' = [r \in Maps \X CPU |-> 0]
    /\ UNCHANGED <<clock, skc_state, owner, lock, frame, connect, emitted,
                   attempt, calls>>

UserSpace ==
    \/ \E p \in Probes : Attach(p)
    \/ \E m \in Maps : OpenArray(m) \/ CloseArray(m)
    \/ \E r \in Maps \X CPU : \E n \in 0..Len(rings[r]) : ConsumeRing(r, n)
    \/ DetachAll
    \/ Release

(* The kernel's side under any user of it: what the loader in TcpAnalyse   *)
(* is shown to respect.                                                    *)
KernelStep == KernelNext /\ UNCHANGED <<attached, opened>>

bpfVars == <<kernelVars, attached, opened>>

BpfInit == KernelInit /\ attached = {} /\ opened = {}
BpfNext == KernelStep \/ UserSpace
BpfSpec == BpfInit /\ [][BpfNext]_bpfVars

-----------------------------------------------------------------------------
(* Properties.                                                             *)

Events ==
    [func : Probes, sk : Sock, owner : Pid,
     tcp_state : {get_tcp_state(n) : n \in 0..12}, ts_us : Nat, tgid : Pid \cup {0},
     tcp_connect_time : 0..(U64 - 1)]

Samples == [lost : {0}, event : Events, seq : Nat \ {0}]
Records == Samples \cup [lost : Nat \ {0}]

Running ==
    [at : {"update", "lookup", "delete", "output", "body"}, func : Probes,
     sk : Sock, event : Events]

Attempts ==
    [status : {"untraced", "unstored", "waiting", "measured"}, began : Nat]

(* Type correctness: in particular tcp_connect_time is a __u64, whatever   *)
(* the two time stamps of line 141 are.                                    *)
BpfTypeOK ==
    /\ clock \in 0..MaxClock
    /\ skc_state \in [Sock -> 0..12]
    /\ owner \in [Sock -> Pid]
    /\ lock \in [Sock -> Ctx \cup {None}]
    /\ frame \in [Ctx -> Running \cup {IdleFrame}]
    /\ connect \in [Sock -> Nat \cup {None}]
    /\ attached \in SUBSET Probes
    /\ opened \in SUBSET Maps
    /\ rings \in [Maps \X CPU -> Seq(Records)]
    /\ overrun \in [Maps \X CPU -> Nat]
    /\ emitted \in [Maps \X CPU -> Nat]
    /\ attempt \in [Sock -> Attempts]
    /\ calls \in 0..MaxCalls

(* The map holds the start of a traced attempt until it is measured and    *)
(* nothing of it afterwards, although nothing removes the entry of an      *)
(* attempt that was given up or of a socket that was freed: BPF_ANY in     *)
(* handle_tcp_v4_connect and the delete in both branches of                *)
(* handle_tcp_rcv_state_process make up for it.                            *)
ConnectMapAgrees ==
    \A s \in Sock :
        /\ attempt[s].status = "waiting" => connect[s] = attempt[s].began
        /\ attempt[s].status \in {"unstored", "measured"} => connect[s] = None

(* The first segment that reaches a traced attempt in SYN_SENT is reported *)
(* with the microseconds since tcp_v4_connect was entered, every other one *)
(* with 0: an older attempt on the same struct sock, a second segment, a   *)
(* full map or a program on another CPU change nothing.                    *)
ConnectTimeSound ==
    \A c \in Ctx :
        LET s == frame[c].sk
        IN  frame[c].at = "delete" /\ attempt[s].status # "untraced" =>
                frame[c].event.tcp_connect_time =
                    IF attempt[s].status = "waiting"
                    THEN frame[c].event.ts_us - attempt[s].began
                    ELSE 0

(* The subtraction of line 141 never wraps, not even for an attempt whose  *)
(* start the tracer missed and whose entry is left over from an older one: *)
(* no event carries a connect time longer than the machine has been up.    *)
FramesNeverWrap ==
    \A c \in Ctx : frame[c].at # "idle" =>
        frame[c].event.tcp_connect_time <= frame[c].event.ts_us

RingsNeverWrap ==
    \A r \in Maps \X CPU : \A i \in 1..Len(rings[r]) :
        rings[r][i].lost = 0 =>
            rings[r][i].event.tcp_connect_time <= rings[r][i].event.ts_us

ConnectTimeNeverWraps == FramesNeverWrap /\ RingsNeverWrap

(* What the two properties rest on.  The programs of one socket exclude    *)
(* each other, because the kernel holds the socket lock around the two     *)
(* functions that use the map ...                                          *)
LockHeld ==
    \A c \in Ctx :
        frame[c].at # "idle" /\ frame[c].func # "tcp_sendmsg" =>
            lock[frame[c].sk] = c

Phases ==
    \A c \in Ctx :
        /\ frame[c].at = "update" => frame[c].func = "tcp_v4_connect"
        /\ frame[c].at \in {"lookup", "delete"} =>
               frame[c].func = "tcp_rcv_state_process"

(* ... and so the entry that a lookup finds is older than its time stamp.  *)
TimeOrder ==
    /\ \A s \in Sock : connect[s] # None => connect[s] <= Usec(clock)
    /\ \A c \in Ctx : frame[c].at # "idle" =>
           frame[c].event.ts_us <= Usec(clock)
    /\ \A c \in Ctx :
           frame[c].at = "lookup" /\ connect[frame[c].sk] # None =>
               connect[frame[c].sk] <= frame[c].event.ts_us

(* The inductive invariant of the kernel's side: the map and the history   *)
(* agree, the lock is held, time stamps are in order, and every connect    *)
(* time that was computed is the right one.                                *)
BpfInv ==
    /\ BpfTypeOK
    /\ ConnectMapAgrees
    /\ ConnectTimeSound
    /\ ConnectTimeNeverWraps
    /\ LockHeld
    /\ Phases
    /\ TimeOrder

=============================================================================
