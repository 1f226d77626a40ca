-------------------------- MODULE TcpAnalyseService --------------------------
(***************************************************************************)
(* The service tracer, ebpf_for_service/: four fentry programs along the   *)
(* receive path of one socket of the traced service, and the main() that   *)
(* attaches them and prints what they report.                              *)
(*                                                                         *)
(* A segment enters tcp_v4_rcv in the softirq of some CPU.  If the service *)
(* has the socket locked, the segment waits in the backlog and the service *)
(* itself runs tcp_v4_do_rcv for it when it unlocks, perhaps on another    *)
(* CPU; else the softirq goes on.  The time stamps that the programs take  *)
(* on the way are what the latency of the parts of the path is read from.  *)
(***************************************************************************)
EXTENDS Integers, Sequences

CONSTANTS
    CPU,            \* processors, each with its softirq
    Task,           \* the service's thread
    TaskCpu,        \* the processor it runs on
    NSEC_PER_USEC,  \* 1000U
    U64,            \* 2^64, the range of __u64
    targ_min_us,    \* the filter in read-only data
    MaxClock,       \* bound: last value of bpf_ktime_get_ns()
    MaxSegs,        \* bound: segments that arrive
    MaxReads,       \* bound: calls of tcp_recvmsg
    None

ASSUME ServiceAssumption ==
    /\ Task \notin CPU /\ TaskCpu \in CPU
    /\ None \notin CPU \cup {Task}
    /\ NSEC_PER_USEC \in Nat \ {0} /\ targ_min_us \in Nat
    /\ MaxClock \in Nat /\ MaxSegs \in Nat /\ MaxReads \in Nat
    /\ U64 \in Nat /\ MaxClock < U64

Ctx == CPU \cup {Task}
CpuOf(c) == IF c = Task THEN TaskCpu ELSE c

(* The functions in the order in which a segment meets them.               *)
Path  == <<"tcp_v4_rcv", "tcp_v4_do_rcv", "tcp_rcv_state_process">>
Funcs == {"tcp_v4_rcv", "tcp_v4_do_rcv", "tcp_rcv_state_process", "tcp_recvmsg"}
Maps  == {"events", "tcp_recvmsg_events"}
Rings == Maps \X CPU

VARIABLES
    clock,
    established,    \* skc_state = TCP_ESTABLISHED
    lock,           \* the context that has the socket, or None
    backlog,        \* segments that wait for Task to unlock
    segs,           \* segments that have arrived
    reads,          \* calls of tcp_recvmsg so far
    frame,          \* [Ctx -> at, func, seg, event]
    attached, opened,
    rings,          \* [Rings -> Seq of events not yet read]
    lost,           \* [Rings -> events lost and not yet reported]
    main, can, links, handler, exiting, err, status, polled

pathVars == <<established, lock, backlog, segs, reads, frame>>
ringVars == <<rings, lost>>
mainVars == <<attached, opened, main, can, links, handler, exiting, err, status,
              polled>>
vars     == <<clock, pathVars, ringVars, mainVars>>

IdleFrame == [at |-> "idle", func |-> "none", seg |-> 0, event |-> None]

-----------------------------------------------------------------------------
(* The four programs.                                                      *)

(* The clock goes through an s64 and back, which changes nothing.          *)
Usec(ns) == (ns \div NSEC_PER_USEC) % U64

Event(func, n) ==
    [func |-> func, seg |-> n, ts_us |-> Usec(clock)]

Dropped == targ_min_us # 0 /\ Usec(clock) < targ_min_us

(* A context enters a function: if the program runs it reads the clock now *)
(* and outputs the event in a step of its own.                             *)
Entered(func, n) ==
    [at |-> IF func \in attached /\ ~ Dropped THEN "output" ELSE "body",
     func |-> func, seg |-> n, event |-> Event(func, n)]

RingOf(c) ==
    <<IF frame[c].func = "tcp_recvmsg" THEN "tcp_recvmsg_events" ELSE "events",
      CpuOf(c)>>

(* Mutant: the event is built in memory of the processor and not on the    *)
(* stack of the program: whoever outputs last has overwritten it.          *)
OutputPerCpu(c) ==
    /\ frame[c].at = "output"
    /\ frame' = [d \in Ctx |->
           IF d = c THEN [frame[d] EXCEPT !.at = "body"]
           ELSE IF CpuOf(d) = CpuOf(c) /\ frame[d].at = "output"
           THEN [frame[d] EXCEPT !.event = frame[c].event]
           ELSE frame[d]]
    /\ rings' = [rings EXCEPT ![RingOf(c)] =
           IF RingOf(c)[1] \in opened THEN Append(@, frame[c].event) ELSE @]
    /\ UNCHANGED <<clock, established, lock, backlog, segs, reads, lost, mainVars>>

(* The ring takes the event, or it is full and the kernel counts it.       *)
Output(c) ==
    /\ frame[c].at = "output"
    /\ frame' = [frame EXCEPT ![c].at = "body"]
    /\ \/ /\ RingOf(c)[1] \in opened
          /\ \/ rings' = [rings EXCEPT ![RingOf(c)] = Append(@, frame[c].event)]
                /\ UNCHANGED lost
             \/ lost' = [lost EXCEPT ![RingOf(c)] = @ + 1] /\ UNCHANGED rings
       \/ RingOf(c)[1] \notin opened /\ UNCHANGED ringVars
    /\ UNCHANGED <<clock, established, lock, backlog, segs, reads, mainVars>>

-----------------------------------------------------------------------------
(* The kernel's receive path.                                              *)

InBody(c, func) == frame[c].at = "body" /\ frame[c].func = func

tcp_v4_rcv(c) ==
    /\ c \in CPU /\ frame[c].at = "idle" /\ segs < MaxSegs
    /\ segs' = segs + 1
    /\ frame' = [frame EXCEPT ![c] = Entered("tcp_v4_rcv", segs + 1)]
    /\ UNCHANGED <<clock, established, lock, backlog, reads, ringVars, mainVars>>

(* The segment is for nobody, goes on, or waits for the service.           *)
V4RcvBody(c) ==
    /\ InBody(c, "tcp_v4_rcv")
    /\ \/ /\ frame' = [frame EXCEPT ![c] = IdleFrame]
          /\ UNCHANGED <<lock, backlog>>
       \/ /\ lock = None
          /\ lock' = c
          /\ frame' = [frame EXCEPT ![c] = Entered("tcp_v4_do_rcv", frame[c].seg)]
          /\ UNCHANGED backlog
       \/ /\ lock = Task
          /\ backlog' = Append(backlog, frame[c].seg)
          /\ frame' = [frame EXCEPT ![c] = IdleFrame]
          /\ UNCHANGED lock
    /\ UNCHANGED <<clock, established, segs, reads, ringVars, mainVars>>

(* A softirq leaves the socket; Task looks at the backlog again.           *)
Leave(c) ==
    IF c = Task
    THEN frame' = [frame EXCEPT ![c] = [IdleFrame EXCEPT !.at = "release"]] /\ UNCHANGED lock
    ELSE frame' = [frame EXCEPT ![c] = IdleFrame] /\ lock' = None

DoRcvBody(c) ==
    /\ InBody(c, "tcp_v4_do_rcv")
    /\ IF established
       THEN established' \in BOOLEAN /\ Leave(c)
       ELSE /\ frame' = [frame EXCEPT ![c] =
                   Entered("tcp_rcv_state_process", frame[c].seg)]
            /\ UNCHANGED <<lock, established>>
    /\ UNCHANGED <<clock, backlog, segs, reads, ringVars, mainVars>>

StateProcessBody(c) ==
    /\ InBody(c, "tcp_rcv_state_process")
    /\ established' \in BOOLEAN
    /\ Leave(c)
    /\ UNCHANGED <<clock, backlog, segs, reads, ringVars, mainVars>>

tcp_recvmsg ==
    /\ frame[Task].at = "idle" /\ reads < MaxReads
    /\ reads' = reads + 1
    /\ frame' = [frame EXCEPT ![Task] = Entered("tcp_recvmsg", 0)]
    /\ UNCHANGED <<clock, established, lock, backlog, segs, ringVars, mainVars>>

RecvmsgBody ==
    /\ InBody(Task, "tcp_recvmsg") /\ lock = None
    /\ lock' = Task
    /\ frame' = [frame EXCEPT ![Task] = [IdleFrame EXCEPT !.at = "release"]]
    /\ UNCHANGED <<clock, established, backlog, segs, reads, ringVars, mainVars>>

release_sock ==
    /\ frame[Task].at = "release"
    /\ IF backlog = <<>>
       THEN /\ lock' = None
            /\ frame' = [frame EXCEPT ![Task] = IdleFrame]
            /\ UNCHANGED backlog
       ELSE /\ backlog' = Tail(backlog)
            /\ frame' = [frame EXCEPT ![Task] = Entered("tcp_v4_do_rcv", Head(backlog))]
            /\ UNCHANGED lock
    /\ UNCHANGED <<clock, established, segs, reads, ringVars, mainVars>>

Tick ==
    /\ clock < MaxClock /\ clock' = clock + 1
    /\ UNCHANGED <<pathVars, ringVars, mainVars>>

Kernel ==
    \/ \E c \in Ctx : \/ Output(c) \/ tcp_v4_rcv(c) \/ V4RcvBody(c)
                      \/ DoRcvBody(c) \/ StateProcessBody(c)
    \/ tcp_recvmsg \/ RecvmsgBody \/ release_sock
    \/ Tick

-----------------------------------------------------------------------------
(* main(): set-up.                                                         *)

At(pc) == main = pc /\ status = None
Goto(pc) == main' = pc /\ UNCHANGED <<handler, exiting, status>>
Fail(code) == Goto("cleanup") /\ err' = code
Return(code) == main' = "exit" /\ status' = code /\ UNCHANGED <<handler, exiting>>
Still == UNCHANGED <<clock, pathVars, ringVars, polled>>

tcp_analyse_service_bpf__open ==
    /\ At("open")
    /\ Goto("probe") \/ Return(1)
    /\ Still /\ UNCHANGED <<attached, opened, can, links, err>>

(* The skeleton's programs in the order of the object file.                *)
SkeletonProgs ==
    <<"tcp_rcv_state_process", "tcp_v4_do_rcv", "tcp_recvmsg", "tcp_v4_rcv">>

(* Mutant: the inner probe is gone and its else branch is left, so that    *)
(* tcp_rcv_state_process goes with tcp_v4_do_rcv.                          *)
AutoloadInnerOff(able) ==
    IF "tcp_v4_do_rcv" \in able THEN able \cup {"tcp_rcv_state_process"}
    ELSE able \ {"tcp_rcv_state_process"}

(* What stays autoloaded.  The probe of tcp_rcv_state_process stands in    *)
(* the else branch of the one of tcp_v4_do_rcv: when that one can be       *)
(* attached nobody asks about tcp_rcv_state_process.                       *)
Autoload(able) ==
    IF "tcp_v4_do_rcv" \in able THEN able \cup {"tcp_rcv_state_process"} ELSE able

fentry_can_attach ==
    /\ At("probe")
    /\ can' \in SUBSET Funcs
    /\ links' = Autoload(can')
    /\ Goto("load")
    /\ Still /\ UNCHANGED <<attached, opened, err>>

tcp_analyse_service_bpf__load ==
    /\ At("load")
    /\ \/ Goto("attach") /\ UNCHANGED err
       \/ Fail(-1)
    /\ Still /\ UNCHANGED <<attached, opened, can, links>>

(* The next link in the order of the skeleton; the first failure ends the  *)
(* attach.                                                                 *)
AttachLink(i) ==
    /\ At("attach") /\ SkeletonProgs[i] \in links
    /\ \A j \in 1..(i - 1) : SkeletonProgs[j] \notin links
    /\ \/ /\ SkeletonProgs[i] \in can
          /\ attached' = attached \cup {SkeletonProgs[i]}
          /\ links' = links \ {SkeletonProgs[i]}
          /\ Goto("attach") /\ UNCHANGED err
       \/ Fail(-1) /\ UNCHANGED <<attached, links>>
    /\ Still /\ UNCHANGED <<opened, can>>

AttachDone ==
    /\ At("attach") /\ links = {}
    /\ Goto("new_pb")
    /\ Still /\ UNCHANGED <<attached, opened, can, links, err>>

perf_buffer__new(m) ==
    /\ opened' = opened \cup {m} \/ UNCHANGED opened
    /\ Still /\ UNCHANGED <<attached, can, links, err>>

NewPb == At("new_pb") /\ Goto("new_recvmsg_pb") /\ perf_buffer__new("events")

NewRecvmsgPb ==
    At("new_recvmsg_pb") /\ Goto("check_pb") /\ perf_buffer__new("tcp_recvmsg_events")

(* NULL from either call: cleanup, with err as attach left it.             *)
CheckPb ==
    /\ At("check_pb")
    /\ Goto(IF opened = Maps THEN "signal" ELSE "cleanup")
    /\ Still /\ UNCHANGED <<attached, opened, can, links, err>>

InstallHandler ==
    /\ At("signal")
    /\ \/ main' = "while" /\ handler' = TRUE /\ UNCHANGED <<exiting, err, status>>
       \/ Fail(1)
    /\ Still /\ UNCHANGED <<attached, opened, can, links>>

-----------------------------------------------------------------------------
(* main(): the loop and the end.                                           *)

LoopFrame == UNCHANGED <<clock, pathVars, attached, opened, can, links>>

While ==
    /\ At("while")
    /\ Goto(IF exiting THEN "cleanup" ELSE "poll")
    /\ polled' = "events"
    /\ LoopFrame /\ UNCHANGED <<ringVars, err>>

(* A sample of a ring of the array that is polled.                         *)
Callback(cpu) ==
    LET r == <<polled, cpu>>
    IN  /\ At("poll") /\ rings[r] # <<>>
        /\ rings' = [rings EXCEPT ![r] = Tail(@)]
        /\ LoopFrame /\ UNCHANGED <<lost, main, handler, exiting, err, status, polled>>

handle_event(cpu) == polled = "events" /\ Callback(cpu)

handle_tcp_recvmsg_event(cpu) == polled = "tcp_recvmsg_events" /\ Callback(cpu)

handle_lost_events(cpu) ==
    LET r == <<polled, cpu>>
    IN  /\ At("poll") /\ lost[r] > 0
        /\ lost' = [lost EXCEPT ![r] = 0]
        /\ LoopFrame /\ UNCHANGED <<rings, main, handler, exiting, err, status, polled>>

(* A poll returns what it handled, nothing, or -EINTR; the second one      *)
(* leads back to the test of the loop, any other error out of it.          *)
PollReturns ==
    /\ At("poll")
    /\ IF polled = "events"
       THEN Goto("poll") /\ polled' = "tcp_recvmsg_events"
       ELSE Goto("while") /\ UNCHANGED polled
    /\ LoopFrame /\ UNCHANGED <<ringVars, err>>

PollFails ==
    /\ At("poll")
    /\ Fail(-1)
    /\ LoopFrame /\ UNCHANGED <<ringVars, polled>>

(* perf_buffer__free of both buffers.                                      *)
CloseArrays ==
    /\ opened' = {}
    /\ rings' = [r \in Rings |-> <<>>] /\ lost' = [r \in Rings |-> 0]
    /\ UNCHANGED <<clock, pathVars, can, links, err, polled>>

Cleanup ==
    /\ At("cleanup") /\ CloseArrays /\ Goto("destroy")
    /\ UNCHANGED attached

(* Mutant: return err, the negative number of libbpf.                      *)
DestroyReturnsErr ==
    /\ At("destroy")
    /\ attached' = {} /\ Return(err)
    /\ Still /\ UNCHANGED <<opened, can, links, err>>

tcp_analyse_service_bpf__destroy ==
    /\ At("destroy")
    /\ attached' = {} /\ Return(IF err # 0 THEN 1 ELSE 0)
    /\ Still /\ UNCHANGED <<opened, can, links, err>>

sig_int ==
    /\ handler /\ status = None
    /\ exiting' = TRUE
    /\ LoopFrame /\ UNCHANGED <<ringVars, main, handler, err, status, polled>>

SigintKills ==
    /\ ~ handler /\ status = None
    /\ CloseArrays /\ attached' = {} /\ Return(130)

Main ==
    \/ tcp_analyse_service_bpf__open \/ fentry_can_attach
    \/ tcp_analyse_service_bpf__load
    \/ \E i \in 1..Len(SkeletonProgs) : AttachLink(i)
    \/ AttachDone
    \/ NewPb \/ NewRecvmsgPb \/ CheckPb \/ InstallHandler
    \/ While \/ PollReturns \/ PollFails
    \/ Cleanup \/ tcp_analyse_service_bpf__destroy
    \/ \E cpu \in CPU : \/ handle_event(cpu) \/ handle_tcp_recvmsg_event(cpu)
                         \/ handle_lost_events(cpu)

Init ==
    /\ clock = 0 /\ established \in BOOLEAN
    /\ lock = None /\ backlog = <<>> /\ segs = 0 /\ reads = 0
    /\ frame = [c \in Ctx |-> IdleFrame]
    /\ attached = {} /\ opened = {}
    /\ rings = [r \in Rings |-> <<>>] /\ lost = [r \in Rings |-> 0]
    /\ main = "open" /\ can = {} /\ links = {}
    /\ handler = FALSE /\ exiting = FALSE /\ err = 0 /\ status = None
    /\ polled = "events"

Next == Kernel \/ Main \/ sig_int \/ SigintKills

Spec == Init /\ [][Next]_vars

-----------------------------------------------------------------------------
(* Properties.                                                             *)

Events ==
    [func : Funcs, seg : 0..MaxSegs, ts_us : 0..(U64 - 1)]

(* Type correctness: time stamps are those of a __u64, a closed array      *)
(* holds nothing, and main() returns 0 or 1.                               *)
TypeOK ==
    /\ clock \in 0..MaxClock /\ established \in BOOLEAN
    /\ lock \in Ctx \cup {None}
    /\ backlog \in Seq(1..MaxSegs) /\ segs \in 0..MaxSegs
    /\ reads \in 0..MaxReads
    /\ frame \in [Ctx -> [at : {"idle", "output", "body", "release"},
                          func : Funcs \cup {"none"}, seg : 0..MaxSegs,
                          event : Events \cup {None}]]
    /\ attached \in SUBSET Funcs /\ opened \in SUBSET Maps
    /\ rings \in [Rings -> Seq(Events)] /\ lost \in [Rings -> Nat]
    /\ \A r \in Rings : r[1] \notin opened => rings[r] = <<>> /\ lost[r] = 0
    /\ main \in {"open", "probe", "load", "attach", "new_pb", "new_recvmsg_pb",
                 "check_pb", "signal", "while", "poll", "cleanup", "destroy", "exit"}
    /\ can \in SUBSET Funcs /\ links \in SUBSET Funcs
    /\ handler \in BOOLEAN /\ exiting \in BOOLEAN
    /\ err \in {-1, 0, 1} /\ status \in {None, 0, 1, 130}
    /\ polled \in Maps

Place(e) == CHOOSE i \in 1..Len(Path) : Path[i] = e.func

(* The latency of a part of the path is never negative: of two events of   *)
(* one segment, whatever ring they are in, the one further down the path   *)
(* has the later or the same time stamp, and within a ring they stand in   *)
(* the order of the path.  That the backlog hands the segment to another   *)
(* context on another CPU, or a softirq interrupts the service between its *)
(* time stamp and its output, does not matter.                             *)
PathInOrder ==
    \A q, r \in Rings : \A i \in 1..Len(rings[q]), j \in 1..Len(rings[r]) :
        LET a == rings[q][i]
            b == rings[r][j]
        IN  a.seg # 0 /\ a.seg = b.seg =>
                /\ Place(a) < Place(b) => a.ts_us <= b.ts_us
                /\ q = r /\ i < j => Place(a) < Place(b)

(* When main() polls, it traces what the kernel can attach, all of it and  *)
(* nothing else.  The misplaced brace around the probe of                  *)
(* tcp_rcv_state_process never leads to a trace with a silent gap: it can  *)
(* only keep the tracer from starting.                                     *)
LoopTracesAll == main \in {"while", "poll"} => attached = can
=============================================================================
