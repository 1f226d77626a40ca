----------------------------- MODULE TcpAnalyse -----------------------------
(***************************************************************************)
(* The client tracer, ebpf_for_client/tcp_analyse.c, on top of its kernel  *)
(* half: main() opens the skeleton, probes and attaches the programs,      *)
(* opens a perf buffer for each of the two arrays, polls them in turn and  *)
(* cleans up.  The kernel's side moves between any two of its steps; so    *)
(* does SIGINT.                                                            *)
(***************************************************************************)
EXTENDS TcpAnalyseBpf

CONSTANT env_pid    \* the argument of -p, 0 without it

ASSUME EnvAssumption ==
    /\ env_pid \in Pid \cup {0} /\ 0 \notin Pid
    /\ None \notin [cpu : CPU, head : Nat, done : Nat]

VARIABLES
    main,       \* where main() is
    handler,    \* sig_int is installed
    exiting,    \* the flag sig_int sets
    err,        \* main()'s err: 0, negative (-1) or 1
    status,     \* the exit status, None while the process runs
    links,      \* the loaded programs that are still to be attached
    polled,     \* the array perf_buffer__poll works on
    ready,      \* CPUs epoll_wait returned whose ring is still to be read
    cursor,     \* the ring being read: [cpu, head, done], or None
    out,        \* the event printed last, or None                (history)
    handled,    \* [Maps \X CPU -> samples given to the callback] (history)
    lostCount   \* [Maps \X CPU -> sum of the lost_cnt reported]  (history)

userVars == <<main, handler, exiting, err, status, links, polled, ready, cursor, out,
              handled, lostCount>>
pollVars == <<polled, ready, cursor, out, handled, lostCount>>
vars     == <<bpfVars, userVars>>

(* The skeleton's programs in the order of the object file.                *)
SkeletonProgs == <<"tcp_rcv_state_process", "tcp_v4_connect", "tcp_sendmsg">>

Init ==
    /\ BpfInit
    /\ main = "open"
    /\ handler = FALSE
    /\ exiting = FALSE
    /\ err = 0
    /\ status = None
    /\ links = {}
    /\ polled = "events"
    /\ ready = {}
    /\ cursor = None
    /\ out = None
    /\ handled = [r \in Maps \X CPU |-> 0]
    /\ lostCount = [r \in Maps \X CPU |-> 0]

At(pc) == main = pc /\ status = None
Goto(pc) == main' = pc /\ UNCHANGED <<handler, exiting, status>>

Fail(code) == Goto("free_pb") /\ err' = code

Return(code) == main' = "exit" /\ status' = code /\ UNCHANGED <<handler, exiting>>

-----------------------------------------------------------------------------
(* Set-up.                                                                 *)

tcp_analyse_bpf__open ==
    /\ At("open")
    /\ \/ Goto("probe")
       \/ Return(1)
    /\ UNCHANGED <<bpfVars, err, links, pollVars>>

(* Programs that fentry_can_attach refuses are not loaded.                 *)
fentry_can_attach ==
    /\ At("probe")
    /\ links' \in SUBSET Probes
    /\ Goto("load")
    /\ UNCHANGED <<bpfVars, err, pollVars>>

tcp_analyse_bpf__load ==
    /\ At("load")
    /\ \/ Goto("attach") /\ UNCHANGED err
       \/ Fail(-1)
    /\ UNCHANGED <<bpfVars, links, pollVars>>

(* tcp_analyse_bpf__attach takes the programs in the order of the          *)
(* skeleton; the first failure ends it.                                    *)
AttachLink(i) ==
    /\ At("attach") /\ SkeletonProgs[i] \in links
    /\ \A j \in 1..(i - 1) : SkeletonProgs[j] \notin links
    /\ \/ /\ Attach(SkeletonProgs[i])
          /\ links' = links \ {SkeletonProgs[i]}
          /\ Goto("attach") /\ UNCHANGED err
       \/ Fail(-1) /\ UNCHANGED <<bpfVars, links>>
    /\ UNCHANGED pollVars

AttachDone ==
    /\ At("attach") /\ links = {}
    /\ Goto("new_pb")
    /\ UNCHANGED <<bpfVars, err, links, pollVars>>

perf_buffer__new(m) ==
    /\ OpenArray(m) \/ UNCHANGED bpfVars
    /\ UNCHANGED <<err, links, pollVars>>

NewPb == At("new_pb") /\ Goto("new_sendmsg_pb") /\ perf_buffer__new("events")

NewSendmsgPb ==
    At("new_sendmsg_pb") /\ Goto("check_pb") /\ perf_buffer__new("tcp_sendmsg_events")

(* NULL from either call: cleanup, with err as attach left it.             *)
CheckPb ==
    /\ At("check_pb")
    /\ Goto(IF opened = Maps THEN "signal" ELSE "free_pb")
    /\ UNCHANGED <<bpfVars, err, links, pollVars>>

InstallHandler ==
    /\ At("signal")
    /\ \/ /\ main' = "while" /\ handler' = TRUE
          /\ UNCHANGED <<exiting, err, status>>
       \/ Fail(1)
    /\ UNCHANGED <<bpfVars, links, pollVars>>

-----------------------------------------------------------------------------
(* The loop.                                                               *)

(* Mutant: the loop does not look at the flag.                             *)
WhileTrue ==
    /\ At("while")
    /\ Goto("poll")
    /\ polled' = "events"
    /\ UNCHANGED <<bpfVars, err, links, ready, cursor, out, handled, lostCount>>

While ==
    /\ At("while")
    /\ Goto(IF exiting THEN "free_pb" ELSE "poll")
    /\ polled' = "events"
    /\ UNCHANGED <<bpfVars, err, links, ready, cursor, out, handled, lostCount>>

Ring == <<polled, cursor.cpu>>

NonEmpty(m) == {cpu \in CPU : rings[<<m, cpu>>] # <<>>}

(* Mutant: only the first of the two buffers is polled.                    *)
PollReturnsFirst == Goto("while") /\ polled' = polled

(* A poll that does not fail: the other buffer, or the test of the loop.   *)
PollReturns ==
    IF polled = "events"
    THEN Goto("poll") /\ polled' = "tcp_sendmsg_events"
    ELSE Goto("while") /\ polled' = polled

(* epoll_wait in perf_buffer__poll returns the rings that hold records,    *)
(* or after 100 ms nothing, or EINTR when a signal came.                   *)
EpollReady ==
    /\ At("poll") /\ NonEmpty(polled) # {}
    /\ ready' = NonEmpty(polled)
    /\ Goto("read")
    /\ UNCHANGED <<bpfVars, err, links, polled, cursor, out, handled, lostCount>>

EpollNothing ==
    /\ At("poll") /\ (NonEmpty(polled) = {} \/ exiting)
    /\ PollReturns
    /\ UNCHANGED <<bpfVars, err, links, ready, cursor, out, handled, lostCount>>

EpollFails ==
    /\ At("poll")
    /\ Fail(-1)
    /\ UNCHANGED <<bpfVars, links, pollVars>>

(* perf_event_read_simple reads data_head once for each ring.              *)
ReadHead(cpu) ==
    /\ At("read") /\ cursor = None /\ cpu \in ready
    /\ cursor' = [cpu |-> cpu, head |-> Len(rings[<<polled, cpu>>]), done |-> 0]
    /\ ready' = ready \ {cpu}
    /\ UNCHANGED <<bpfVars, main, handler, exiting, err, status, links, polled, out,
                   handled, lostCount>>

InRing == At("read") /\ cursor # None /\ cursor.done < cursor.head

Record == rings[Ring][cursor.done + 1]

PidPasses(e) == env_pid = 0 \/ e.tgid = env_pid

(* What the two sample callbacks have in common: the filter, and a line    *)
(* of output.                                                              *)
Callback ==
    /\ InRing /\ Record.lost = 0
    /\ handled' = [handled EXCEPT ![Ring] = @ + 1]
    /\ out' = IF PidPasses(Record.event) THEN Record.event ELSE out
    /\ cursor' = [cursor EXCEPT !.done = @ + 1]
    /\ UNCHANGED <<bpfVars, main, handler, exiting, err, status, links, polled, ready,
                   lostCount>>

handle_event == polled = "events" /\ Callback

handle_tcp_sendmsg_event == polled = "tcp_sendmsg_events" /\ Callback

(* Mutant: the losses are not reported.                                    *)
handle_lost_events_Silent ==
    /\ InRing /\ Record.lost > 0
    /\ cursor' = [cursor EXCEPT !.done = @ + 1]
    /\ UNCHANGED <<bpfVars, main, handler, exiting, err, status, links, polled, ready,
                   out, handled, lostCount>>

handle_lost_events ==
    /\ InRing /\ Record.lost > 0
    /\ lostCount' = [lostCount EXCEPT ![Ring] = @ + Record.lost]
    /\ cursor' = [cursor EXCEPT !.done = @ + 1]
    /\ UNCHANGED <<bpfVars, main, handler, exiting, err, status, links, polled, ready,
                   out, handled>>

(* Only now does the kernel get the space of the records back.             *)
WriteTail ==
    /\ At("read") /\ cursor # None /\ cursor.done = cursor.head
    /\ ConsumeRing(Ring, cursor.head)
    /\ cursor' = None
    /\ UNCHANGED <<main, handler, exiting, err, status, links, polled, ready, out,
                   handled, lostCount>>

RingsRead ==
    /\ At("read") /\ cursor = None /\ ready = {}
    /\ PollReturns
    /\ UNCHANGED <<bpfVars, err, links, ready, cursor, out, handled, lostCount>>

-----------------------------------------------------------------------------
(* cleanup:                                                                *)

FreePb ==
    /\ At("free_pb") /\ CloseArray("events") /\ Goto("free_sendmsg_pb")
    /\ UNCHANGED <<err, links, pollVars>>

FreeSendmsgPb ==
    /\ At("free_sendmsg_pb") /\ CloseArray("tcp_sendmsg_events") /\ Goto("destroy")
    /\ UNCHANGED <<err, links, pollVars>>

tcp_analyse_bpf__destroy ==
    /\ At("destroy") /\ DetachAll
    /\ Return(IF err # 0 THEN 1 ELSE 0)
    /\ UNCHANGED <<err, links, pollVars>>

-----------------------------------------------------------------------------
(* Mutant: the handler itself frees the buffer.                            *)
sig_int_Frees ==
    /\ handler /\ status = None
    /\ exiting' = TRUE
    /\ CloseArray("events")
    /\ UNCHANGED <<main, handler, err, status, links, pollVars>>

(* SIGINT: the default action until signal() has installed sig_int.        *)
sig_int ==
    /\ handler /\ status = None
    /\ exiting' = TRUE
    /\ UNCHANGED <<bpfVars, main, handler, err, status, links, pollVars>>

(* 130 is the shell's status of a process that SIGINT killed.              *)
SigintKills ==
    /\ ~ handler /\ status = None
    /\ Release
    /\ Return(130)
    /\ UNCHANGED <<err, links, pollVars>>

Main ==
    \/ tcp_analyse_bpf__open \/ fentry_can_attach \/ tcp_analyse_bpf__load
    \/ \E i \in 1..Len(SkeletonProgs) : AttachLink(i)
    \/ AttachDone \/ NewPb \/ NewSendmsgPb \/ CheckPb
    \/ InstallHandler
    \/ While \/ EpollReady \/ EpollNothing \/ EpollFails
    \/ \E cpu \in CPU : ReadHead(cpu)
    \/ handle_event \/ handle_tcp_sendmsg_event \/ handle_lost_events
    \/ WriteTail \/ RingsRead
    \/ FreePb \/ FreeSendmsgPb \/ tcp_analyse_bpf__destroy

Kernel == KernelStep /\ UNCHANGED userVars

Next == Main \/ Kernel \/ sig_int \/ SigintKills

(* The scheduler runs the process, and epoll_wait returns after 100 ms.    *)
Spec == Init /\ [][Next]_vars /\ WF_vars(Main)

-----------------------------------------------------------------------------
(* Properties.                                                             *)

Pcs == {"open", "probe", "load", "attach", "new_pb", "new_sendmsg_pb",
        "check_pb", "signal", "while", "poll", "read", "free_pb",
        "free_sendmsg_pb", "destroy", "exit"}

(* Type correctness of main()'s state; the ring being read has at least    *)
(* the records of the snapshot, so a callback never gets memory that the   *)
(* kernel may reuse.                                                       *)
TypeOK ==
    /\ BpfTypeOK
    /\ main \in Pcs
    /\ handler \in BOOLEAN /\ exiting \in BOOLEAN
    /\ err \in {-1, 0, 1}
    /\ status \in {None, 0, 1, 130}
    /\ links \in SUBSET Probes
    /\ polled \in Maps
    /\ ready \in SUBSET CPU
    /\ out \in Events \cup {None}
    /\ handled \in [Maps \X CPU -> Nat]
    /\ lostCount \in [Maps \X CPU -> Nat]
    /\ \/ cursor = None
       \/ /\ cursor.cpu \in CPU
          /\ cursor.head \in 0..Len(rings[Ring])
          /\ cursor.done \in 0..cursor.head

(* No hole in the output goes unreported: when a callback gets sample n of *)
(* a ring, the samples before it were either given to the callback, each   *)
(* once and in order, or counted by handle_lost_events.  A ring that       *)
(* overruns while it is being read does not break the count.               *)
HolesAreReported ==
    [][\A r \in Maps \X CPU :
           handled'[r] # handled[r] =>
               Record.seq = handled[r] + lostCount[r] + 1]_vars

(* Every event output while its array is open is printed, filtered or      *)
(* counted as lost in the end, also when all of them are in the buffer     *)
(* that main() polls second, unless the process ends first: what is in the *)
(* rings then is not read any more.  overrun[r] are the losses that no     *)
(* later sample has announced yet.                                         *)
EveryEventAccounted ==
    \A r \in Maps \X CPU : \A n \in 1..MaxCalls :
        emitted[r] >= n ~>
            (handled[r] + lostCount[r] + overrun[r] >= n \/ status # None)

(* Once sig_int has run, main() leaves its loop and the process ends,      *)
(* wherever the signal met it and however fast events come.                *)
SigintTerminates == exiting ~> status # None

(* "Trace this PID only" (tcp_analyse.c:44): what is printed under -p is   *)
(* about a socket of that process.                                         *)
TracesThisPidOnly == env_pid # 0 /\ out # None => out.owner = env_pid
=============================================================================
