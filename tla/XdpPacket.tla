----------------------------- MODULE XdpPacket -----------------------------
(***************************************************************************)
(* The XDP monitor: the program of xdp/xdp_packet_kern.c on every CPU, the *)
(* ring buffer it shares with the loader, and the loader's main() in       *)
(* xdp/xdp_packet_load.c with the attach and unload code it uses from      *)
(* common/common_user_bpf_xdp.c.                                           *)
(*                                                                         *)
(* An XDP program stays on its device when the process that attached it    *)
(* ends, so every way out of main() matters to the traffic.                *)
(***************************************************************************)
EXTENDS Integers, Sequences

CONSTANTS
    CPU,
    Frame,          \* the frames that arrive
    RING_SIZE,      \* records that fit into packet_ringbuf (1 << 24 bytes)
    MaxPackets,     \* bound: packets that arrive
    None

(* What the program tells packets apart by: how far they parse, for TCP    *)
(* whether the source is 127.0.0.1 and whether a port is 9999.             *)
AllFrames ==
    [parse : {"short_eth", "not_ip", "short_ip", "not_tcp", "short_tcp"},
     lo : {FALSE}, watched : {FALSE}]
    \cup [parse : {"tcp"}, lo : BOOLEAN, watched : BOOLEAN]

ASSUME XdpAssumption ==
    Frame \subseteq AllFrames /\ RING_SIZE \in Nat \ {0} /\ MaxPackets \in Nat

(* A packet, with its number: no two packets are the same.                 *)
Packet == [frame : Frame, id : 1..MaxPackets]

VARIABLES
    arrived,    \* packets that have reached the device
    cpu,        \* [CPU -> the run of xdp_prog: at, packet, place, verdict]
    slots,      \* all records ever reserved: [packet, info, busy]
    cons_pos,   \* consumer position
    prod_pos,   \* producer position as the reader saw it
    got_new_data,
    out,        \* the packet_info that handle_event got last
    line,       \* the packet printed last
    progs,      \* programs on the device: "mine", "other"
    cfg,        \* "load", "unload", "unload_all" or "none"
    rb,         \* ring_buffer__new succeeded
    main, exiting, status

ringVars   == <<slots, cons_pos>>
readerVars == <<prod_pos, got_new_data, out, line>>
kernVars   == <<arrived, cpu>>
loadVars   == <<progs, cfg, rb, main, exiting, status>>
vars       == <<ringVars, readerVars, kernVars, loadVars>>

IdleCpu == [at |-> "idle", packet |-> None, place |-> 0, verdict |-> None]

EXIT_OK          == 0
EXIT_FAIL        == 1
EXIT_FAIL_OPTION == 2
EXIT_FAIL_BPF    == 40
SIGSEGV          == 139

Init ==
    /\ arrived = 0
    /\ cpu = [c \in CPU |-> IdleCpu]
    /\ slots = <<>> /\ cons_pos = 0
    /\ prod_pos = 0 /\ got_new_data = FALSE /\ out = None /\ line = None
    /\ progs \in SUBSET {"other"}
    /\ cfg \in {"load", "unload", "unload_all", "none"}
    /\ rb = FALSE
    /\ main = "signal" /\ exiting = FALSE /\ status = None

-----------------------------------------------------------------------------
(* xdp_prog on a CPU.                                                      *)

(* The verdict of the parser, or "reserve" for a whole TCP header.         *)
Parse(frame) ==
    CASE frame.parse \in {"short_eth", "short_ip", "short_tcp"} -> "XDP_ABORTED"
      [] frame.parse \in {"not_ip", "not_tcp"} -> "XDP_PASS"
      [] OTHER -> "reserve"

Verdict(c, packet, v) ==
    cpu' = [cpu EXCEPT ![c] = [IdleCpu EXCEPT !.packet = packet, !.verdict = v]]

xdp_prog(c, frame) ==
    LET packet == [frame |-> frame, id |-> arrived + 1]
    IN  /\ "mine" \in progs /\ cpu[c].at = "idle" /\ arrived < MaxPackets
        /\ arrived' = arrived + 1
        /\ IF Parse(frame) = "reserve"
           THEN cpu' = [cpu EXCEPT ![c] =
                    [IdleCpu EXCEPT !.at = "reserve", !.packet = packet]]
           ELSE Verdict(c, packet, Parse(frame))
        /\ UNCHANGED <<ringVars, readerVars, loadVars>>

(* The memory of a new record holds what an older one left there: the      *)
(* program has not written its packet_info yet.                            *)
bpf_ringbuf_reserve(c) ==
    /\ cpu[c].at = "reserve"
    /\ IF Len(slots) - cons_pos < RING_SIZE
       THEN /\ slots' = Append(slots, [packet |-> cpu[c].packet, info |-> None,
                                       busy |-> TRUE])
            /\ cpu' = [cpu EXCEPT ![c].at = "fill", ![c].place = Len(slots) + 1]
       ELSE Verdict(c, cpu[c].packet, "XDP_ABORTED") /\ UNCHANGED slots
    /\ UNCHANGED <<arrived, cons_pos, readerVars, loadVars>>

Fill(c) ==
    /\ cpu[c].at = "fill"
    /\ slots' = [slots EXCEPT ![cpu[c].place].info = cpu[c].packet]
    /\ cpu' = [cpu EXCEPT ![c].at = "submit"]
    /\ UNCHANGED <<arrived, cons_pos, readerVars, loadVars>>

bpf_ringbuf_submit(c) ==
    /\ cpu[c].at = "submit"
    /\ slots' = [slots EXCEPT ![cpu[c].place].busy = FALSE]
    /\ Verdict(c, cpu[c].packet, "XDP_PASS")
    /\ UNCHANGED <<arrived, cons_pos, readerVars, loadVars>>

ProgStep(c) == bpf_ringbuf_reserve(c) \/ Fill(c) \/ bpf_ringbuf_submit(c)

-----------------------------------------------------------------------------
(* main() of the loader.                                                   *)

At(pc) == main = pc /\ status = None
Goto(pc) == main' = pc /\ UNCHANGED status
Exit(code) == main' = "exit" /\ status' = code

(* A step of main() that leaves ring, reader and programs alone.           *)
Quiet == UNCHANGED <<ringVars, readerVars, kernVars, cfg, exiting>>

InstallHandler ==
    /\ At("signal")
    /\ Goto("options") \/ Exit(1)
    /\ Quiet /\ UNCHANGED <<progs, rb>>

Options ==
    /\ At("options")
    /\ CASE cfg = "none" -> Exit(EXIT_FAIL_OPTION)
         [] cfg = "load" -> Goto("create")
         [] OTHER        -> Goto("unload")
    /\ Quiet /\ UNCHANGED <<progs, rb>>

(* do_unload fails when libxdp does, when the device has no program, and   *)
(* when the one that was asked for is not there.                           *)
do_unload(wanted, ok) ==
    \/ /\ ok /\ wanted \cap progs # {}
       /\ progs' = progs \ wanted
    \/ ~ ok /\ UNCHANGED progs

UnloadOption ==
    /\ At("unload")
    /\ \E ok \in BOOLEAN :
           /\ do_unload(IF cfg = "unload_all" THEN progs ELSE {"other"}, ok)
           /\ Exit(IF ok THEN EXIT_OK ELSE EXIT_FAIL)
    /\ Quiet /\ UNCHANGED rb

xdp_program__create ==
    /\ At("create")
    /\ Goto("attach") \/ Exit(EXIT_FAIL_BPF)
    /\ Quiet /\ UNCHANGED <<progs, rb>>

(* exit(err) with the negative err of libxdp: some status other than 0.    *)
xdp_program__attach ==
    /\ At("attach")
    /\ \/ Goto("fd") /\ progs' = progs \cup {"mine"}
       \/ Exit(EXIT_FAIL) /\ UNCHANGED progs
    /\ Quiet /\ UNCHANGED rb

(* xdp_program__fd and find_map_fd: both ways out leave the program there. *)
GetFds ==
    /\ At("fd")
    /\ Goto("new") \/ Exit(EXIT_FAIL_BPF)
    /\ Quiet /\ UNCHANGED <<progs, rb>>

(* NULL is reported, and main() goes on.                                   *)
ring_buffer__new ==
    /\ At("new")
    /\ rb' \in BOOLEAN
    /\ Goto("while")
    /\ Quiet /\ UNCHANGED progs

(* Mutant: the loop does not look at the flag.                             *)
WhileTrue ==
    /\ At("while")
    /\ Goto("epoll")
    /\ Quiet /\ UNCHANGED <<progs, rb>>

While ==
    /\ At("while")
    /\ Goto(IF exiting THEN "free" ELSE "epoll")
    /\ Quiet /\ UNCHANGED <<progs, rb>>

(* Mutant: only data that came after the last look wakes the reader.       *)
EpollWaitEdge ==
    /\ At("epoll")
    /\ IF ~ rb THEN Exit(SIGSEGV)
       ELSE \/ Len(slots) > prod_pos /\ Goto("snapshot")
            \/ Len(slots) <= prod_pos /\ Goto("while")
            \/ Goto("free")
    /\ Quiet /\ UNCHANGED <<progs, rb>>

(* ring_buffer__poll: records, a time-out, EINTR, another error; a NULL    *)
(* ring_buffer is dereferenced.                                            *)
EpollWait ==
    /\ At("epoll")
    /\ IF ~ rb THEN Exit(SIGSEGV)
       ELSE \/ Len(slots) > cons_pos /\ Goto("snapshot")
            \/ Len(slots) = cons_pos /\ Goto("while")
            \/ Goto("free")
    /\ Quiet /\ UNCHANGED <<progs, rb>>

(* ringbuf_process_ring: records up to the producer position just read, as *)
(* long as they are committed, and again when there were any.              *)
Snapshot ==
    /\ At("snapshot")
    /\ prod_pos' = Len(slots) /\ got_new_data' = FALSE
    /\ Goto("process")
    /\ UNCHANGED <<ringVars, kernVars, out, line, progs, cfg, rb, exiting>>

ProcessDone ==
    /\ At("process")
    /\ IF cons_pos = prod_pos
       THEN Goto(IF got_new_data THEN "snapshot" ELSE "while")
       ELSE slots[cons_pos + 1].busy /\ Goto("while")
    /\ Quiet /\ UNCHANGED <<progs, rb>>

stats_print(info) == IF info # None /\ info.frame.lo /\ info.frame.watched
                     THEN info ELSE line

(* Mutant: cons_pos <= prod_pos in the loop over the records.              *)
handle_event_OneMore ==
    LET slot == slots[cons_pos + 1]
    IN  /\ At("process") /\ cons_pos <= prod_pos
        /\ cons_pos < Len(slots) /\ ~ slot.busy
        /\ out' = slot.info
        /\ line' = stats_print(slot.info)
        /\ cons_pos' = cons_pos + 1 /\ got_new_data' = TRUE
        /\ UNCHANGED <<slots, prod_pos, kernVars, loadVars>>

(* Mutant: the busy bit is not looked at.                                  *)
handle_event_Busy ==
    LET slot == slots[cons_pos + 1]
    IN  /\ At("process") /\ cons_pos < prod_pos
        /\ out' = slot.info
        /\ line' = stats_print(slot.info)
        /\ cons_pos' = cons_pos + 1 /\ got_new_data' = TRUE
        /\ UNCHANGED <<slots, prod_pos, kernVars, loadVars>>

handle_event ==
    LET slot == slots[cons_pos + 1]
    IN  /\ At("process") /\ cons_pos < prod_pos /\ ~ slot.busy
        /\ out' = slot.info
        /\ line' = stats_print(slot.info)
        /\ cons_pos' = cons_pos + 1 /\ got_new_data' = TRUE
        /\ UNCHANGED <<slots, prod_pos, kernVars, loadVars>>

ring_buffer__free ==
    /\ At("free")
    /\ Goto("unload_mine")
    /\ Quiet /\ UNCHANGED <<progs, rb>>

(* cfg.unload_all is set: every program of the device.  do_unload returns  *)
(* 0 or 1, so main() returns EXIT_OK in both cases.                        *)
UnloadAtExit ==
    /\ At("unload_mine")
    /\ \E ok \in BOOLEAN : do_unload(progs, ok)
    /\ Exit(EXIT_OK)
    /\ Quiet /\ UNCHANGED rb

sig_int ==
    /\ main # "signal" /\ status = None
    /\ exiting' = TRUE
    /\ UNCHANGED <<ringVars, readerVars, kernVars, progs, cfg, rb, main, status>>

Loader ==
    \/ InstallHandler \/ Options \/ UnloadOption
    \/ xdp_program__create \/ xdp_program__attach \/ GetFds \/ ring_buffer__new
    \/ While \/ EpollWait \/ Snapshot \/ ProcessDone \/ handle_event
    \/ ring_buffer__free \/ UnloadAtExit

Next ==
    \/ \E c \in CPU : ProgStep(c) \/ \E frame \in Frame : xdp_prog(c, frame)
    \/ Loader
    \/ sig_int

(* A program runs to its end; the process is scheduled, and epoll_wait     *)
(* returns after 100 ms.                                                   *)
Spec ==
    /\ Init /\ [][Next]_vars
    /\ WF_vars(Loader)
    /\ \A c \in CPU : WF_vars(ProgStep(c))

-----------------------------------------------------------------------------
(* Properties.                                                             *)

(* Type correctness; the reader is never ahead of the records it has seen, *)
(* and a program that fills or submits a record has one.                   *)
TypeOK ==
    /\ arrived \in 0..MaxPackets
    /\ cpu \in [CPU -> [at : {"idle", "reserve", "fill", "submit"},
                        packet : Packet \cup {None}, place : 0..MaxPackets,
                        verdict : {"XDP_ABORTED", "XDP_PASS", None}]]
    /\ slots \in Seq([packet : Packet, info : Packet \cup {None}, busy : BOOLEAN])
    /\ \A c \in CPU : cpu[c].at \in {"fill", "submit"} =>
           cpu[c].place \in 1..Len(slots)
    /\ cons_pos \in 0..Len(slots) /\ prod_pos \in 0..Len(slots)
    /\ At("process") => cons_pos <= prod_pos
    /\ got_new_data \in BOOLEAN
    /\ out \in Packet \cup {None} /\ line \in Packet \cup {None}
    /\ progs \in SUBSET {"mine", "other"}
    /\ cfg \in {"load", "unload", "unload_all", "none"}
    /\ rb \in BOOLEAN /\ exiting \in BOOLEAN
    /\ main \in {"signal", "options", "unload", "create", "attach", "fd", "new",
                 "while", "epoll", "snapshot", "process", "free",
                 "unload_mine", "exit"}
    /\ status \in {None, EXIT_OK, EXIT_FAIL, EXIT_FAIL_OPTION, EXIT_FAIL_BPF,
                   SIGSEGV}

(* The records between the two positions, as the packets they are for.     *)
Waiting == [i \in 1..(Len(slots) - cons_pos) |-> slots[cons_pos + i].packet]

Fifo == INSTANCE PacketFifo WITH Size <- RING_SIZE, queue <- Waiting

(* handle_event gets every reserved packet exactly once, whole, and in the *)
(* order of the reservations, although several CPUs reserve, fill and      *)
(* submit at the same time and the reader works from an old position.      *)
RingIsFifo == Fifo!Spec

(* A packet that got its record is handled in the end, also when the       *)
(* reader met it busy and left, unless the loader stops.                   *)
EveryPacketHandled ==
    \A n \in 1..MaxPackets :
        Len(slots) >= n ~> (cons_pos >= n \/ status # None)

(* The reader is in ringbuf_process_ring.                                  *)
InRing == main \in {"snapshot", "process"}

(* SIGINT ends the loader from any point of main(), or the loader stays in *)
(* ringbuf_process_ring for ever: the flag is tested only after the ring   *)
(* was found empty or its next record busy, and the time-out of            *)
(* ring_buffer__poll does not limit the time spent there.                  *)
SigintTerminates == (exiting ~> status # None) \/ <>[]InRing

(* "it will auto unload xdp prog auto ctrl-c" (readme.md:79).              *)
UnloadsOnCtrlC == exiting /\ status # None => "mine" \notin progs

(* "the xdp program just listens the src_port = 9999 or dst_port = 9999"   *)
(* (readme.md:89): whole TCP packets of other ports pass.                  *)
JustListens ==
    \A c \in CPU :
        cpu[c].verdict = "XDP_ABORTED" /\ cpu[c].packet.frame.parse = "tcp" =>
            cpu[c].packet.frame.watched
=============================================================================
