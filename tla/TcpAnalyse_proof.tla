-------------------------- MODULE TcpAnalyse_proof --------------------------
(***************************************************************************)
(* Proofs about the whole client tracer: main() of tcp_analyse.c is one of *)
(* the users of the kernel's side that BpfSpec allows, so what is proved   *)
(* of the kernel's side holds of the tracer.                               *)
(***************************************************************************)
EXTENDS TcpAnalyse, TcpAnalyseBpf_proof

-----------------------------------------------------------------------------
(* The inductive invariant.                                                *)

UserTypes ==
    /\ main \in Pcs
    /\ handler \in BOOLEAN /\ exiting \in BOOLEAN
    /\ err \in {-1, 0, 1}
    /\ status \in {None, 0, 1, 130}
    /\ links \in SUBSET Probes
    /\ polled \in Maps
    /\ ready \in SUBSET CPU
    /\ out \in Events \cup {None}
    /\ handled \in [Maps \X CPU -> Nat]
    /\ lostCount \in [Maps \X CPU -> Nat]

(* A ring is read only in the loop, where SIGINT no longer kills, so the   *)
(* records of the snapshot stay until the reader gives them back.          *)
Reading ==
    /\ main \in {"while", "poll", "read"} => handler
    /\ cursor # None =>
           /\ main = "read"
           /\ cursor \in [cpu : CPU, head : Nat, done : Nat]
           /\ cursor.head <= Len(rings[Ring])
           /\ cursor.done <= cursor.head

TracerInv == BpfTypeOK /\ UserTypes /\ Reading

LEMMA InvImpliesType == TracerInv => TypeOK
<1> SUFFICES ASSUME TracerInv, cursor # None
             PROVE  /\ cursor.cpu \in CPU
                    /\ cursor.head \in 0..Len(rings[Ring])
                    /\ cursor.done \in 0..cursor.head
  BY DEF TracerInv, UserTypes, TypeOK
<1>1. cursor \in [cpu : CPU, head : Nat, done : Nat]
  BY DEF TracerInv, Reading
<1>2. Ring \in Maps \X CPU
  BY <1>1 DEF Ring, TracerInv, UserTypes
<1>3. Len(rings[Ring]) \in Nat
  BY <1>2 DEF TracerInv, BpfTypeOK
<1>4. QED
  BY <1>1, <1>3 DEF TracerInv, Reading

-----------------------------------------------------------------------------
(* Every step of the tracer is a step that BpfSpec allows.                 *)

LEMMA RingFacts ==
    ASSUME TracerInv, cursor # None
    PROVE  /\ Ring \in Maps \X CPU
           /\ rings[Ring] \in Seq(Records)
           /\ cursor \in [cpu : CPU, head : Nat, done : Nat]
           /\ cursor.head \in 0..Len(rings[Ring])
<1>1. cursor \in [cpu : CPU, head : Nat, done : Nat]
  BY DEF TracerInv, Reading
<1>2. Ring \in Maps \X CPU
  BY <1>1 DEF Ring, TracerInv, UserTypes
<1>3. rings[Ring] \in Seq(Records)
  BY <1>2 DEF TracerInv, BpfTypeOK
<1>4. QED
  BY <1>1, <1>2, <1>3 DEF TracerInv, Reading

LEMMA MainAllowed ==
    ASSUME TracerInv, Main
    PROVE  UserSpace \/ UNCHANGED bpfVars
<1>1. ASSUME NEW i \in 1..Len(SkeletonProgs), AttachLink(i)
      PROVE  UserSpace \/ UNCHANGED bpfVars
  <2>1. SkeletonProgs[i] \in Probes
    BY DEF SkeletonProgs, Probes
  <2>2. QED
    BY <1>1, <2>1 DEF AttachLink, UserSpace
<1>2. ASSUME NEW m \in Maps, perf_buffer__new(m)
      PROVE  UserSpace \/ UNCHANGED bpfVars
  BY <1>2 DEF perf_buffer__new, UserSpace
<1>3. CASE NewPb \/ NewSendmsgPb
  BY <1>2, <1>3 DEF NewPb, NewSendmsgPb, Maps
<1>4. CASE WriteTail
  BY <1>4, RingFacts DEF WriteTail, UserSpace
<1>5. CASE FreePb \/ FreeSendmsgPb
  BY <1>5 DEF FreePb, FreeSendmsgPb, Maps, UserSpace
<1>6. CASE tcp_analyse_bpf__destroy
  BY <1>6 DEF tcp_analyse_bpf__destroy, UserSpace
<1>7. CASE \/ tcp_analyse_bpf__open \/ fentry_can_attach \/ tcp_analyse_bpf__load
           \/ AttachDone \/ CheckPb \/ InstallHandler \/ While
           \/ EpollReady \/ EpollNothing \/ EpollFails \/ RingsRead
           \/ (\E cpu \in CPU : ReadHead(cpu))
  BY <1>7 DEF tcp_analyse_bpf__open, fentry_can_attach, tcp_analyse_bpf__load,
              AttachDone, CheckPb, InstallHandler, While, EpollReady,
              EpollNothing, EpollFails, RingsRead, ReadHead
<1>8. CASE handle_event \/ handle_tcp_sendmsg_event \/ handle_lost_events
  BY <1>8 DEF handle_event, handle_tcp_sendmsg_event, Callback, handle_lost_events
<1>9. QED
  BY <1>1, <1>3, <1>4, <1>5, <1>6, <1>7, <1>8 DEF Main

LEMMA StepAllowed == TracerInv /\ [Next]_vars => [BpfNext]_bpfVars
<1> SUFFICES ASSUME TracerInv, [Next]_vars PROVE [BpfNext]_bpfVars
  OBVIOUS
<1>1. CASE Main
  BY <1>1, MainAllowed DEF BpfNext
<1>2. CASE Kernel
  BY <1>2 DEF Kernel, BpfNext
<1>3. CASE sig_int
  BY <1>3 DEF sig_int
<1>4. CASE SigintKills
  BY <1>4 DEF SigintKills, BpfNext, UserSpace
<1>5. CASE UNCHANGED vars
  BY <1>5 DEF vars
<1>6. QED
  BY <1>1, <1>2, <1>3, <1>4, <1>5 DEF Next

-----------------------------------------------------------------------------
(* The invariant is preserved.                                             *)

(* The kernel only adds records to a ring.                                 *)
LEMMA KernelOnlyAppends ==
    ASSUME BpfTypeOK, KernelStep, NEW r \in Maps \X CPU
    PROVE  Len(rings[r]) <= Len(rings'[r])
<1>1. rings[r] \in Seq(Records)
  BY DEF BpfTypeOK
<1>2. ASSUME NEW c \in Ctx, Output(c)
      PROVE  Len(rings[r]) <= Len(rings'[r])
  <2> DEFINE q == RingOf(c)
             e == frame[c].event
  <2>1. e \in Events
    BY <1>2, FrameRunning DEF Output, Running
  <2>2. q \in Maps \X CPU
    BY BpfAssumption DEF RingOf, Maps
  <2>3. rings[q] \in Seq(Records) /\ Sample(q, e) \in Records
        /\ (overrun[q] > 0 => LostRecord(q) \in Records)
    BY <2>1, <2>2, RecordTypes DEF BpfTypeOK
  <2>4. bpf_perf_event_output(q, e)
    BY <1>2 DEF Output
  <2> HIDE DEF q, e
  <2> DEFINE new == (IF overrun[q] > 0 THEN Append(rings[q], LostRecord(q))
                     ELSE rings[q]) \o <<Sample(q, e)>>
  <2>5. Len(rings[q]) <= Len(new)
    BY <2>3
  <2>6. rings' = rings \/ rings' = [rings EXCEPT ![q] = new]
    BY <2>4 DEF bpf_perf_event_output
  <2> HIDE DEF new
  <2>7. rings \in [Maps \X CPU -> Seq(Records)]
    BY DEF BpfTypeOK
  <2>8. QED
    BY <1>1, <2>2, <2>5, <2>6, <2>7
<1>3. ASSUME UNCHANGED rings
      PROVE  Len(rings[r]) <= Len(rings'[r])
  BY <1>1, <1>3
<1>4. (\E c \in Ctx : Output(c)) \/ UNCHANGED rings
  BY DEF KernelStep, KernelNext, Program, Stack, handle_tcp_v4_connect,
         handle_tcp_sendmsg, handle_tcp_rcv_state_process, UpdateConnect,
         LookupConnect, DeleteConnect, Body, SockAlloc, SockFree,
         ConnectTimeout, Shutdown, tcp_v6_connect, SockStep, Tick
<1>5. QED
  BY <1>2, <1>3, <1>4

(* A step that neither begins to read a ring nor is in one.                *)
LEMMA NotReading ==
    ASSUME Reading, cursor = None, cursor' = None,
           main' \in {"while", "poll", "read"} => handler'
    PROVE  Reading'
BY DEF Reading

(* The callbacks and handle_lost_events get whole records.                 *)
LEMMA RecordFacts ==
    ASSUME TracerInv, InRing
    PROVE  /\ Record \in Records
           /\ cursor.done + 1 \in 1..cursor.head
           /\ cursor' = [cursor EXCEPT !.done = @ + 1] =>
                  /\ cursor' \in [cpu : CPU, head : Nat, done : Nat]
                  /\ cursor'.cpu = cursor.cpu /\ cursor'.head = cursor.head
                  /\ cursor'.done = cursor.done + 1
<1>1. cursor # None /\ cursor.done < cursor.head
  BY DEF InRing
<1>2. /\ rings[Ring] \in Seq(Records)
      /\ cursor \in [cpu : CPU, head : Nat, done : Nat]
      /\ cursor.head \in 0..Len(rings[Ring])
  BY <1>1, RingFacts
<1>3. cursor.done \in Nat /\ cursor.head \in Nat
  BY <1>2
<1>4. cursor.done + 1 \in 1..cursor.head
  BY <1>1, <1>3
<1>5. Record \in Records
  BY <1>2, <1>4 DEF Record
<1>6. QED
  BY <1>2, <1>3, <1>4, <1>5

LEMMA SetUpInv ==
    ASSUME TracerInv,
           \/ tcp_analyse_bpf__open \/ fentry_can_attach \/ tcp_analyse_bpf__load
           \/ (\E i \in 1..Len(SkeletonProgs) : AttachLink(i))
           \/ AttachDone \/ NewPb \/ NewSendmsgPb \/ CheckPb \/ InstallHandler
    PROVE  UserTypes' /\ Reading'
<1> USE DEF At, Goto, Fail, Return, pollVars, UserTypes, Pcs
<1>1. UserTypes /\ Reading
  BY DEF TracerInv
<1>2. main # "read" /\ cursor' = cursor
  BY DEF tcp_analyse_bpf__open, fentry_can_attach, tcp_analyse_bpf__load,
         AttachLink, AttachDone, NewPb, NewSendmsgPb, CheckPb, InstallHandler,
         perf_buffer__new
<1>3. main' \in {"while", "poll", "read"} => handler'
  BY DEF tcp_analyse_bpf__open, fentry_can_attach, tcp_analyse_bpf__load,
         AttachLink, AttachDone, NewPb, NewSendmsgPb, CheckPb, InstallHandler
<1>4. Reading'
  BY <1>1, <1>2, <1>3, NotReading DEF Reading
<1>5. CASE tcp_analyse_bpf__open \/ tcp_analyse_bpf__load \/ AttachDone
  BY <1>1, <1>4, <1>5 DEF tcp_analyse_bpf__open, tcp_analyse_bpf__load, AttachDone
<1>6. CASE fentry_can_attach
  BY <1>1, <1>4, <1>6 DEF fentry_can_attach
<1>7. CASE \E i \in 1..Len(SkeletonProgs) : AttachLink(i)
  BY <1>1, <1>4, <1>7 DEF AttachLink
<1>8. CASE NewPb \/ NewSendmsgPb
  BY <1>1, <1>4, <1>8 DEF NewPb, NewSendmsgPb, perf_buffer__new
<1>9. CASE CheckPb
  BY <1>1, <1>4, <1>9 DEF CheckPb
<1>10. CASE InstallHandler
  BY <1>1, <1>4, <1>10 DEF InstallHandler
<1>11. QED
  BY <1>5, <1>6, <1>7, <1>8, <1>9, <1>10

LEMMA LoopInv ==
    ASSUME TracerInv,
           While \/ EpollReady \/ EpollNothing \/ EpollFails \/ RingsRead
    PROVE  UserTypes' /\ Reading'
<1> USE DEF At, Goto, Fail, pollVars, UserTypes, Pcs, PollReturns
<1>1. UserTypes /\ Reading
  BY DEF TracerInv
<1>2. cursor = None /\ cursor' = None
  BY <1>1 DEF While, EpollReady, EpollNothing, EpollFails, RingsRead, Reading
<1>3. handler' = handler /\ main \in {"while", "poll", "read"}
  BY DEF While, EpollReady, EpollNothing, EpollFails, RingsRead
<1>4. Reading'
  BY <1>1, <1>2, <1>3, NotReading DEF Reading
<1>5. CASE While \/ EpollFails
  BY <1>1, <1>4, <1>5 DEF While, EpollFails, Maps
<1>6. CASE EpollReady
  BY <1>1, <1>4, <1>6 DEF EpollReady, NonEmpty
<1>7. CASE EpollNothing \/ RingsRead
  BY <1>1, <1>4, <1>7 DEF EpollNothing, RingsRead, Maps
<1>8. QED
  BY <1>5, <1>6, <1>7

LEMMA ReadInv ==
    ASSUME TracerInv,
           \/ (\E cpu \in CPU : ReadHead(cpu))
           \/ handle_event \/ handle_tcp_sendmsg_event \/ handle_lost_events
           \/ WriteTail
    PROVE  UserTypes' /\ Reading'
<1>1. UserTypes /\ Reading /\ BpfTypeOK
  BY DEF TracerInv
<1>2. ASSUME NEW cpu \in CPU, ReadHead(cpu)
      PROVE  UserTypes' /\ Reading'
  <2>1. <<polled, cpu>> \in Maps \X CPU /\ Len(rings[<<polled, cpu>>]) \in Nat
    BY <1>1 DEF UserTypes, BpfTypeOK
  <2>2. UNCHANGED <<rings, main, handler, polled>>
    BY <1>2 DEF ReadHead, bpfVars, kernelVars
  <2>3. Reading'
    BY <1>1, <1>2, <2>1, <2>2 DEF ReadHead, Reading, Ring, At
  <2>4. QED
    BY <1>1, <1>2, <2>3 DEF ReadHead, UserTypes
<1>3. ASSUME InRing, cursor' = [cursor EXCEPT !.done = @ + 1],
             UNCHANGED <<rings, main, handler, polled>>
      PROVE  Reading'
  <2>1. Ring' = Ring
    BY <1>3, RecordFacts DEF Ring
  <2>2. cursor'.done <= cursor'.head
    BY <1>3, RecordFacts
  <2>3. QED
    BY <1>1, <1>3, <2>1, <2>2, RecordFacts DEF Reading, InRing
<1>4. CASE Callback
  <2>1. UNCHANGED <<rings, main, handler, polled>>
    BY <1>4 DEF Callback, bpfVars, kernelVars
  <2>2. Reading'
    BY <1>3, <1>4, <2>1 DEF Callback
  <2>3. Record.event \in Events
    BY <1>4, RecordFacts DEF Callback, Records, Samples
  <2>4. Ring \in Maps \X CPU
    BY <1>4, RingFacts DEF Callback, InRing
  <2>5. handled[Ring] + 1 \in Nat
    BY <1>1, <2>4 DEF UserTypes
  <2>6. QED
    BY <1>1, <1>4, <2>2, <2>3, <2>4, <2>5, ExceptType DEF Callback, UserTypes
<1>5. CASE handle_lost_events
  <2>1. UNCHANGED <<rings, main, handler, polled>>
    BY <1>5 DEF handle_lost_events, bpfVars, kernelVars
  <2>2. Reading'
    BY <1>3, <1>5, <2>1 DEF handle_lost_events
  <2>3. Record.lost \in Nat
    BY <1>5, RecordFacts DEF handle_lost_events, Records, Samples
  <2>4. Ring \in Maps \X CPU
    BY <1>5, RingFacts DEF handle_lost_events, InRing
  <2>5. lostCount[Ring] + Record.lost \in Nat
    BY <1>1, <2>3, <2>4 DEF UserTypes
  <2>6. QED
    BY <1>1, <1>5, <2>2, <2>4, <2>5, ExceptType DEF handle_lost_events, UserTypes
<1>6. CASE WriteTail
  BY <1>1, <1>6 DEF WriteTail, Reading, UserTypes
<1>7. QED
  BY <1>2, <1>4, <1>5, <1>6 DEF handle_event, handle_tcp_sendmsg_event

LEMMA EndInv ==
    ASSUME TracerInv, \/ FreePb \/ FreeSendmsgPb \/ tcp_analyse_bpf__destroy
                      \/ sig_int \/ SigintKills
    PROVE  UserTypes' /\ Reading'
<1> USE DEF At, Goto, Return, pollVars, Pcs
<1>1. UserTypes /\ Reading
  BY DEF TracerInv
<1>2. CASE FreePb \/ FreeSendmsgPb \/ tcp_analyse_bpf__destroy \/ SigintKills
  <2>1. main \notin {"while", "poll", "read"} /\ cursor' = cursor
    BY <1>1, <1>2 DEF FreePb, FreeSendmsgPb, tcp_analyse_bpf__destroy, SigintKills,
                      Reading
  <2>2. main' \notin {"while", "poll", "read"}
    BY <1>2 DEF FreePb, FreeSendmsgPb, tcp_analyse_bpf__destroy, SigintKills
  <2>3. Reading'
    BY <1>1, <2>1, <2>2, NotReading DEF Reading
  <2>4. UserTypes'
    BY <1>1, <1>2 DEF FreePb, FreeSendmsgPb, tcp_analyse_bpf__destroy, SigintKills,
                      UserTypes
  <2>5. QED
    BY <2>3, <2>4
<1>3. CASE sig_int
  <2>1. UNCHANGED rings
    BY <1>3 DEF sig_int, bpfVars, kernelVars
  <2>2. QED
    BY <1>1, <1>3, <2>1 DEF sig_int, UserTypes, Reading, Ring
<1>4. QED
  BY <1>2, <1>3

LEMMA KernelInv ==
    ASSUME TracerInv, Kernel
    PROVE  UserTypes' /\ Reading'
<1>1. UserTypes /\ Reading /\ BpfTypeOK /\ BpfTypeOK'
  BY TypeNext DEF TracerInv, Kernel, BpfNext
<1>2. UNCHANGED userVars
  BY DEF Kernel
<1>3. UserTypes'
  BY <1>1, <1>2 DEF userVars, UserTypes
<1>4. ASSUME cursor # None
      PROVE  cursor.head <= Len(rings'[Ring])
  <2>1. Ring \in Maps \X CPU /\ cursor.head \in Nat /\ Len(rings[Ring]) \in Nat
    BY <1>4, RingFacts
  <2>2. Len(rings'[Ring]) \in Nat
    BY <1>1, <2>1 DEF BpfTypeOK
  <2>3. Len(rings[Ring]) <= Len(rings'[Ring])
    BY <1>1, <2>1, KernelOnlyAppends DEF Kernel
  <2>4. cursor.head <= Len(rings[Ring])
    BY <1>1, <1>4 DEF Reading
  <2>5. QED
    BY <2>1, <2>2, <2>3, <2>4
<1>5. Ring' = Ring
  BY <1>2 DEF userVars, Ring
<1>6. Reading'
  BY <1>1, <1>2, <1>4, <1>5 DEF userVars, Reading
<1>7. QED
  BY <1>3, <1>6

LEMMA TracerInvInit == Init => TracerInv
<1> SUFFICES ASSUME Init PROVE TracerInv
  OBVIOUS
<1>1. BpfTypeOK
  BY TypeInit DEF Init
<1>2. UserTypes /\ Reading
  BY DEF Init, UserTypes, Reading, Pcs, Maps
<1>3. QED
  BY <1>1, <1>2 DEF TracerInv

LEMMA TracerInvNext == TracerInv /\ [Next]_vars => TracerInv'
<1> SUFFICES ASSUME TracerInv, [Next]_vars PROVE TracerInv'
  OBVIOUS
<1>1. BpfTypeOK'
  BY StepAllowed, TypeNext DEF TracerInv
<1>2. CASE Main
  BY <1>1, <1>2, SetUpInv, LoopInv, ReadInv, EndInv DEF Main, TracerInv
<1>3. CASE Kernel
  BY <1>1, <1>3, KernelInv DEF TracerInv
<1>4. CASE sig_int \/ SigintKills
  BY <1>1, <1>4, EndInv DEF TracerInv
<1>5. CASE UNCHANGED vars
  <2>1. UserTypes' /\ Reading'
    BY <1>5 DEF vars, bpfVars, kernelVars, userVars, TracerInv, UserTypes,
                Reading, Ring
  <2>2. QED
    BY <1>1, <2>1 DEF TracerInv
<1>6. QED
  BY <1>2, <1>3, <1>4, <1>5 DEF Next

-----------------------------------------------------------------------------
(* The tracer keeps its types, and no callback gets a record that the      *)
(* kernel may overwrite: the ring being read holds the whole snapshot.     *)
THEOREM TypeCorrect == Spec => []TypeOK
<1>1. Spec => []TracerInv
  BY TracerInvInit, TracerInvNext, PTL DEF Spec
<1>2. QED
  BY <1>1, InvImpliesType, PTL

(* The tracer implements the kernel's side under an arbitrary user: main() *)
(* attaches, opens, reads, closes and detaches as BpfSpec allows, and a    *)
(* kill by SIGINT only releases what the process had.                      *)
THEOREM TracerImplementsBpf == Spec => BpfSpec
<1>1. Init => BpfInit
  BY DEF Init
<1>2. QED
  BY <1>1, TracerInvInit, TracerInvNext, StepAllowed, PTL DEF Spec, BpfSpec

(* So every connect time that tcp_analyse computes is the right one, in    *)
(* every state of main() and for every value of the constants.             *)
THEOREM TracerConnectTimeIsSound == Spec => []ConnectTimeSound
BY TracerImplementsBpf, ConnectTimeIsSound, PTL

-----------------------------------------------------------------------------
(* No hole goes unreported.  Number the samples of a ring from the first   *)
(* one after the array was opened; a record stands for one of them, or for *)
(* the ones it says are lost.                                              *)

Size(rec) == IF rec.lost = 0 THEN 1 ELSE rec.lost

(* Records of the ring that the reader has already handled.                *)
Done(r) == IF cursor # None /\ Ring = r THEN cursor.done ELSE 0

(* The records of a ring have numbers: B[i] samples come before record i.  *)
Chain(s, B) ==
    \A i \in 1..Len(s) :
        B[i + 1] = B[i] + Size(s[i]) /\ (s[i].lost = 0 => s[i].seq = B[i] + 1)

(* The reader has accounted for the samples before its next record; those  *)
(* before the next record of the kernel are the ones that were output less *)
(* the ones that are lost and not yet announced.                           *)
Numbers(r, B) ==
    /\ Chain(rings[r], B)
    /\ B[Len(rings[r]) + 1] + overrun[r] = emitted[r]
    /\ B[Done(r) + 1] = handled[r] + lostCount[r]

Numbered(r) ==
    \E B \in [1..(Len(rings[r]) + 1) -> 0..emitted[r]] : Numbers(r, B)

Fresh(r) ==
    /\ rings[r] = <<>> /\ overrun[r] = 0 /\ emitted[r] = 0
    /\ handled[r] = 0 /\ lostCount[r] = 0

(* An array is opened once, before anything was output to it.              *)
Early == {"open", "probe", "load", "attach", "new_pb"}

OpenedOnce ==
    /\ main \in Early => opened = {}
    /\ main = "new_sendmsg_pb" => opened \subseteq {"events"}
    /\ main \in Early \cup {"new_sendmsg_pb"} =>
           \A r \in Maps \X CPU : r[1] \notin opened => Fresh(r)

Numbering == \A r \in Maps \X CPU : r[1] \in opened => Numbered(r)

LoopOpen == main \in {"signal", "while", "poll", "read"} => opened = Maps

HoleInv == TracerInv /\ OpenedOnce /\ LoopOpen /\ Numbering

LEMMA SizeType ==
    ASSUME NEW rec \in Records
    PROVE  Size(rec) \in Nat /\ rec.lost \in Nat
BY DEF Records, Samples, Size

(* B numbers the n records of s with numbers up to m.                      *)
HasNumbers(s, n, m, B) ==
    /\ s \in Seq(Records) /\ n \in Nat /\ n = Len(s) /\ m \in Nat
    /\ B \in [1..(n + 1) -> 0..m] /\ Chain(s, B)

(* A record at the end gets the next number.                               *)
CanAppend(s, n, m, B, rec, M) ==
    /\ HasNumbers(s, n, m, B) /\ rec \in Records /\ M \in Nat /\ m <= M
    /\ B[n + 1] + Size(rec) <= M /\ (rec.lost = 0 => rec.seq = B[n + 1] + 1)

Appended(s, n, B, rec, M, C) ==
    /\ HasNumbers(Append(s, rec), n + 1, M, C) /\ C[n + 2] = B[n + 1] + Size(rec)
    /\ \A i \in 1..(n + 1) : C[i] = B[i]

LEMMA ChainAppend ==
    ASSUME NEW s, NEW n, NEW m, NEW B, NEW rec, NEW M, CanAppend(s, n, m, B, rec, M)
    PROVE  \E C : Appended(s, n, B, rec, M, C)
<1> USE DEF CanAppend
<1> PICK b : b = B[n + 1]
  OBVIOUS
<1> PICK t : t = Append(s, rec)
  OBVIOUS
<1>1. /\ s \in Seq(Records) /\ n \in Nat /\ n = Len(s) /\ m \in Nat
      /\ B \in [1..(n + 1) -> 0..m] /\ Chain(s, B)
  BY DEF HasNumbers
<1>2. /\ t \in Seq(Records) /\ Len(t) = n + 1 /\ t[n + 1] = rec
      /\ \A i \in 1..n : t[i] = s[i]
  BY <1>1, AppendProperties
<1>3. PICK k : k = b + Size(rec)
  OBVIOUS
<1>4. n + 1 \in 1..(n + 1)
  BY <1>1
<1>5. b \in 0..m
  BY <1>1, <1>4
<1>6. k \in 0..M
  BY <1>1, <1>3, <1>5, SizeType
<1>7. PICK C : C = [i \in 1..(n + 2) |-> IF i \in 1..(n + 1) THEN B[i] ELSE k]
  OBVIOUS
<1>8. \A x \in 0..m : x \in 0..M
  BY <1>1
<1>9. C \in [1..(n + 2) -> 0..M]
  BY <1>1, <1>4, <1>6, <1>7, <1>8
<1>10. (n + 2 \notin 1..(n + 1)) /\ n + 2 \in 1..(n + 2) /\ \A i \in 1..(n + 1) : i \in 1..(n + 2)
  BY <1>1
<1>11. C[n + 2] = k /\ \A i \in 1..(n + 1) : C[i] = B[i]
  BY <1>7, <1>10
<1>12. ASSUME NEW i \in 1..Len(t)
       PROVE  C[i + 1] = C[i] + Size(t[i]) /\ (t[i].lost = 0 => t[i].seq = C[i] + 1)
  <2>1. i \in 1..n \/ i = n + 1
    BY <1>1, <1>2
  <2>2. CASE i \in 1..n
    <3>1. i \in 1..(n + 1) /\ i + 1 \in 1..(n + 1) /\ i \in 1..Len(s)
      BY <1>1, <2>2
    <3>2. QED
      BY <1>1, <1>2, <1>11, <2>2, <3>1 DEF Chain
  <2>3. CASE i = n + 1
    <3>1. i \in 1..(n + 1) /\ i + 1 = n + 2
      BY <1>1, <2>3
    <3>2. QED
      BY <1>2, <1>3, <1>11, <2>3, <3>1
  <2>4. QED
    BY <2>1, <2>2, <2>3
<1>13. Chain(t, C)
  BY <1>12 DEF Chain
<1>14. (n + 1) + 1 = n + 2 /\ n + 1 \in Nat
  BY <1>1
<1>15. HasNumbers(t, n + 1, M, C)
  BY <1>2, <1>9, <1>13, <1>14 DEF HasNumbers
<1>16. QED
  BY <1>3, <1>11, <1>15 DEF Appended

(* The records that are left when n have been taken keep their numbers.    *)
Remains(s, m, B, n, C) ==
    LET t == SubSeq(s, n + 1, Len(s))
    IN  /\ C \in [1..(Len(t) + 1) -> 0..m] /\ Chain(t, C)
        /\ C[Len(t) + 1] = B[Len(s) + 1] /\ C[1] = B[n + 1]

LEMMA ChainDrop ==
    ASSUME NEW s, NEW l, NEW m, NEW B, HasNumbers(s, l, m, B), NEW n \in 0..Len(s)
    PROVE  \E C : Remains(s, m, B, n, C)
<1> PICK t : t = SubSeq(s, n + 1, Len(s))
  OBVIOUS
<1>1. /\ s \in Seq(Records) /\ l \in Nat /\ l = Len(s) /\ m \in Nat
      /\ B \in [1..(Len(s) + 1) -> 0..m] /\ Chain(s, B)
  BY DEF HasNumbers
<1>2. PICK d \in Nat : d + n = l
  <2>1. l - n \in Nat /\ (l - n) + n = l
    BY <1>1
  <2>2. QED
    BY <2>1
<1>3. \A i \in (n + 1)..Len(s) : s[i] \in Records
  BY <1>1, ElementOfSeq
<1>4. Len(t) = d /\ \A i \in 1..d : t[i] = s[i + n]
  <2>1. CASE d = 0
    <3>1. n + 1 > Len(s)
      BY <1>1, <1>2, <2>1
    <3>2. Len(t) = 0
      BY <1>1, <1>3, <3>1, SubSeqProperties
    <3>3. QED
      BY <2>1, <3>2
  <2>2. CASE d # 0
    <3>1. n + 1 \in 1..(Len(s) + 1) /\ Len(s) \in (n + 1)..Len(s)
      BY <1>1, <1>2, <2>2
    <3>2. Len(t) = d
      BY <1>1, <1>2, <1>3, <3>1, SubSeqProperties
    <3>3. \A i \in 1..d : t[i] = s[i + n]
      BY <1>1, <1>2, <1>3, <3>1, SubSeqProperties
    <3>4. QED
      BY <3>2, <3>3
  <2>3. QED
    BY <2>1, <2>2
<1>5. PICK C : C = [i \in 1..(d + 1) |-> B[i + n]]
  OBVIOUS
<1>6. \A i \in 1..(d + 1) : i + n \in 1..(Len(s) + 1)
  BY <1>1, <1>2
<1>7. C \in [1..(d + 1) -> 0..m]
  BY <1>1, <1>5, <1>6
<1>8. ASSUME NEW i \in 1..d
      PROVE  C[i + 1] = C[i] + Size(t[i]) /\ (t[i].lost = 0 => t[i].seq = C[i] + 1)
  <2>1. i \in 1..(d + 1) /\ i + 1 \in 1..(d + 1) /\ i + n \in 1..Len(s) /\ (i + 1) + n = (i + n) + 1
    BY <1>1, <1>2
  <2>2. C[i] = B[i + n] /\ C[i + 1] = B[(i + n) + 1] /\ t[i] = s[i + n]
    BY <1>4, <1>5, <2>1
  <2>3. QED
    BY <1>1, <2>1, <2>2 DEF Chain
<1>9. Chain(t, C)
  BY <1>4, <1>8 DEF Chain
<1>10. C[d + 1] = B[Len(s) + 1] /\ C[1] = B[n + 1]
  <2>1. n \in Nat
    BY <1>1
  <2>2. d + 1 \in 1..(d + 1) /\ 1 \in 1..(d + 1) /\ (d + 1) + n = l + 1 /\ 1 + n = n + 1
    BY <1>2, <2>1
  <2>3. C[d + 1] = B[(d + 1) + n] /\ C[1] = B[1 + n]
    BY <1>5, <2>2
  <2>4. QED
    BY <1>1, <2>2, <2>3
<1>11. QED
  BY <1>4, <1>7, <1>9, <1>10 DEF Remains

-----------------------------------------------------------------------------
(* The kernel keeps the numbers.                                           *)

LEMMA NumberedSame ==
    ASSUME NEW r, Numbered(r), rings'[r] = rings[r], overrun'[r] = overrun[r],
           emitted'[r] = emitted[r], handled'[r] = handled[r],
           lostCount'[r] = lostCount[r], Done(r)' = Done(r)
    PROVE  Numbered(r)'
BY DEF Numbered, Numbers, Chain

(* An event for an open array: a sample, behind a record of the losses if  *)
(* there are any, or another loss.                                         *)
LEMMA OutputNumbered ==
    ASSUME BpfTypeOK, NEW r \in Maps \X CPU, r[1] \in opened, NEW e \in Events,
           bpf_perf_event_output(r, e), Numbered(r), Done(r) \in 0..Len(rings[r]),
           handled'[r] = handled[r], lostCount'[r] = lostCount[r], Done(r)' = Done(r)
    PROVE  Numbered(r)'
<1>1. PICK s, m, o, d : s = rings[r] /\ m = emitted[r] /\ o = overrun[r] /\ d = Done(r)
  OBVIOUS
<1>2. /\ s \in Seq(Records) /\ m \in Nat /\ o \in Nat
      /\ rings \in [Maps \X CPU -> Seq(Records)] /\ emitted \in [Maps \X CPU -> Nat]
      /\ overrun \in [Maps \X CPU -> Nat]
  BY <1>1 DEF BpfTypeOK
<1>3. PICK n \in Nat : n = Len(s)
  BY <1>2, LenProperties
<1>4. PICK B \in [1..(n + 1) -> 0..m] :
          /\ Chain(s, B) /\ B[n + 1] + o = m /\ B[d + 1] = handled[r] + lostCount[r]
  BY <1>1, <1>3 DEF Numbered, Numbers
<1>5. PICK b \in 0..m : b = B[n + 1]
  <2>1. n + 1 \in 1..(n + 1)
    OBVIOUS
  <2>2. QED
    BY <1>4, <2>1
<1>6. d + 1 \in 1..(n + 1) /\ b + o = m
  BY <1>1, <1>3, <1>4, <1>5
<1>7. s \in Seq(Records) /\ b \in Nat /\ o \in Nat /\ m \in Nat /\ m + 1 \in Nat
  BY <1>2, <1>5
<1>8. emitted'[r] = m + 1
  BY <1>1, <1>2 DEF bpf_perf_event_output
<1>9. ASSUME NEW t, rings'[r] = t, NEW k \in Nat, k = Len(t),
             NEW C \in [1..(k + 1) -> 0..(m + 1)], Chain(t, C),
             C[k + 1] + overrun'[r] = m + 1, C[d + 1] = B[d + 1]
      PROVE  Numbered(r)'
  <2>1. C \in [1..(Len(rings[r]') + 1) -> 0..emitted'[r]]
    BY <1>8, <1>9
  <2>2. Numbers(r, C)'
    BY <1>1, <1>4, <1>8, <1>9 DEF Numbers, Chain
  <2>3. QED
    BY <2>1, <2>2 DEF Numbered
<1>10. PICK x : x = Sample(r, e)
  OBVIOUS
<1>11. x \in Records /\ x.lost = 0 /\ x.seq = m + 1 /\ Size(x) = 1
  <2>1. x \in Records
    BY <1>10, RecordTypes
  <2>2. QED
    BY <1>1, <1>10, <2>1 DEF Sample, Size
<1>12. CASE Fits(r) /\ o = 0 /\ rings' = [rings EXCEPT ![r] = s \o <<x>>] /\ overrun'[r] = 0
  <2>1. PICK t : t = Append(s, x)
    OBVIOUS
  <2>2. s \o <<x>> = t
    BY <1>2, <1>11, <2>1, AppendIsConcat
  <2>3. rings'[r] = t
    BY <1>2, <1>12, <2>2
  <2>4. b = m /\ m <= m + 1 /\ m + 1 \in Nat
    BY <1>2, <1>5, <1>6, <1>12
  <2>5. b + Size(x) <= m + 1 /\ x.seq = b + 1
    BY <1>2, <1>11, <2>4
  <2>6. PICK C : /\ HasNumbers(t, n + 1, m + 1, C) /\ C[n + 2] = b + Size(x)
                 /\ \A i \in 1..(n + 1) : C[i] = B[i]
    <3>1. HasNumbers(s, n, m, B)
      BY <1>3, <1>4, <1>7 DEF HasNumbers
    <3>2. CanAppend(s, n, m, B, x, m + 1)
      BY <1>5, <1>7, <1>11, <2>4, <2>5, <3>1 DEF CanAppend
    <3>3. PICK C : Appended(s, n, B, x, m + 1, C)
      BY <3>2, ChainAppend
    <3>4. QED
      BY <1>5, <2>1, <3>3 DEF Appended
  <2>7. PICK k \in Nat : k = n + 1
    OBVIOUS
  <2>8. k + 1 = n + 2
    BY <2>7
  <2>9. C \in [1..(k + 1) -> 0..(m + 1)] /\ Chain(t, C) /\ k = Len(t)
    BY <2>6, <2>7 DEF HasNumbers
  <2>10. C[k + 1] + overrun'[r] = m + 1 /\ C[d + 1] = B[d + 1]
    <3>1. overrun'[r] = 0
      BY <1>12
    <3>2. C[k + 1] = m + 1
      BY <1>11, <2>4, <2>6, <2>8
    <3>3. C[d + 1] = B[d + 1]
      BY <1>6, <2>6
    <3>4. QED
      BY <2>4, <3>1, <3>2, <3>3
  <2>11. QED
    BY <1>9, <2>3, <2>9, <2>10
<1>13. CASE /\ Fits(r) /\ o > 0 /\ overrun'[r] = 0
            /\ rings' = [rings EXCEPT ![r] = Append(s, LostRecord(r)) \o <<x>>]
  <2>1. PICK l : l = LostRecord(r)
    OBVIOUS
  <2>2. l \in Records /\ l.lost = o /\ Size(l) = o
    <3>1. l \in Records
      BY <1>1, <1>13, <2>1, RecordTypes
    <3>2. l.lost = o
      BY <1>1, <2>1 DEF LostRecord
    <3>3. QED
      BY <1>2, <1>13, <3>1, <3>2 DEF Size
  <2>3. PICK u : u = Append(s, l)
    OBVIOUS
  <2>4. b + Size(l) <= m /\ l.lost # 0 /\ m <= m /\ b + Size(l) = m
    <3>1. o > 0
      BY <1>13
    <3>2. b + o = m /\ o # 0 /\ m <= m
      BY <1>6, <1>7, <3>1
    <3>3. QED
      BY <2>2, <3>2
  <2>5. PICK D : /\ HasNumbers(u, n + 1, m, D) /\ D[n + 2] = b + Size(l)
                 /\ \A i \in 1..(n + 1) : D[i] = B[i]
    <3>1. HasNumbers(s, n, m, B)
      BY <1>3, <1>4, <1>7 DEF HasNumbers
    <3>2. CanAppend(s, n, m, B, l, m)
      BY <1>5, <1>7, <2>2, <2>4, <3>1 DEF CanAppend
    <3>3. PICK C : Appended(s, n, B, l, m, C)
      BY <3>2, ChainAppend
    <3>4. QED
      BY <1>5, <2>3, <3>3 DEF Appended
  <2>6. PICK k \in Nat : k = n + 1
    OBVIOUS
  <2>7. k + 1 = n + 2
    BY <2>6
  <2>8. HasNumbers(u, k, m, D) /\ D[k + 1] = m /\ u \in Seq(Records)
    BY <2>4, <2>5, <2>6, <2>7 DEF HasNumbers
  <2>9. PICK t : t = Append(u, x)
    OBVIOUS
  <2>10. u \o <<x>> = t
    BY <1>11, <2>8, <2>9, AppendIsConcat
  <2>11. rings'[r] = t
    BY <1>2, <1>13, <2>1, <2>3, <2>10
  <2>12. m + Size(x) <= m + 1 /\ x.seq = m + 1 /\ m <= m + 1
    BY <1>7, <1>11
  <2>13. PICK C : /\ HasNumbers(t, k + 1, m + 1, C) /\ C[k + 2] = m + Size(x)
                  /\ \A i \in 1..(k + 1) : C[i] = D[i]
    <3>1. CanAppend(u, k, m, D, x, m + 1)
      BY <1>7, <1>11, <2>8, <2>12 DEF CanAppend
    <3>2. PICK C : Appended(u, k, D, x, m + 1, C)
      BY <3>1, ChainAppend
    <3>3. QED
      BY <2>8, <2>9, <3>2 DEF Appended
  <2>14. PICK j \in Nat : j = k + 1
    OBVIOUS
  <2>15. C \in [1..(j + 1) -> 0..(m + 1)] /\ Chain(t, C) /\ j = Len(t)
    BY <2>13, <2>14 DEF HasNumbers
  <2>16. j + 1 = k + 2 /\ d + 1 \in 1..(k + 1)
    BY <1>6, <2>6, <2>14
  <2>17. C[j + 1] + overrun'[r] = m + 1 /\ C[d + 1] = B[d + 1]
    <3>1. C[j + 1] = m + 1 /\ overrun'[r] = 0
      BY <1>11, <1>13, <2>13, <2>16
    <3>2. C[d + 1] = D[d + 1] /\ D[d + 1] = B[d + 1]
      BY <1>6, <2>5, <2>13, <2>16
    <3>3. QED
      BY <1>7, <3>1, <3>2
  <2>18. QED
    BY <1>9, <2>11, <2>15, <2>17
<1>14. CASE UNCHANGED rings /\ overrun'[r] = o + 1
  <2>1. B \in [1..(n + 1) -> 0..(m + 1)]
    <3>1. \A y \in 0..m : y \in 0..(m + 1)
      BY <1>2
    <3>2. QED
      BY <1>4, <3>1
  <2>2. b + (o + 1) = m + 1
    BY <1>6, <1>7
  <2>3. QED
    BY <1>1, <1>3, <1>4, <1>5, <1>9, <1>14, <2>1, <2>2
<1>15. \/ /\ Fits(r) /\ overrun' = [overrun EXCEPT ![r] = 0]
          /\ rings' = [rings EXCEPT ![r] =
                 (IF overrun[r] > 0 THEN Append(rings[r], LostRecord(r)) ELSE rings[r])
                   \o <<x>>]
       \/ UNCHANGED rings /\ overrun' = [overrun EXCEPT ![r] = overrun[r] + 1]
  BY <1>10 DEF bpf_perf_event_output
<1>16. o = 0 \/ o > 0
  BY <1>2
<1>17. QED
  BY <1>1, <1>2, <1>12, <1>13, <1>14, <1>15, <1>16

LEMMA DoneFacts ==
    ASSUME TracerInv, NEW r \in Maps \X CPU
    PROVE  Done(r) \in 0..Len(rings[r])
<1>1. Len(rings[r]) \in Nat
  BY LenProperties DEF TracerInv, BpfTypeOK
<1>2. CASE cursor # None /\ Ring = r
  <2>1. /\ cursor \in [cpu : CPU, head : Nat, done : Nat]
        /\ cursor.head <= Len(rings[r]) /\ cursor.done <= cursor.head
    BY <1>2 DEF TracerInv, Reading
  <2>2. QED
    BY <1>1, <1>2, <2>1 DEF Done
<1>3. CASE ~ (cursor # None /\ Ring = r)
  BY <1>1, <1>3 DEF Done
<1>4. QED
  BY <1>2, <1>3

HolesKept == OpenedOnce' /\ LoopOpen' /\ Numbering'

LEMMA KernelHoles ==
    ASSUME HoleInv, Kernel
    PROVE  HolesKept
<1>1. UNCHANGED <<main, opened, handled, lostCount, cursor, polled>>
  BY DEF Kernel, KernelStep, userVars
<1>2. \A r : Done(r)' = Done(r)
  BY <1>1 DEF Done, Ring
<1>3. BpfTypeOK /\ TracerInv
  BY DEF HoleInv, TracerInv
<1>4. ASSUME NEW r \in Maps \X CPU
      PROVE  /\ r[1] \notin opened => UNCHANGED <<rings[r], overrun[r], emitted[r]>>
             /\ r[1] \in opened => Numbered(r)'
  <2>1. r[1] \in opened => Numbered(r)
    BY DEF HoleInv, Numbering
  <2>2. ASSUME UNCHANGED <<rings[r], overrun[r], emitted[r]>>
        PROVE  r[1] \in opened => Numbered(r)'
    BY <1>1, <1>2, <2>1, <2>2, NumberedSame
  <2>3. ASSUME NEW c \in Ctx, Output(c)
        PROVE  /\ r[1] \notin opened => UNCHANGED <<rings[r], overrun[r], emitted[r]>>
               /\ r[1] \in opened => Numbered(r)'
    <3>1. PICK q, e : q = RingOf(c) /\ e = frame[c].event
      OBVIOUS
    <3>2. q \in Maps \X CPU
      BY <3>1, BpfAssumption DEF RingOf, Maps
    <3>3. e \in Events
      BY <1>3, <2>3, <3>1, FrameRunning DEF Output, Running
    <3>4. bpf_perf_event_output(q, e)
      BY <2>3, <3>1 DEF Output
    <3>5. CASE q[1] \notin opened
      <4>1. UNCHANGED <<rings, overrun, emitted>>
        BY <3>4, <3>5 DEF bpf_perf_event_output
      <4>2. QED
        BY <2>2, <4>1
    <3>6. CASE q[1] \in opened /\ r # q
      <4>1. UNCHANGED <<rings[r], overrun[r], emitted[r]>>
        BY <1>3, <3>2, <3>4, <3>6 DEF bpf_perf_event_output, BpfTypeOK
      <4>2. QED
        BY <2>2, <4>1
    <3>7. CASE q[1] \in opened /\ r = q
      <4>1. Done(r) \in 0..Len(rings[r])
        BY <1>3, DoneFacts
      <4>2. Numbered(r)'
        BY <1>1, <1>2, <1>3, <2>1, <3>3, <3>4, <3>7, <4>1, OutputNumbered
      <4>3. QED
        BY <3>7, <4>2
    <3>8. QED
      BY <3>5, <3>6, <3>7
  <2>4. (\E c \in Ctx : Output(c)) \/ UNCHANGED <<rings, overrun, emitted>>
    <3>1. ASSUME NEW c \in Ctx, Program(c), ~ Output(c)
          PROVE  UNCHANGED <<rings, overrun, emitted>>
      BY <3>1 DEF Program, handle_tcp_v4_connect, handle_tcp_sendmsg,
                  handle_tcp_rcv_state_process, UpdateConnect, LookupConnect,
                  DeleteConnect, Body
    <3>2. ASSUME NEW s \in Sock, Stack(s)
          PROVE  UNCHANGED <<rings, overrun, emitted>>
      BY <3>2 DEF Stack, SockAlloc, SockFree, ConnectTimeout, Shutdown,
                  tcp_v6_connect, SockStep
    <3>3. Tick => UNCHANGED <<rings, overrun, emitted>>
      BY DEF Tick
    <3>4. QED
      BY <3>1, <3>2, <3>3 DEF Kernel, KernelStep, KernelNext
  <2>5. QED
    BY <2>2, <2>3, <2>4
<1>5. Numbering'
  BY <1>1, <1>4 DEF Numbering
<1>6. ASSUME NEW r \in Maps \X CPU, r[1] \notin opened, Fresh(r) PROVE Fresh(r)'
  BY <1>1, <1>4, <1>6 DEF Fresh
<1>7. OpenedOnce'
  BY <1>1, <1>6 DEF HoleInv, OpenedOnce
<1>8. LoopOpen'
  BY <1>1 DEF HoleInv, LoopOpen
<1>9. QED
  BY <1>5, <1>7, <1>8 DEF HolesKept

-----------------------------------------------------------------------------
(* main() keeps the numbers.                                               *)

ringState == <<rings, overrun, emitted>>

(* A step that touches neither the rings nor what was read of them.        *)
LEMMA QuietNumbering ==
    ASSUME Numbering, UNCHANGED <<ringState, handled, lostCount>>,
           opened' \subseteq opened, \A r \in Maps \X CPU : Done(r)' = Done(r)
    PROVE  Numbering'
BY NumberedSame DEF Numbering, ringState

LEMMA QuietFresh ==
    ASSUME NEW r, Fresh(r), UNCHANGED <<ringState, handled, lostCount>>
    PROVE  Fresh(r)'
BY DEF Fresh, ringState

(* The numbers of a ring that is opened begin with 0.                      *)
LEMMA FreshNumbered ==
    ASSUME NEW r, Fresh(r), cursor = None
    PROVE  Numbered(r)
<1>1. Len(rings[r]) = 0 /\ emitted[r] = 0 /\ overrun[r] = 0 /\ Done(r) = 0
  BY DEF Fresh, Done
<1>2. PICK B : B = [i \in 1..1 |-> 0]
  OBVIOUS
<1>3. B \in [1..1 -> 0..0] /\ B[1] = 0
  BY <1>2
<1>4. Chain(rings[r], B)
  BY <1>1 DEF Chain
<1>5. Numbers(r, B)
  BY <1>1, <1>3, <1>4 DEF Numbers, Fresh
<1>6. B \in [1..(Len(rings[r]) + 1) -> 0..emitted[r]]
  BY <1>1, <1>3
<1>7. QED
  BY <1>5, <1>6 DEF Numbered

LEMMA FreshNumberedNext ==
    ASSUME NEW r, Fresh(r), cursor = None, cursor' = None,
           UNCHANGED <<ringState, handled, lostCount>>
    PROVE  Numbered(r)'
<1>1. Done(r)' = Done(r)
  BY DEF Done
<1>2. QED
  BY <1>1, FreshNumbered, NumberedSame DEF ringState

(* The two calls of perf_buffer__new.                                      *)
LEMMA OpenHoles ==
    ASSUME HoleInv, NewPb \/ NewSendmsgPb
    PROVE  HolesKept
<1>1. /\ UNCHANGED <<ringState, handled, lostCount, cursor, polled>>
      /\ main \in {"new_pb", "new_sendmsg_pb"}
  BY DEF NewPb, NewSendmsgPb, perf_buffer__new, OpenArray, bpfVars, kernelVars, pollVars,
         ringState, At
<1>2. cursor = None
  BY <1>1 DEF HoleInv, TracerInv, Reading
<1>3. \A r \in Maps \X CPU : Done(r)' = Done(r)
  BY <1>1 DEF Done, Ring
<1>4. ASSUME NEW m \in Maps, m \notin opened, opened' = opened \cup {m} \/ opened' = opened,
             \A r \in Maps \X CPU : r[1] \notin opened => Fresh(r)
      PROVE  Numbering' /\ \A r \in Maps \X CPU : r[1] \notin opened' => Fresh(r)'
  <2>1. ASSUME NEW r \in Maps \X CPU, r[1] \in opened' PROVE Numbered(r)'
    <3>1. CASE r[1] \in opened
      BY <1>1, <1>3, <3>1, NumberedSame DEF ringState, HoleInv, Numbering
    <3>2. CASE r[1] \notin opened
      BY <1>1, <1>2, <1>4, <3>2, FreshNumberedNext
    <3>3. QED
      BY <3>1, <3>2
  <2>2. \A r \in Maps \X CPU : r[1] \notin opened' => Fresh(r)'
    BY <1>1, <1>4, QuietFresh
  <2>3. QED
    BY <2>1, <2>2 DEF Numbering
<1>5. CASE NewPb
  <2>1. /\ main = "new_pb" /\ main' = "new_sendmsg_pb"
        /\ opened' = opened \cup {"events"} \/ opened' = opened
    BY <1>5 DEF NewPb, perf_buffer__new, OpenArray, bpfVars, At, Goto
  <2>2. opened = {} /\ \A r \in Maps \X CPU : r[1] \notin opened => Fresh(r)
    BY <2>1 DEF HoleInv, OpenedOnce, Early
  <2>3. Numbering' /\ \A r \in Maps \X CPU : r[1] \notin opened' => Fresh(r)'
    BY <1>4, <2>1, <2>2 DEF Maps
  <2>4. QED
    BY <2>1, <2>2, <2>3 DEF HolesKept, OpenedOnce, Early, LoopOpen
<1>6. CASE NewSendmsgPb
  <2>1. /\ main = "new_sendmsg_pb" /\ main' = "check_pb"
        /\ opened' = opened \cup {"tcp_sendmsg_events"} \/ opened' = opened
    BY <1>6 DEF NewSendmsgPb, perf_buffer__new, OpenArray, bpfVars, At, Goto
  <2>2. /\ "tcp_sendmsg_events" \notin opened
        /\ \A r \in Maps \X CPU : r[1] \notin opened => Fresh(r)
    BY <2>1 DEF HoleInv, OpenedOnce
  <2>3. Numbering'
    BY <1>4, <2>1, <2>2 DEF Maps
  <2>4. QED
    BY <2>1, <2>3 DEF HolesKept, OpenedOnce, Early, LoopOpen
<1>7. QED
  BY <1>5, <1>6

(* The steps of main() that leave the rings alone.                         *)
LEMMA QuietHoles ==
    ASSUME HoleInv,
           \/ tcp_analyse_bpf__open \/ fentry_can_attach \/ tcp_analyse_bpf__load
           \/ (\E i \in 1..Len(SkeletonProgs) : AttachLink(i))
           \/ AttachDone \/ CheckPb \/ InstallHandler
           \/ While \/ EpollReady \/ EpollNothing \/ EpollFails \/ RingsRead
           \/ (\E cpu \in CPU : ReadHead(cpu))
           \/ tcp_analyse_bpf__destroy \/ sig_int
    PROVE  HolesKept
<1>1. UNCHANGED <<ringState, opened, handled, lostCount>>
  BY DEF tcp_analyse_bpf__open, fentry_can_attach, tcp_analyse_bpf__load, AttachLink,
         Attach, AttachDone, CheckPb, InstallHandler, While, EpollReady, EpollNothing,
         EpollFails, RingsRead, ReadHead, tcp_analyse_bpf__destroy, DetachAll, sig_int,
         bpfVars, kernelVars, pollVars, ringState
<1>2. \A r \in Maps \X CPU : Done(r)' = Done(r)
  <2>1. ASSUME NEW cpu \in CPU, ReadHead(cpu)
        PROVE  \A r \in Maps \X CPU : Done(r)' = Done(r)
    <3>1. cursor = None /\ cursor'.done = 0
      BY <2>1 DEF ReadHead
    <3>2. QED
      BY <3>1 DEF Done
  <2>2. CASE UNCHANGED <<cursor, polled>>
    BY <2>2 DEF Done, Ring
  <2>3. CASE cursor = None /\ cursor' = None
    BY <2>3 DEF Done
  <2>4. CASE While \/ EpollNothing \/ RingsRead
    <3>1. cursor = None /\ cursor' = None
      BY <2>4 DEF While, EpollNothing, RingsRead, At, HoleInv, TracerInv, Reading
    <3>2. QED
      BY <2>3, <3>1
  <2>5. QED
    BY <2>1, <2>2, <2>4 DEF tcp_analyse_bpf__open, fentry_can_attach,
       tcp_analyse_bpf__load, AttachLink, AttachDone, CheckPb, InstallHandler, EpollReady,
       EpollFails, tcp_analyse_bpf__destroy, sig_int, pollVars
<1>3. Numbering'
  BY <1>1, <1>2, QuietNumbering DEF HoleInv
<1>4. \A r \in Maps \X CPU : Fresh(r) => Fresh(r)'
  BY <1>1, QuietFresh
<1>5. /\ main' \in Early => main \in Early
      /\ main' = "new_sendmsg_pb" => main = "new_sendmsg_pb"
      /\ main' \in {"signal", "while", "poll", "read"} =>
             main \in {"signal", "while", "poll", "read"} \/ opened = Maps
  BY DEF tcp_analyse_bpf__open, fentry_can_attach, tcp_analyse_bpf__load, AttachLink,
         AttachDone, CheckPb, InstallHandler, While, EpollReady, EpollNothing,
         EpollFails, RingsRead, ReadHead, tcp_analyse_bpf__destroy, sig_int,
         PollReturns, At, Goto, Fail, Return, Early
<1>6. OpenedOnce'
  BY <1>1, <1>4, <1>5 DEF HoleInv, OpenedOnce
<1>7. LoopOpen'
  BY <1>1, <1>5 DEF HoleInv, LoopOpen
<1>8. QED
  BY <1>3, <1>6, <1>7 DEF HolesKept

(* In the loop both arrays are open; the rest of HolesKept is Numbering'.  *)
LEMMA LoopHoles ==
    ASSUME HoleInv, main = "read", main' = "read", opened' = opened, Numbering'
    PROVE  HolesKept
BY DEF HoleInv, HolesKept, OpenedOnce, Early, LoopOpen

(* A record is handled: the count moves on by what the record stands for.  *)
LEMMA RecordNumbered ==
    ASSUME HoleInv, InRing, UNCHANGED <<ringState, main, opened, polled>>,
           cursor' = [cursor EXCEPT !.done = @ + 1],
           handled'[Ring] + lostCount'[Ring] =
               (handled[Ring] + lostCount[Ring]) + Size(Record),
           \A r \in Maps \X CPU : r # Ring =>
               handled'[r] = handled[r] /\ lostCount'[r] = lostCount[r]
    PROVE  HolesKept
<1>1. PICK q : q = Ring
  OBVIOUS
<1>2. PICK d : d = cursor.done
  OBVIOUS
<1>3. TracerInv /\ cursor # None /\ main = "read" /\ cursor.done < cursor.head
  BY DEF HoleInv, InRing, At
<1>4. /\ cursor'.cpu = cursor.cpu /\ cursor'.done = d + 1 /\ d + 1 \in 1..cursor.head
      /\ cursor' \in [cpu : CPU, head : Nat, done : Nat]
  BY <1>2, <1>3, RecordFacts
<1>5. q \in Maps \X CPU /\ cursor.head \in 0..Len(rings[q])
  BY <1>1, <1>3, RingFacts
<1>6. PICK n \in Nat : n = Len(rings[q])
  BY <1>3, <1>5, LenProperties DEF TracerInv, BpfTypeOK
<1>7. d + 1 \in 1..n
  BY <1>4, <1>5, <1>6
<1>8. Ring' = q
  BY <1>1, <1>4 DEF Ring
<1>9. cursor' # None
  BY <1>4, EnvAssumption
<1>10. Done(q) = d /\ Done(q)' = d + 1
  BY <1>1, <1>2, <1>3, <1>4, <1>8, <1>9 DEF Done
<1>11. \A r \in Maps \X CPU : r # q => Done(r)' = Done(r)
  BY <1>1, <1>8 DEF Done
<1>12. LoopOpen /\ OpenedOnce /\ Numbering /\ opened = Maps
  BY <1>3 DEF HoleInv, LoopOpen
<1>13. Numbered(q)'
  <2>1. Numbered(q)
    BY <1>5, <1>12 DEF Numbering
  <2>2. PICK B \in [1..(Len(rings[q]) + 1) -> 0..emitted[q]] : Numbers(q, B)
    BY <2>1 DEF Numbered
  <2>3. PICK b : b = handled[q] + lostCount[q]
    OBVIOUS
  <2>4. /\ B[d + 1] = b /\ Chain(rings[q], B)
        /\ B[Len(rings[q]) + 1] + overrun[q] = emitted[q]
    BY <1>10, <2>2, <2>3 DEF Numbers
  <2>5. B[(d + 1) + 1] = b + Size(Record)
    BY <1>1, <1>2, <1>6, <1>7, <2>4 DEF Chain, Record
  <2>6. handled'[q] + lostCount'[q] = b + Size(Record)
    BY <1>1, <2>3
  <2>7. UNCHANGED <<rings, overrun, emitted>>
    BY DEF ringState
  <2>8. Numbers(q, B)'
    BY <1>10, <2>4, <2>5, <2>6, <2>7 DEF Numbers, Chain
  <2>9. QED
    BY <2>2, <2>7, <2>8 DEF Numbered
<1>14. ASSUME NEW r \in Maps \X CPU, r # q PROVE Numbered(r)'
  <2>1. Numbered(r)
    BY <1>12 DEF Numbering
  <2>2. QED
    BY <1>1, <1>11, <1>14, <2>1, NumberedSame DEF ringState
<1>15. Numbering'
  BY <1>13, <1>14 DEF Numbering
<1>16. QED
  BY <1>3, <1>15, LoopHoles

LEMMA CallbackHoles ==
    ASSUME HoleInv, Callback
    PROVE  HolesKept
<1>1. InRing /\ UNCHANGED <<ringState, main, opened, polled, lostCount>>
  BY DEF Callback, bpfVars, kernelVars, ringState
<1>2. Ring \in Maps \X CPU
  BY <1>1, RingFacts DEF InRing, HoleInv
<1>3. PICK q : q = Ring
  OBVIOUS
<1>4. handled \in [Maps \X CPU -> Nat] /\ lostCount \in [Maps \X CPU -> Nat]
  BY DEF HoleInv, TracerInv, UserTypes
<1>5. handled' = [handled EXCEPT ![q] = @ + 1] /\ Size(Record) = 1
  BY <1>3 DEF Callback, Size
<1>6. handled'[q] = handled[q] + 1 /\ \A r \in Maps \X CPU : r # q => handled'[r] = handled[r]
  BY <1>2, <1>3, <1>4, <1>5
<1>7. (handled[q] + 1) + lostCount[q] = (handled[q] + lostCount[q]) + 1
  BY <1>2, <1>3, <1>4
<1>8. cursor' = [cursor EXCEPT !.done = @ + 1]
  BY DEF Callback
<1>9. QED
  BY <1>1, <1>3, <1>5, <1>6, <1>7, <1>8, RecordNumbered

LEMMA LostHoles ==
    ASSUME HoleInv, handle_lost_events
    PROVE  HolesKept
<1>1. InRing /\ UNCHANGED <<ringState, main, opened, polled, handled>>
  BY DEF handle_lost_events, bpfVars, kernelVars, ringState
<1>2. Ring \in Maps \X CPU
  BY <1>1, RingFacts DEF InRing, HoleInv
<1>3. PICK q, l : q = Ring /\ l = Record.lost
  OBVIOUS
<1>4. handled \in [Maps \X CPU -> Nat] /\ lostCount \in [Maps \X CPU -> Nat]
  BY DEF HoleInv, TracerInv, UserTypes
<1>5. l \in Nat
  BY <1>1, <1>3, RecordFacts, SizeType DEF HoleInv
<1>6. lostCount' = [lostCount EXCEPT ![q] = @ + l] /\ Size(Record) = l
  BY <1>3, <1>5 DEF handle_lost_events, Size
<1>7. /\ lostCount'[q] = lostCount[q] + l
      /\ \A r \in Maps \X CPU : r # q => lostCount'[r] = lostCount[r]
  BY <1>2, <1>3, <1>4, <1>6
<1>8. handled[q] + (lostCount[q] + l) = (handled[q] + lostCount[q]) + l
  BY <1>2, <1>3, <1>4, <1>5
<1>9. cursor' = [cursor EXCEPT !.done = @ + 1]
  BY DEF handle_lost_events
<1>10. QED
  BY <1>1, <1>3, <1>6, <1>7, <1>8, <1>9, RecordNumbered

(* The space of the records is given back: the ones that came meanwhile    *)
(* keep their numbers.                                                     *)
LEMMA WriteTailHoles ==
    ASSUME HoleInv, WriteTail
    PROVE  HolesKept
<1>1. /\ main = "read" /\ main' = "read" /\ cursor # None /\ cursor' = None
      /\ cursor.done = cursor.head /\ opened' = opened
      /\ UNCHANGED <<overrun, emitted, handled, lostCount>>
  BY DEF WriteTail, At, ConsumeRing
<1>2. PICK q, d : q = Ring /\ d = cursor.head
  OBVIOUS
<1>3. /\ q \in Maps \X CPU /\ rings[q] \in Seq(Records) /\ d \in 0..Len(rings[q])
      /\ rings \in [Maps \X CPU -> Seq(Records)] /\ emitted[q] \in Nat
  BY <1>1, <1>2, RingFacts DEF HoleInv, TracerInv, BpfTypeOK
<1>4. PICK s, t : s = rings[q] /\ t = SubSeq(s, d + 1, Len(s))
  OBVIOUS
<1>5. rings' = [rings EXCEPT ![q] = t]
  BY <1>2, <1>4 DEF WriteTail, ConsumeRing
<1>6. rings'[q] = t /\ \A r \in Maps \X CPU : r # q => rings'[r] = rings[r]
  BY <1>3, <1>5
<1>7. Done(q) = d /\ \A r : Done(r)' = 0
  BY <1>1, <1>2 DEF Done
<1>8. \A r : r # q => Done(r) = 0
  BY <1>2 DEF Done
<1>9. Numbering /\ opened = Maps
  BY <1>1 DEF HoleInv, LoopOpen
<1>10. Numbered(q)'
  <2>1. Numbered(q)
    BY <1>3, <1>9 DEF Numbering
  <2>2. PICK B \in [1..(Len(s) + 1) -> 0..emitted[q]] : Numbers(q, B)
    BY <1>4, <2>1 DEF Numbered
  <2>3. /\ Chain(s, B) /\ B[Len(s) + 1] + overrun[q] = emitted[q]
        /\ B[d + 1] = handled[q] + lostCount[q]
    BY <1>4, <1>7, <2>2 DEF Numbers
  <2>4. PICK m \in Nat : m = emitted[q]
    BY <1>3
  <2>5. PICK C \in [1..(Len(t) + 1) -> 0..m] :
            Chain(t, C) /\ C[Len(t) + 1] = B[Len(s) + 1] /\ C[1] = B[d + 1]
    <3>1. HasNumbers(s, Len(s), m, B)
      BY <1>3, <1>4, <2>2, <2>3, <2>4, LenProperties DEF HasNumbers
    <3>2. PICK C : Remains(s, m, B, d, C)
      BY <1>3, <1>4, <3>1, ChainDrop
    <3>3. QED
      BY <1>4, <3>2 DEF Remains
  <2>6. 0 + 1 = 1
    OBVIOUS
  <2>7. Numbers(q, C)'
    BY <1>1, <1>6, <1>7, <2>3, <2>5, <2>6 DEF Numbers, Chain
  <2>8. QED
    BY <1>1, <1>6, <2>4, <2>5, <2>7 DEF Numbered
<1>11. ASSUME NEW r \in Maps \X CPU, r # q PROVE Numbered(r)'
  <2>1. Numbered(r)
    BY <1>9 DEF Numbering
  <2>2. QED
    BY <1>1, <1>6, <1>7, <1>8, <1>11, <2>1, NumberedSame
<1>12. Numbering'
  BY <1>10, <1>11 DEF Numbering
<1>13. QED
  BY <1>1, <1>12, LoopHoles

(* Arrays are closed; nothing is said of their rings any more.             *)
LEMMA CloseHoles ==
    ASSUME HoleInv, FreePb \/ FreeSendmsgPb \/ SigintKills
    PROVE  HolesKept
<1>1. /\ main' \in {"free_sendmsg_pb", "destroy", "exit"}
      /\ UNCHANGED <<cursor, polled, handled, lostCount>>
  BY DEF FreePb, FreeSendmsgPb, SigintKills, Goto, Return, pollVars
<1>2. \A r : Done(r)' = Done(r)
  BY <1>1 DEF Done, Ring
<1>3. ASSUME NEW r \in Maps \X CPU, r[1] \in opened'
      PROVE  r[1] \in opened /\ UNCHANGED <<rings[r], overrun[r], emitted[r]>>
  <2>1. ASSUME NEW m, CloseArray(m)
        PROVE  r[1] \in opened /\ UNCHANGED <<rings[r], overrun[r], emitted[r]>>
    BY <1>3, <2>1 DEF CloseArray
  <2>2. CASE SigintKills
    BY <1>3, <2>2 DEF SigintKills, Release
  <2>3. QED
    BY <2>1, <2>2 DEF FreePb, FreeSendmsgPb
<1>4. Numbering'
  <2>1. ASSUME NEW r \in Maps \X CPU, r[1] \in opened' PROVE Numbered(r)'
    <3>1. Numbered(r)
      BY <1>3, <2>1 DEF HoleInv, Numbering
    <3>2. QED
      BY <1>1, <1>2, <1>3, <2>1, <3>1, NumberedSame
  <2>2. QED
    BY <2>1 DEF Numbering
<1>5. QED
  BY <1>1, <1>4 DEF HolesKept, OpenedOnce, Early, LoopOpen

LEMMA HoleInvInit == Init => HoleInv
<1> SUFFICES ASSUME Init PROVE HoleInv
  OBVIOUS
<1>1. \A r \in Maps \X CPU : Fresh(r)
  BY DEF Init, BpfInit, KernelInit, Fresh
<1>2. main = "open" /\ opened = {}
  BY DEF Init, BpfInit
<1>3. QED
  BY <1>1, <1>2, TracerInvInit DEF HoleInv, OpenedOnce, Early, LoopOpen, Numbering

LEMMA HoleInvNext == HoleInv /\ [Next]_vars => HoleInv'
<1> SUFFICES ASSUME HoleInv, [Next]_vars PROVE HoleInv'
  OBVIOUS
<1>1. TracerInv'
  BY TracerInvNext DEF HoleInv
<1>2. CASE Main
  BY <1>1, <1>2, QuietHoles, OpenHoles, CallbackHoles, LostHoles, WriteTailHoles, CloseHoles
     DEF Main, handle_event, handle_tcp_sendmsg_event, HolesKept, HoleInv
<1>3. CASE Kernel
  BY <1>1, <1>3, KernelHoles DEF HolesKept, HoleInv
<1>4. CASE sig_int \/ SigintKills
  BY <1>1, <1>4, QuietHoles, CloseHoles DEF HolesKept, HoleInv
<1>5. CASE UNCHANGED vars
  <2>1. UNCHANGED <<ringState, main, opened, handled, lostCount, cursor, polled>>
    BY <1>5 DEF vars, bpfVars, kernelVars, userVars, ringState
  <2>2. \A r \in Maps \X CPU : Done(r)' = Done(r)
    BY <2>1 DEF Done, Ring
  <2>3. Numbering'
    BY <2>1, <2>2, QuietNumbering DEF HoleInv
  <2>4. \A r \in Maps \X CPU : Fresh(r) => Fresh(r)'
    BY <2>1, QuietFresh
  <2>5. QED
    BY <1>1, <2>1, <2>3, <2>4 DEF HoleInv, OpenedOnce, LoopOpen
<1>6. QED
  BY <1>2, <1>3, <1>4, <1>5 DEF Next

(* The sample that a callback gets is the next one that is not accounted   *)
(* for.                                                                    *)
LEMMA CallbackGetsNext ==
    ASSUME HoleInv, Callback, NEW r \in Maps \X CPU, handled'[r] # handled[r]
    PROVE  Record.seq = handled[r] + lostCount[r] + 1
<1>1. InRing /\ Record.lost = 0 /\ handled' = [handled EXCEPT ![Ring] = @ + 1]
  BY DEF Callback
<1>2. handled \in [Maps \X CPU -> Nat]
  BY DEF HoleInv, TracerInv, UserTypes
<1>3. r = Ring
  BY <1>1, <1>2
<1>4. /\ TracerInv /\ cursor # None /\ main = "read"
      /\ cursor.done + 1 \in 1..cursor.head /\ cursor.head \in 0..Len(rings[r])
  BY <1>1, <1>3, RecordFacts, RingFacts DEF HoleInv, InRing, At
<1>5. PICK n \in Nat : n = Len(rings[r])
  BY <1>4, LenProperties DEF TracerInv, BpfTypeOK
<1>6. cursor.done + 1 \in 1..n
  BY <1>4, <1>5
<1>7. PICK B : Numbers(r, B)
  BY <1>4 DEF HoleInv, LoopOpen, Numbering, Numbered
<1>8. Done(r) = cursor.done
  BY <1>3, <1>4 DEF Done
<1>9. B[cursor.done + 1] = handled[r] + lostCount[r]
  BY <1>7, <1>8 DEF Numbers
<1>10. Record.seq = B[cursor.done + 1] + 1
  BY <1>1, <1>3, <1>5, <1>6, <1>7 DEF Numbers, Chain, Record
<1>11. QED
  BY <1>9, <1>10

(* No hole in the output of tcp_analyse goes unreported: every callback    *)
(* gets the sample after those that were printed, filtered or counted as   *)
(* lost on its ring, for rings of any size and any number of processors.   *)
THEOREM NoSilentHoles == Spec => HolesAreReported
<1>1. HoleInv /\ [Next]_vars =>
          [\A r \in Maps \X CPU : handled'[r] # handled[r] =>
               Record.seq = handled[r] + lostCount[r] + 1]_vars
  <2>1. SUFFICES ASSUME HoleInv, [Next]_vars, NEW r \in Maps \X CPU, handled'[r] # handled[r]
                 PROVE  Record.seq = handled[r] + lostCount[r] + 1
    OBVIOUS
  <2>2. Callback \/ UNCHANGED handled
    BY <2>1 DEF Next, Main, Kernel, sig_int, SigintKills, tcp_analyse_bpf__open,
       fentry_can_attach, tcp_analyse_bpf__load, AttachLink, AttachDone, NewPb,
       NewSendmsgPb, perf_buffer__new, CheckPb, InstallHandler, While, EpollReady,
       EpollNothing, EpollFails, ReadHead, handle_event, handle_tcp_sendmsg_event,
       handle_lost_events, WriteTail, RingsRead, FreePb, FreeSendmsgPb,
       tcp_analyse_bpf__destroy, pollVars, userVars, vars
  <2>3. QED
    BY <2>1, <2>2, CallbackGetsNext
<1>2. QED
  BY <1>1, HoleInvInit, HoleInvNext, PTL DEF Spec, HolesAreReported

=============================================================================
