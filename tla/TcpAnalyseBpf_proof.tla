------------------------ MODULE TcpAnalyseBpf_proof ------------------------
(***************************************************************************)
(* Proofs about the kernel's side of the client tracer, for any number of  *)
(* sockets, contexts and processors, any size of map and rings, and any    *)
(* user space that attaches, opens, reads, closes and detaches.            *)
(***************************************************************************)
EXTENDS TcpAnalyseBpf, SequenceTheorems, TLAPS

-----------------------------------------------------------------------------
(* Arithmetic.                                                             *)

(* The quotient of the conversion from nanoseconds.                        *)
LEMMA DivBounds ==
    ASSUME NEW a \in Nat, NEW n \in Nat \ {0}
    PROVE  /\ a \div n \in Nat
           /\ n * (a \div n) <= a
           /\ a < n * ((a \div n) + 1)
BY SMT

LEMMA MulMonotone ==
    ASSUME NEW x \in Int, NEW y \in Int, NEW n \in Nat \ {0}, x <= y
    PROVE  n * x <= n * y
BY SMT

(* Usec never overtakes the clock and never goes back.                     *)
LEMMA UsecType ==
    ASSUME NEW a \in Nat
    PROVE  Usec(a) \in Nat /\ Usec(a) <= a
<1>1. NSEC_PER_USEC \in Nat \ {0}
  BY BpfAssumption
<1>2. QED
  BY <1>1, DivBounds, SMT DEF Usec

LEMMA UsecMonotone ==
    ASSUME NEW a \in Nat, NEW b \in Nat, a <= b
    PROVE  Usec(a) <= Usec(b)
<1> DEFINE n == NSEC_PER_USEC
<1>1. n \in Nat \ {0}
  BY BpfAssumption
<1> HIDE DEF n
<1>2. SUFFICES ASSUME a \div n > b \div n PROVE FALSE
  BY <1>1, DivBounds DEF Usec, n
<1>3. n * ((b \div n) + 1) <= n * (a \div n)
  BY <1>1, <1>2, DivBounds, MulMonotone
<1>4. QED
  BY <1>1, <1>3, DivBounds

(* Subtracting an earlier time stamp does not wrap.                        *)
LEMMA U64SubExact ==
    ASSUME NEW a \in Nat, NEW b \in Nat, b <= a, a <= MaxClock
    PROVE  U64Sub(a, b) = a - b
<1>1. U64 \in Nat /\ MaxClock \in Nat /\ MaxClock < U64
  BY BpfAssumption
<1>2. QED
  BY <1>1, SMT DEF U64Sub

LEMMA U64SubType ==
    ASSUME NEW a \in Int, NEW b \in Int
    PROVE  U64Sub(a, b) \in 0..(U64 - 1)
<1>1. U64 \in Nat /\ U64 > 0
  BY BpfAssumption
<1>2. QED
  BY <1>1, SMT DEF U64Sub

-----------------------------------------------------------------------------
(* Type correctness.                                                       *)

LEMMA FrameRunning ==
    ASSUME BpfTypeOK, NEW c \in Ctx, frame[c].at # "idle"
    PROVE  frame[c] \in Running
BY DEF BpfTypeOK, IdleFrame

LEMMA EventType ==
    ASSUME BpfTypeOK, NEW func \in Probes, NEW s \in Sock,
           NEW tgid \in Pid \cup {0}
    PROVE  Event(func, s, tgid) \in Events
<1>1. Usec(clock) \in Nat
  BY UsecType, BpfAssumption DEF BpfTypeOK
<1>2. 0 \in 0..(U64 - 1)
  BY BpfAssumption
<1>3. get_tcp_state(skc_state[s]) \in {get_tcp_state(n) : n \in 0..12}
  BY DEF BpfTypeOK
<1>4. QED
  BY <1>1, <1>2, <1>3 DEF BpfTypeOK, Event, Events

LEMMA EnterFrameType ==
    ASSUME BpfTypeOK, NEW c \in Ctx, NEW func \in Probes, NEW s \in Sock,
           NEW tgid \in Pid \cup {0},
           NEW first \in {"update", "lookup", "output"},
           EnterFrame(c, func, s, tgid, first)
    PROVE  /\ frame' \in [Ctx -> Running \cup {IdleFrame}]
           /\ calls' \in 0..MaxCalls
<1>1. Event(func, s, tgid) \in Events
  BY EventType
<1>2. frame' \in [Ctx -> Running \cup {IdleFrame}]
  BY <1>1 DEF EnterFrame, BpfTypeOK, Running
<1>3. calls' \in 0..MaxCalls
  BY BpfAssumption DEF EnterFrame, BpfTypeOK
<1>4. QED
  BY <1>2, <1>3

(* Assigning to one place of a function keeps its type.                    *)
LEMMA ExceptType ==
    ASSUME NEW I, NEW S, NEW f \in [I -> S], NEW i \in I, NEW v \in S
    PROVE  [f EXCEPT ![i] = v] \in [I -> S]
OBVIOUS

(* Whatever set the records of the rings are taken from, a program's       *)
(* output leaves only the new records in addition.                         *)
LEMMA OutputKeeps ==
    ASSUME NEW S, NEW r \in Maps \X CPU, NEW e,
           rings \in [Maps \X CPU -> Seq(S)],
           Sample(r, e) \in S, overrun[r] > 0 => LostRecord(r) \in S,
           bpf_perf_event_output(r, e)
    PROVE  rings' \in [Maps \X CPU -> Seq(S)]
<1> DEFINE R == Maps \X CPU
           new == (IF overrun[r] > 0 THEN Append(rings[r], LostRecord(r))
                   ELSE rings[r]) \o <<Sample(r, e)>>
<1>1. rings[r] \in Seq(S)
  OBVIOUS
<1>2. new \in Seq(S)
  BY <1>1
<1>3. rings' = rings \/ rings' = [rings EXCEPT ![r] = new]
  BY DEF bpf_perf_event_output
<1>4. rings \in [R -> Seq(S)] /\ r \in R
  OBVIOUS
<1> HIDE DEF R, new
<1>5. rings' \in [R -> Seq(S)]
  <2>1. [rings EXCEPT ![r] = new] \in [R -> Seq(S)]
    BY <1>2, <1>4, ExceptType
  <2>2. QED
    BY <1>3, <1>4, <2>1, Zenon
<1>6. QED
  BY <1>5 DEF R

LEMMA CountersType ==
    ASSUME BpfTypeOK, NEW r \in Maps \X CPU, NEW e, bpf_perf_event_output(r, e)
    PROVE  /\ overrun' \in [Maps \X CPU -> Nat]
           /\ emitted' \in [Maps \X CPU -> Nat]
<1> DEFINE R == Maps \X CPU
<1>1. /\ \/ overrun' = overrun
         \/ overrun' = [overrun EXCEPT ![r] = 0]
         \/ overrun' = [overrun EXCEPT ![r] = overrun[r] + 1]
      /\ emitted' = emitted \/ emitted' = [emitted EXCEPT ![r] = emitted[r] + 1]
  BY DEF bpf_perf_event_output
<1>2. overrun[r] + 1 \in Nat /\ emitted[r] + 1 \in Nat
  BY DEF BpfTypeOK
<1>3. r \in R /\ overrun \in [R -> Nat] /\ emitted \in [R -> Nat]
  BY DEF BpfTypeOK
<1> HIDE DEF R
<1>4. emitted' \in [R -> Nat]
  BY <1>1, <1>2, <1>3, ExceptType, Zenon
<1>5. overrun' \in [R -> Nat]
  BY <1>1, <1>2, <1>3, 0 \in Nat, ExceptType, Zenon
<1>6. QED
  BY <1>4, <1>5 DEF R

LEMMA RecordTypes ==
    ASSUME BpfTypeOK, NEW r \in Maps \X CPU, NEW e \in Events
    PROVE  /\ Sample(r, e) \in Records
           /\ overrun[r] > 0 => LostRecord(r) \in Records
<1>1. emitted[r] \in Nat /\ overrun[r] \in Nat
  BY DEF BpfTypeOK
<1>2. Sample(r, e) \in Records
  BY <1>1 DEF Sample, Samples, Records
<1>3. overrun[r] > 0 => LostRecord(r) \in Records
  BY <1>1 DEF LostRecord, Records
<1>4. QED
  BY <1>2, <1>3

(* The same for a reader, a close and a kill, which only remove records.   *)
LEMMA ConsumeKeeps ==
    ASSUME NEW S, NEW r \in Maps \X CPU, NEW n \in Nat,
           rings \in [Maps \X CPU -> Seq(S)], ConsumeRing(r, n)
    PROVE  rings' \in [Maps \X CPU -> Seq(S)]
<1> DEFINE R == Maps \X CPU
           new == SubSeq(rings[r], n + 1, Len(rings[r]))
<1>1. rings[r] \in Seq(S) /\ Len(rings[r]) \in Nat
  OBVIOUS
<1>2. \A i \in (n + 1)..Len(rings[r]) : rings[r][i] \in S
  BY <1>1
<1>3. new \in Seq(S)
  BY <1>1, <1>2, SubSeqProperties
<1>4. rings' = [rings EXCEPT ![r] = new]
  BY DEF ConsumeRing
<1>5. rings \in [R -> Seq(S)] /\ r \in R
  OBVIOUS
<1> HIDE DEF R, new
<1>6. rings' \in [R -> Seq(S)]
  BY <1>3, <1>4, <1>5, ExceptType, Zenon
<1>7. QED
  BY <1>6 DEF R

(* Every step of the programs, the stack and user space keeps the types.   *)
LEMMA ProgramType ==
    ASSUME BpfTypeOK, NEW c \in Ctx, Program(c), UNCHANGED <<attached, opened>>
    PROVE  BpfTypeOK'
<1>1. ASSUME NEW s \in Sock, handle_tcp_v4_connect(c, s)
      PROVE  BpfTypeOK'
  <2>1. owner[s] \in Pid
    BY DEF BpfTypeOK
  <2>2. /\ frame' \in [Ctx -> Running \cup {IdleFrame}]
        /\ calls' \in 0..MaxCalls
    BY <1>1, <2>1, EnterFrameType DEF handle_tcp_v4_connect, Probes
  <2>3. attempt' \in [Sock -> Attempts]
    BY <1>1 DEF handle_tcp_v4_connect, BpfTypeOK, Attempts, Untraced
  <2>4. lock' \in [Sock -> Ctx \cup {None}]
    BY <1>1 DEF handle_tcp_v4_connect, BpfTypeOK
  <2>5. QED
    BY <1>1, <2>2, <2>3, <2>4 DEF handle_tcp_v4_connect, BpfTypeOK
<1>2. ASSUME NEW s \in Sock, handle_tcp_sendmsg(c, s)
      PROVE  BpfTypeOK'
  <2>1. owner[s] \in Pid
    BY DEF BpfTypeOK
  <2>2. /\ frame' \in [Ctx -> Running \cup {IdleFrame}]
        /\ calls' \in 0..MaxCalls
    BY <1>2, <2>1, EnterFrameType DEF handle_tcp_sendmsg, Probes
  <2>3. QED
    BY <1>2, <2>2 DEF handle_tcp_sendmsg, BpfTypeOK
<1>3. ASSUME NEW s \in Sock, NEW tgid \in Pid \cup {0},
             handle_tcp_rcv_state_process(c, s, tgid)
      PROVE  BpfTypeOK'
  <2>1. /\ frame' \in [Ctx -> Running \cup {IdleFrame}]
        /\ calls' \in 0..MaxCalls
    BY <1>3, EnterFrameType DEF handle_tcp_rcv_state_process, Probes
  <2>2. lock' \in [Sock -> Ctx \cup {None}]
    BY <1>3 DEF handle_tcp_rcv_state_process, BpfTypeOK
  <2>3. QED
    BY <1>3, <2>1, <2>2 DEF handle_tcp_rcv_state_process, BpfTypeOK
<1>4. CASE UpdateConnect(c)
  <2>1. frame[c] \in Running
    BY <1>4, FrameRunning DEF UpdateConnect
  <2>2. frame[c].sk \in Sock /\ frame[c].event.ts_us \in Nat
    BY <2>1 DEF Running, Events
  <2>3. frame' \in [Ctx -> Running \cup {IdleFrame}]
    BY <1>4, <2>1 DEF UpdateConnect, BpfTypeOK, Running
  <2>4. connect' \in [Sock -> Nat \cup {None}]
    BY <1>4, <2>2 DEF UpdateConnect, BpfTypeOK, bpf_map_update_elem
  <2>5. attempt' \in [Sock -> Attempts]
    BY <1>4, <2>2 DEF UpdateConnect, BpfTypeOK, Attempts
  <2>6. QED
    BY <1>4, <2>3, <2>4, <2>5 DEF UpdateConnect, BpfTypeOK
<1>5. CASE LookupConnect(c)
  <2>1. frame[c] \in Running
    BY <1>5, FrameRunning DEF LookupConnect
  <2> DEFINE v == ConnectTime(frame[c].sk, frame[c].event.ts_us)
  <2>2. frame[c].sk \in Sock /\ frame[c].event \in Events
    BY <2>1 DEF Running
  <2>3. frame[c].event.ts_us \in Nat /\ connect[frame[c].sk] \in Nat \cup {None}
    BY <2>2 DEF Events, BpfTypeOK
  <2>4. v \in 0..(U64 - 1)
    <3>1. CASE connect[frame[c].sk] = None
      BY <3>1, BpfAssumption DEF ConnectTime
    <3>2. CASE connect[frame[c].sk] # None
      <4>1. connect[frame[c].sk] \in Int /\ frame[c].event.ts_us \in Int
        BY <2>3, <3>2
      <4>2. QED
        BY <3>2, <4>1, U64SubType DEF ConnectTime
    <3>3. QED
      BY <3>1, <3>2
  <2> HIDE DEF v
  <2>5. [frame[c].event EXCEPT !.tcp_connect_time = v] \in Events
    BY <2>2, <2>4 DEF Events
  <2> DEFINE f == [frame[c] EXCEPT !.at = "delete",
                      !.event = [frame[c].event EXCEPT !.tcp_connect_time = v]]
             g == [frame[c] EXCEPT !.at = "output"]
  <2>6. f \in Running /\ g \in Running
    BY <2>1, <2>5 DEF Running
  <2>7. frame' = [frame EXCEPT ![c] = f] \/ frame' = [frame EXCEPT ![c] = g]
    <3>1. CASE skc_state[frame[c].sk] = TCP_SYN_SENT
      BY <1>5, <3>1, Zenon DEF LookupConnect, v
    <3>2. CASE skc_state[frame[c].sk] # TCP_SYN_SENT
      BY <1>5, <3>2, Zenon DEF LookupConnect, v
    <3>3. QED
      BY <3>1, <3>2
  <2> HIDE DEF f, g
  <2>8. frame' \in [Ctx -> Running \cup {IdleFrame}]
    BY <2>6, <2>7 DEF BpfTypeOK
  <2>9. QED
    BY <1>5, <2>8 DEF LookupConnect, BpfTypeOK
<1>6. CASE DeleteConnect(c)
  <2>1. frame[c] \in Running
    BY <1>6, FrameRunning DEF DeleteConnect
  <2>2. frame[c].sk \in Sock
    BY <2>1 DEF Running
  <2>3. frame' \in [Ctx -> Running \cup {IdleFrame}]
    BY <1>6, <2>1 DEF DeleteConnect, BpfTypeOK, Running
  <2>4. connect' \in [Sock -> Nat \cup {None}]
    BY <1>6, <2>2 DEF DeleteConnect, BpfTypeOK, bpf_map_delete_elem
  <2>5. attempt' \in [Sock -> Attempts]
    <3>1. attempt \in [Sock -> Attempts]
      BY DEF BpfTypeOK
    <3>2. QED
      BY <1>6, <2>2, <3>1 DEF DeleteConnect, Attempts
  <2>6. QED
    BY <1>6, <2>3, <2>4, <2>5 DEF DeleteConnect, BpfTypeOK
<1>7. CASE Output(c)
  <2>1. frame[c] \in Running
    BY <1>7, FrameRunning DEF Output
  <2>2. frame[c].event \in Events /\ RingOf(c) \in Maps \X CPU
    BY <2>1, BpfAssumption DEF Running, RingOf, Maps
  <2>3. /\ rings' \in [Maps \X CPU -> Seq(Records)]
        /\ overrun' \in [Maps \X CPU -> Nat]
        /\ emitted' \in [Maps \X CPU -> Nat]
    BY <1>7, <2>2, OutputKeeps, RecordTypes, CountersType DEF Output, BpfTypeOK
  <2>4. frame' \in [Ctx -> Running \cup {IdleFrame}]
    BY <1>7, <2>1 DEF Output, BpfTypeOK, Running
  <2>5. QED
    BY <1>7, <2>3, <2>4 DEF Output, BpfTypeOK
<1>8. CASE Body(c)
  <2>1. frame[c] \in Running
    BY <1>8, FrameRunning DEF Body
  <2>2. frame[c].sk \in Sock
    BY <2>1 DEF Running
  <2>3. \A state \in BodyResults(frame[c].func, skc_state[frame[c].sk]) :
            state \in 0..12
    BY <2>2 DEF BodyResults, BpfTypeOK, TCP_SYN_SENT, TCP_ESTABLISHED, TCP_CLOSE
  <2>4. skc_state' \in [Sock -> 0..12]
    BY <1>8, <2>2, <2>3 DEF Body, BpfTypeOK
  <2>5. frame' \in [Ctx -> Running \cup {IdleFrame}]
    BY <1>8 DEF Body, BpfTypeOK
  <2>6. lock' \in [Sock -> Ctx \cup {None}]
    BY <1>8, <2>2 DEF Body, BpfTypeOK
  <2>7. QED
    BY <1>8, <2>4, <2>5, <2>6 DEF Body, BpfTypeOK
<1>9. QED
  BY <1>1, <1>2, <1>3, <1>4, <1>5, <1>6, <1>7, <1>8 DEF Program

LEMMA StackType ==
    ASSUME BpfTypeOK, NEW s \in Sock, Stack(s), UNCHANGED <<attached, opened>>
    PROVE  BpfTypeOK'
<1>1. FREE \in 0..12 /\ TCP_CLOSE \in 0..12 /\ TCP_FIN_WAIT1 \in 0..12
      /\ TCP_SYN_SENT \in 0..12
  BY DEF FREE, TCP_CLOSE, TCP_FIN_WAIT1, TCP_SYN_SENT
<1>2. Untraced \in Attempts
  BY DEF Untraced, Attempts
<1>3. ASSUME NEW from, NEW to \in 0..12, SockStep(s, from, to),
             owner' \in [Sock -> Pid], attempt' \in [Sock -> Attempts]
      PROVE  BpfTypeOK'
  BY <1>3 DEF SockStep, BpfTypeOK
<1>4. ASSUME NEW p \in Pid, SockAlloc(s, p)
      PROVE  BpfTypeOK'
  BY <1>1, <1>2, <1>3, <1>4 DEF SockAlloc, BpfTypeOK
<1>5. CASE SockFree(s)
  BY <1>1, <1>3, <1>5 DEF SockFree, BpfTypeOK
<1>6. CASE ConnectTimeout(s)
  BY <1>1, <1>3, <1>6 DEF ConnectTimeout, BpfTypeOK
<1>7. CASE Shutdown(s)
  BY <1>1, <1>3, <1>7 DEF Shutdown, BpfTypeOK
<1>8. CASE tcp_v6_connect(s)
  BY <1>1, <1>2, <1>3, <1>8 DEF tcp_v6_connect, BpfTypeOK
<1>9. QED
  BY <1>4, <1>5, <1>6, <1>7, <1>8 DEF Stack

LEMMA UserSpaceType ==
    ASSUME BpfTypeOK, UserSpace
    PROVE  BpfTypeOK'
<1>1. ASSUME NEW p \in Probes, Attach(p)
      PROVE  BpfTypeOK'
  BY <1>1 DEF Attach, BpfTypeOK, kernelVars
<1>2. ASSUME NEW m \in Maps, OpenArray(m)
      PROVE  BpfTypeOK'
  BY <1>2 DEF OpenArray, BpfTypeOK, kernelVars
<1>3. ASSUME NEW m \in Maps, CloseArray(m)
      PROVE  BpfTypeOK'
  <2>1. <<>> \in Seq(Records)
    OBVIOUS
  <2>2. rings' \in [Maps \X CPU -> Seq(Records)]
    BY <1>3, <2>1 DEF CloseArray, BpfTypeOK
  <2>3. overrun' \in [Maps \X CPU -> Nat]
    BY <1>3 DEF CloseArray, BpfTypeOK
  <2>4. QED
    BY <1>3, <2>2, <2>3 DEF CloseArray, BpfTypeOK
<1>4. ASSUME NEW r \in Maps \X CPU, NEW n \in 0..Len(rings[r]), ConsumeRing(r, n)
      PROVE  BpfTypeOK'
  <2>1. Len(rings[r]) \in Nat
    BY DEF BpfTypeOK
  <2>2. rings' \in [Maps \X CPU -> Seq(Records)]
    BY <1>4, <2>1, ConsumeKeeps DEF BpfTypeOK
  <2>3. QED
    BY <1>4, <2>2 DEF ConsumeRing, BpfTypeOK
<1>5. CASE DetachAll
  BY <1>5 DEF DetachAll, BpfTypeOK, kernelVars
<1>6. CASE Release
  <2>1. <<>> \in Seq(Records)
    OBVIOUS
  <2>2. rings' \in [Maps \X CPU -> Seq(Records)]
    BY <1>6, <2>1 DEF Release
  <2>3. overrun' \in [Maps \X CPU -> Nat]
    BY <1>6 DEF Release
  <2>4. QED
    BY <1>6, <2>2, <2>3 DEF Release, BpfTypeOK
<1>7. QED
  BY <1>1, <1>2, <1>3, <1>4, <1>5, <1>6 DEF UserSpace

LEMMA TypeInit == BpfInit => BpfTypeOK
<1>1. Untraced \in Attempts
  BY DEF Untraced, Attempts
<1>2. \A S : <<>> \in Seq(S)
  OBVIOUS
<1>3. QED
  BY <1>1, <1>2, BpfAssumption DEF BpfInit, KernelInit, BpfTypeOK, FREE

LEMMA TypeNext == BpfTypeOK /\ [BpfNext]_bpfVars => BpfTypeOK'
<1> SUFFICES ASSUME BpfTypeOK, [BpfNext]_bpfVars
             PROVE  BpfTypeOK'
  OBVIOUS
<1>1. CASE KernelStep
  <2>1. CASE Tick
    BY <1>1, <2>1, BpfAssumption DEF KernelStep, Tick, BpfTypeOK
  <2>2. QED
    BY <1>1, <2>1, ProgramType, StackType DEF KernelStep, KernelNext
<1>2. CASE UserSpace
  BY <1>2, UserSpaceType
<1>3. CASE UNCHANGED bpfVars
  BY <1>3 DEF bpfVars, kernelVars, BpfTypeOK
<1>4. QED
  BY <1>1, <1>2, <1>3 DEF BpfNext

(* The kernel's side never leaves its types, whatever user space does:     *)
(* in particular every tcp_connect_time is a __u64.                        *)
THEOREM BpfTypeCorrect == BpfSpec => []BpfTypeOK
BY TypeInit, TypeNext, PTL DEF BpfSpec

-----------------------------------------------------------------------------
(* The inductive invariant.                                                *)

(* What the invariant says apart from types and rings: it depends on the   *)
(* clock, the lock, the contexts, the map and the history only.            *)
Core ==
    /\ ConnectMapAgrees
    /\ ConnectTimeSound
    /\ FramesNeverWrap
    /\ LockHeld
    /\ Phases
    /\ TimeOrder

LEMMA InvParts == BpfInv <=> BpfTypeOK /\ Core /\ RingsNeverWrap
BY DEF BpfInv, Core, ConnectTimeNeverWraps

LEMMA QuietCore ==
    ASSUME Core, UNCHANGED <<clock, lock, frame, connect, attempt>>
    PROVE  Core'
BY DEF Core, ConnectMapAgrees, ConnectTimeSound, FramesNeverWrap, LockHeld,
       Phases, TimeOrder

LEMMA EnterFacts ==
    ASSUME BpfTypeOK, NEW c \in Ctx, NEW func \in Probes, NEW s \in Sock,
           NEW tgid \in Pid \cup {0}, NEW first,
           EnterFrame(c, func, s, tgid, first)
    PROVE  /\ frame[c].at = "idle"
           /\ frame'[c].sk = s /\ frame'[c].func = func
           /\ frame'[c].at \in {first, "body"}
           /\ frame'[c].event.ts_us = Usec(clock)
           /\ frame'[c].event.tcp_connect_time = 0
           /\ \A d \in Ctx : d # c => frame'[d] = frame[d]
<1>1. frame'[c] = [at |-> IF Runs(func) THEN first ELSE "body",
                   func |-> func, sk |-> s, event |-> Event(func, s, tgid)]
  BY DEF EnterFrame, BpfTypeOK
<1>2. \A d \in Ctx : d # c => frame'[d] = frame[d]
  BY DEF EnterFrame, BpfTypeOK
<1>3. QED
  BY <1>1, <1>2 DEF EnterFrame, Event

(* A context between its first access to the map and its last holds the    *)
(* lock of its socket, so no two of them work on the same entry.           *)
InMap(d) == frame[d].at \in {"update", "lookup", "delete"}

LEMMA InMapLocked ==
    ASSUME BpfTypeOK, Core, NEW d \in Ctx, InMap(d)
    PROVE  /\ frame[d] \in Running
           /\ frame[d].sk \in Sock
           /\ lock[frame[d].sk] = d
<1>1. frame[d] \in Running
  BY FrameRunning DEF InMap
<1>2. QED
  BY <1>1 DEF InMap, Core, Phases, LockHeld, Running

(* A context that enters a function locks the socket or sends; nobody else *)
(* is in a map access of the socket then.                                  *)
LEMMA EnterCore ==
    ASSUME BpfTypeOK, Core, NEW c \in Ctx, NEW func \in Probes, NEW s \in Sock,
           NEW tgid \in Pid \cup {0}, NEW first \in {"update", "lookup", "output"},
           EnterFrame(c, func, s, tgid, first),
           UNCHANGED <<clock, connect>>,
           \/ func = "tcp_sendmsg" /\ lock' = lock
           \/ lock[s] = None /\ lock' = [lock EXCEPT ![s] = c],
           first = "update" => func = "tcp_v4_connect",
           first = "lookup" => func = "tcp_rcv_state_process",
           \/ attempt' = attempt
           \/ lock[s] = None /\ attempt' = [attempt EXCEPT ![s] = Untraced]
    PROVE  Core'
<1>1. /\ frame[c].at = "idle"
      /\ frame'[c].sk = s /\ frame'[c].func = func
      /\ frame'[c].at \in {first, "body"}
      /\ frame'[c].event.ts_us = Usec(clock)
      /\ frame'[c].event.tcp_connect_time = 0
      /\ \A d \in Ctx : d # c => frame'[d] = frame[d]
  BY EnterFacts
<1>2. Usec(clock) \in Nat
  BY UsecType, BpfAssumption DEF BpfTypeOK
<1>3. None \notin Ctx
  BY BpfAssumption
<1>4. \A d \in Ctx : InMap(d) => lock[frame[d].sk] = d /\ frame[d].sk \in Sock
  BY InMapLocked
<1>5. ConnectMapAgrees'
  BY DEF Core, ConnectMapAgrees, BpfTypeOK, Untraced
<1>6. ConnectTimeSound'
  <2> SUFFICES ASSUME NEW d \in Ctx, frame'[d].at = "delete",
                      attempt'[frame'[d].sk].status # "untraced"
               PROVE  frame'[d].event.tcp_connect_time =
                          IF attempt'[frame'[d].sk].status = "waiting"
                          THEN frame'[d].event.ts_us - attempt'[frame'[d].sk].began
                          ELSE 0
    BY DEF ConnectTimeSound
  <2>1. d # c
    BY <1>1
  <2>2. frame'[d] = frame[d]
    BY <1>1, <2>1
  <2>3. lock[frame[d].sk] = d /\ frame[d].sk \in Sock
    BY <1>4, <2>2 DEF InMap
  <2>4. attempt'[frame[d].sk] = attempt[frame[d].sk]
    BY <1>3, <2>3 DEF BpfTypeOK
  <2>5. QED
    BY <2>2, <2>4 DEF Core, ConnectTimeSound
<1>7. FramesNeverWrap'
  BY <1>1, <1>2 DEF Core, FramesNeverWrap
<1>8. LockHeld'
  <2> SUFFICES ASSUME NEW d \in Ctx, frame'[d].at # "idle",
                      frame'[d].func # "tcp_sendmsg"
               PROVE  lock'[frame'[d].sk] = d
    BY DEF LockHeld
  <2>1. CASE d = c
    BY <1>1, <2>1 DEF BpfTypeOK
  <2>2. CASE d # c
    <3>1. frame'[d] = frame[d]
      BY <1>1, <2>2
    <3>2. lock[frame[d].sk] = d
      BY <3>1 DEF Core, LockHeld
    <3>3. frame[d].sk \in Sock
      BY <3>1, FrameRunning DEF Running
    <3>4. QED
      BY <1>3, <3>1, <3>2, <3>3 DEF BpfTypeOK
  <2>3. QED
    BY <2>1, <2>2
<1>9. Phases'
  BY <1>1 DEF Core, Phases
<1>10. TimeOrder'
  <2>1. \A t \in Sock : connect'[t] # None => connect'[t] <= Usec(clock')
    BY DEF Core, TimeOrder
  <2>2. \A d \in Ctx : frame'[d].at # "idle" => frame'[d].event.ts_us <= Usec(clock')
    BY <1>1, <1>2 DEF Core, TimeOrder
  <2>3. \A d \in Ctx : frame'[d].at = "lookup" /\ connect'[frame'[d].sk] # None =>
            connect'[frame'[d].sk] <= frame'[d].event.ts_us
    BY <1>1, <1>2 DEF Core, TimeOrder
  <2>4. QED
    BY <2>1, <2>2, <2>3 DEF TimeOrder
<1>11. QED
  BY <1>5, <1>6, <1>7, <1>8, <1>9, <1>10 DEF Core

(* tcp_v4_connect stores its time stamp: map and history move together.    *)
LEMMA UpdateCore ==
    ASSUME BpfTypeOK, Core, NEW c \in Ctx, UpdateConnect(c)
    PROVE  Core'
<1> DEFINE s == frame[c].sk
<1>1. InMap(c) /\ frame[c].at = "update"
  BY DEF UpdateConnect, InMap
<1>2. frame[c] \in Running /\ s \in Sock /\ lock[s] = c
  BY <1>1, InMapLocked
<1>3. frame[c].event.ts_us \in Nat /\ frame[c].event.ts_us <= Usec(clock)
  BY <1>1, <1>2 DEF Core, TimeOrder, Running, Events
<1>4. /\ frame'[c] = [frame[c] EXCEPT !.at = "output"]
      /\ \A d \in Ctx : d # c => frame'[d] = frame[d]
  BY DEF UpdateConnect, BpfTypeOK
<1>5. /\ frame'[c].at = "output" /\ frame'[c].sk = s
      /\ frame'[c].func = frame[c].func /\ frame'[c].event = frame[c].event
  BY <1>2, <1>4 DEF Running
<1>6. \A d \in Ctx : d # c /\ InMap(d) => frame[d].sk \in Sock \ {s}
  BY <1>2, InMapLocked
<1>7. /\ lock' = lock /\ clock' = clock
      /\ \A t \in Sock : t # s => connect'[t] = connect[t] /\ attempt'[t] = attempt[t]
  BY <1>2 DEF UpdateConnect, bpf_map_update_elem, BpfTypeOK
<1>8. attempt'[s] = [status |-> IF HasRoom(s) THEN "waiting" ELSE "unstored",
                     began |-> frame[c].event.ts_us]
  BY <1>2 DEF UpdateConnect, BpfTypeOK
<1>9. connect'[s] = IF HasRoom(s) THEN frame[c].event.ts_us ELSE connect[s]
  BY <1>2 DEF UpdateConnect, bpf_map_update_elem, BpfTypeOK
<1>10. ~ HasRoom(s) => connect[s] = None
  BY DEF HasRoom
<1> HIDE DEF s
<1>11. ConnectMapAgrees'
  BY <1>2, <1>7, <1>8, <1>9, <1>10 DEF Core, ConnectMapAgrees
<1>12. ConnectTimeSound'
  <2> SUFFICES ASSUME NEW d \in Ctx, frame'[d].at = "delete",
                      attempt'[frame'[d].sk].status # "untraced"
               PROVE  frame'[d].event.tcp_connect_time =
                          IF attempt'[frame'[d].sk].status = "waiting"
                          THEN frame'[d].event.ts_us - attempt'[frame'[d].sk].began
                          ELSE 0
    BY DEF ConnectTimeSound
  <2>1. d # c /\ frame'[d] = frame[d]
    BY <1>4, <1>5
  <2>2. attempt'[frame[d].sk] = attempt[frame[d].sk]
    BY <1>6, <1>7, <2>1 DEF InMap
  <2>3. QED
    BY <2>1, <2>2 DEF Core, ConnectTimeSound
<1>13. FramesNeverWrap'
  BY <1>1, <1>4, <1>5 DEF Core, FramesNeverWrap
<1>14. LockHeld'
  <2>1. lock'[frame'[c].sk] = c
    BY <1>2, <1>5, <1>7
  <2>2. \A d \in Ctx : d # c => frame'[d] = frame[d] /\ lock' = lock
    BY <1>4, <1>7
  <2>3. QED
    BY <2>1, <2>2 DEF Core, LockHeld
<1>15. Phases'
  BY <1>4, <1>5 DEF Core, Phases
<1>16. TimeOrder'
  <2>1. \A t \in Sock : connect'[t] # None => connect'[t] <= Usec(clock')
    BY <1>3, <1>7, <1>9, <1>10 DEF Core, TimeOrder
  <2>2. \A d \in Ctx : frame'[d].at # "idle" => frame'[d].event.ts_us <= Usec(clock')
    BY <1>1, <1>4, <1>5, <1>7 DEF Core, TimeOrder
  <2>3. \A d \in Ctx : frame'[d].at = "lookup" /\ connect'[frame'[d].sk] # None =>
            connect'[frame'[d].sk] <= frame'[d].event.ts_us
    <3> SUFFICES ASSUME NEW d \in Ctx, frame'[d].at = "lookup",
                        connect'[frame'[d].sk] # None
                 PROVE  connect'[frame'[d].sk] <= frame'[d].event.ts_us
      OBVIOUS
    <3>1. d # c /\ frame'[d] = frame[d]
      BY <1>4, <1>5
    <3>2. connect'[frame[d].sk] = connect[frame[d].sk]
      BY <1>6, <1>7, <3>1 DEF InMap
    <3>3. QED
      BY <3>1, <3>2 DEF Core, TimeOrder
  <2>4. QED
    BY <2>1, <2>2, <2>3 DEF TimeOrder
<1>17. QED
  BY <1>11, <1>12, <1>13, <1>14, <1>15, <1>16 DEF Core

(* The lookup: the entry is the start of the attempt, and it is older than *)
(* the time stamp of the segment, so the difference is exact.              *)
LEMMA LookupCore ==
    ASSUME BpfTypeOK, Core, NEW c \in Ctx, LookupConnect(c)
    PROVE  Core'
<1> DEFINE s == frame[c].sk
           e == frame[c].event
           v == ConnectTime(s, e.ts_us)
<1>1. InMap(c) /\ frame[c].at = "lookup"
  BY DEF LookupConnect, InMap
<1>2. frame[c] \in Running /\ s \in Sock /\ lock[s] = c
  BY <1>1, InMapLocked
<1>3. e \in Events /\ e.ts_us \in Nat /\ e.ts_us <= Usec(clock)
  BY <1>1, <1>2 DEF Core, TimeOrder, Running, Events
<1>4. clock \in Nat /\ clock <= MaxClock /\ MaxClock \in Nat
  BY BpfAssumption DEF BpfTypeOK
<1>5. e.ts_us <= MaxClock
  BY <1>3, <1>4, UsecType
<1>6. v = IF connect[s] = None THEN 0 ELSE e.ts_us - connect[s]
  <2>1. CASE connect[s] = None
    BY <2>1 DEF ConnectTime
  <2>2. CASE connect[s] # None
    <3>1. connect[s] \in Nat /\ connect[s] <= e.ts_us
      BY <1>1, <1>2, <2>2 DEF Core, TimeOrder, BpfTypeOK
    <3>2. QED
      BY <1>3, <1>5, <2>2, <3>1, U64SubExact DEF ConnectTime
  <2>3. QED
    BY <2>1, <2>2
<1>7. connect[s] # None => connect[s] \in Nat /\ connect[s] <= e.ts_us
  BY <1>1, <1>2 DEF Core, TimeOrder, BpfTypeOK
<1> DEFINE f == [frame[c] EXCEPT !.at = "delete",
                    !.event = [e EXCEPT !.tcp_connect_time = v]]
           g == [frame[c] EXCEPT !.at = "output"]
<1>8. frame' = [frame EXCEPT ![c] = f] \/ frame' = [frame EXCEPT ![c] = g]
  <2>1. CASE skc_state[s] = TCP_SYN_SENT
    BY <2>1, Zenon DEF LookupConnect
  <2>2. CASE skc_state[s] # TCP_SYN_SENT
    BY <2>2, Zenon DEF LookupConnect
  <2>3. QED
    BY <2>1, <2>2
<1> HIDE DEF v
<1>9. /\ f.at = "delete" /\ f.sk = s /\ f.func = frame[c].func
      /\ f.event.ts_us = e.ts_us /\ f.event.tcp_connect_time = v
  BY <1>2, <1>3 DEF Running, Events
<1>10. /\ g.at = "output" /\ g.sk = s /\ g.func = frame[c].func
       /\ g.event = e
  BY <1>2 DEF Running
<1> HIDE DEF f, g
<1>11. /\ frame'[c] = f \/ frame'[c] = g
       /\ \A d \in Ctx : d # c => frame'[d] = frame[d]
  BY <1>8 DEF BpfTypeOK
<1>12. UNCHANGED <<clock, lock, connect, attempt>>
  BY DEF LookupConnect
<1>13. v <= e.ts_us
  BY <1>3, <1>6, <1>7
<1>14. attempt[s].status # "untraced" =>
           v = IF attempt[s].status = "waiting" THEN e.ts_us - attempt[s].began
               ELSE 0
  <2>1. attempt[s].status \in {"untraced", "unstored", "waiting", "measured"}
        /\ attempt[s].began \in Nat
    BY <1>2 DEF BpfTypeOK, Attempts
  <2>2. CASE attempt[s].status = "waiting"
    <3>1. connect[s] = attempt[s].began
      BY <1>2, <2>2 DEF Core, ConnectMapAgrees
    <3>2. connect[s] # None
      BY <2>1, <3>1, BpfAssumption
    <3>3. QED
      BY <1>6, <2>2, <3>1, <3>2
  <2>3. CASE attempt[s].status \in {"unstored", "measured"}
    BY <1>2, <1>6, <2>3 DEF Core, ConnectMapAgrees
  <2>4. QED
    BY <2>1, <2>2, <2>3
<1>15. ConnectMapAgrees'
  BY <1>12 DEF Core, ConnectMapAgrees
<1>16. ConnectTimeSound'
  <2> SUFFICES ASSUME NEW d \in Ctx, frame'[d].at = "delete",
                      attempt[frame'[d].sk].status # "untraced"
               PROVE  frame'[d].event.tcp_connect_time =
                          IF attempt[frame'[d].sk].status = "waiting"
                          THEN frame'[d].event.ts_us - attempt[frame'[d].sk].began
                          ELSE 0
    BY <1>12 DEF ConnectTimeSound
  <2>1. CASE d = c
    BY <1>9, <1>10, <1>11, <1>14, <2>1
  <2>2. CASE d # c
    BY <1>11, <2>2 DEF Core, ConnectTimeSound
  <2>3. QED
    BY <2>1, <2>2
<1>17. FramesNeverWrap'
  BY <1>1, <1>9, <1>10, <1>11, <1>13 DEF Core, FramesNeverWrap
<1>18. LockHeld'
  BY <1>2, <1>9, <1>10, <1>11, <1>12 DEF Core, LockHeld
<1>19. Phases'
  BY <1>1, <1>9, <1>10, <1>11 DEF Core, Phases
<1>20. TimeOrder'
  BY <1>3, <1>9, <1>10, <1>11, <1>12 DEF Core, TimeOrder
<1>21. QED
  BY <1>15, <1>16, <1>17, <1>18, <1>19, <1>20 DEF Core

(* The delete, in either branch: the attempt is measured.                  *)
LEMMA DeleteCore ==
    ASSUME BpfTypeOK, Core, NEW c \in Ctx, DeleteConnect(c)
    PROVE  Core'
<1> DEFINE s == frame[c].sk
<1>1. InMap(c) /\ frame[c].at = "delete"
  BY DEF DeleteConnect, InMap
<1>2. frame[c] \in Running /\ s \in Sock /\ lock[s] = c
  BY <1>1, InMapLocked
<1>3. /\ frame'[c] = [frame[c] EXCEPT !.at = "output"]
      /\ \A d \in Ctx : d # c => frame'[d] = frame[d]
  BY DEF DeleteConnect, BpfTypeOK
<1>4. /\ frame'[c].at = "output" /\ frame'[c].sk = s
      /\ frame'[c].func = frame[c].func /\ frame'[c].event = frame[c].event
  BY <1>2, <1>3 DEF Running
<1>5. \A d \in Ctx : d # c /\ InMap(d) => frame[d].sk \in Sock \ {s}
  BY <1>2, InMapLocked
<1>6. /\ lock' = lock /\ clock' = clock
      /\ connect'[s] = None
      /\ \A t \in Sock : t # s => connect'[t] = connect[t] /\ attempt'[t] = attempt[t]
  BY <1>2 DEF DeleteConnect, bpf_map_delete_elem, BpfTypeOK
<1>7. attempt'[s].status # "waiting"
  BY <1>2 DEF DeleteConnect, BpfTypeOK, Attempts
<1> HIDE DEF s
<1>8. ConnectMapAgrees'
  BY <1>6, <1>7 DEF Core, ConnectMapAgrees
<1>9. ConnectTimeSound'
  <2> SUFFICES ASSUME NEW d \in Ctx, frame'[d].at = "delete",
                      attempt'[frame'[d].sk].status # "untraced"
               PROVE  frame'[d].event.tcp_connect_time =
                          IF attempt'[frame'[d].sk].status = "waiting"
                          THEN frame'[d].event.ts_us - attempt'[frame'[d].sk].began
                          ELSE 0
    BY DEF ConnectTimeSound
  <2>1. d # c /\ frame'[d] = frame[d]
    BY <1>3, <1>4
  <2>2. attempt'[frame[d].sk] = attempt[frame[d].sk]
    BY <1>5, <1>6, <2>1 DEF InMap
  <2>3. QED
    BY <2>1, <2>2 DEF Core, ConnectTimeSound
<1>10. FramesNeverWrap'
  BY <1>1, <1>3, <1>4 DEF Core, FramesNeverWrap
<1>11. LockHeld'
  <2>1. lock'[frame'[c].sk] = c
    BY <1>2, <1>4, <1>6
  <2>2. \A d \in Ctx : d # c => frame'[d] = frame[d] /\ lock' = lock
    BY <1>3, <1>6
  <2>3. QED
    BY <2>1, <2>2 DEF Core, LockHeld
<1>12. Phases'
  BY <1>3, <1>4 DEF Core, Phases
<1>13. TimeOrder'
  <2>1. \A t \in Sock : connect'[t] # None => connect'[t] <= Usec(clock')
    BY <1>6 DEF Core, TimeOrder
  <2>2. \A d \in Ctx : frame'[d].at # "idle" => frame'[d].event.ts_us <= Usec(clock')
    BY <1>1, <1>3, <1>4, <1>6 DEF Core, TimeOrder
  <2>3. ASSUME NEW d \in Ctx, frame'[d].at = "lookup", connect'[frame'[d].sk] # None
        PROVE  connect'[frame'[d].sk] <= frame'[d].event.ts_us
    <3>1. d # c /\ frame'[d] = frame[d]
      BY <1>3, <1>4, <2>3
    <3>2. connect'[frame[d].sk] = connect[frame[d].sk]
      BY <1>5, <1>6, <2>3, <3>1 DEF InMap
    <3>3. QED
      BY <2>3, <3>1, <3>2 DEF Core, TimeOrder
  <2>4. QED
    BY <2>1, <2>2, <2>3 DEF TimeOrder
<1>14. QED
  BY <1>8, <1>9, <1>10, <1>11, <1>12, <1>13 DEF Core

(* Output and the body of the function leave the map alone; the body gives *)
(* the lock back.                                                          *)
LEMMA LeaveCore ==
    ASSUME BpfTypeOK, Core, NEW c \in Ctx, Output(c) \/ Body(c)
    PROVE  Core'
<1> DEFINE s == frame[c].sk
<1>1. frame[c].at \in {"output", "body"} /\ frame[c] \in Running /\ s \in Sock
  <2>1. frame[c].at \in {"output", "body"}
    BY DEF Output, Body
  <2>2. QED
    BY <2>1, FrameRunning DEF Running
<1>2. \A d \in Ctx : d # c => frame'[d] = frame[d]
  BY DEF Output, Body, BpfTypeOK
<1>3. UNCHANGED <<clock, connect, attempt>>
  BY DEF Output, Body
<1>4. \/ frame'[c].at = "idle"
      \/ /\ frame'[c].at = "body" /\ frame'[c].sk = s
         /\ frame'[c].func = frame[c].func /\ frame'[c].event = frame[c].event
         /\ lock' = lock
  <2>1. CASE Output(c)
    <3>1. frame'[c] = [frame[c] EXCEPT !.at = "body"] /\ lock' = lock
      BY <2>1 DEF Output, BpfTypeOK
    <3>2. QED
      BY <1>1, <3>1 DEF Running
  <2>2. CASE Body(c)
    BY <2>2 DEF Body, BpfTypeOK, IdleFrame
  <2>3. QED
    BY <2>1, <2>2
<1>5. \A d \in Ctx, t \in Sock : d # c /\ lock[t] = d => lock'[t] = d
  BY <1>1 DEF Output, Body, BpfTypeOK
<1> HIDE DEF s
<1>6. ConnectMapAgrees'
  BY <1>3 DEF Core, ConnectMapAgrees
<1>7. ConnectTimeSound'
  BY <1>2, <1>3, <1>4 DEF Core, ConnectTimeSound
<1>8. FramesNeverWrap'
  BY <1>1, <1>2, <1>4 DEF Core, FramesNeverWrap
<1>9. LockHeld'
  <2> SUFFICES ASSUME NEW d \in Ctx, frame'[d].at # "idle",
                      frame'[d].func # "tcp_sendmsg"
               PROVE  lock'[frame'[d].sk] = d
    BY DEF LockHeld
  <2>1. CASE d = c
    BY <1>1, <1>4, <2>1 DEF Core, LockHeld, s
  <2>2. CASE d # c
    <3>1. frame'[d] = frame[d] /\ lock[frame[d].sk] = d
      BY <1>2, <2>2 DEF Core, LockHeld
    <3>2. frame[d].sk \in Sock
      BY <3>1, FrameRunning DEF Running
    <3>3. QED
      BY <1>5, <2>2, <3>1, <3>2
  <2>3. QED
    BY <2>1, <2>2
<1>10. Phases'
  BY <1>2, <1>4 DEF Core, Phases
<1>11. TimeOrder'
  BY <1>1, <1>2, <1>3, <1>4 DEF Core, TimeOrder
<1>12. QED
  BY <1>6, <1>7, <1>8, <1>9, <1>10, <1>11 DEF Core

(* The stack changes a socket only while nobody has it locked.             *)
LEMMA StackCore ==
    ASSUME BpfTypeOK, Core, NEW s \in Sock, Stack(s)
    PROVE  Core'
<1>1. /\ lock[s] = None
      /\ UNCHANGED <<clock, lock, frame, connect>>
      /\ attempt' = attempt \/ attempt' = [attempt EXCEPT ![s] = Untraced]
  BY DEF Stack, SockAlloc, SockFree, ConnectTimeout, Shutdown, tcp_v6_connect,
         SockStep
<1>2. ConnectMapAgrees'
  <2>1. attempt'[s] = attempt[s] \/ attempt'[s].status = "untraced"
    BY <1>1 DEF BpfTypeOK, Untraced
  <2>2. \A t \in Sock : t # s => attempt'[t] = attempt[t]
    BY <1>1 DEF BpfTypeOK
  <2>3. QED
    BY <1>1, <2>1, <2>2 DEF Core, ConnectMapAgrees
<1>3. ConnectTimeSound'
  <2> SUFFICES ASSUME NEW d \in Ctx, frame[d].at = "delete"
               PROVE  attempt'[frame[d].sk] = attempt[frame[d].sk]
    BY <1>1 DEF Core, ConnectTimeSound
  <2>1. frame[d].sk \in Sock /\ lock[frame[d].sk] = d
    BY InMapLocked DEF InMap
  <2>2. QED
    BY <1>1, <2>1, BpfAssumption DEF BpfTypeOK
<1>4. FramesNeverWrap' /\ LockHeld' /\ Phases' /\ TimeOrder'
  BY <1>1 DEF Core, FramesNeverWrap, LockHeld, Phases, TimeOrder
<1>5. QED
  BY <1>2, <1>3, <1>4 DEF Core

LEMMA TickCore ==
    ASSUME BpfTypeOK, Core, Tick
    PROVE  Core'
<1>1. clock \in Nat /\ clock' = clock + 1 /\ UNCHANGED <<lock, frame, connect, attempt>>
  BY DEF Tick, BpfTypeOK
<1>2. Usec(clock) <= Usec(clock') /\ Usec(clock) \in Nat /\ Usec(clock') \in Nat
  BY <1>1, UsecMonotone, UsecType
<1>3. \A s \in Sock : connect[s] # None => connect[s] \in Nat
  BY DEF BpfTypeOK
<1>4. \A c \in Ctx : frame[c].at # "idle" => frame[c].event.ts_us \in Nat
  BY FrameRunning DEF Running, Events
<1>5. TimeOrder'
  <2>1. \A s \in Sock : connect'[s] # None => connect'[s] <= Usec(clock')
    BY <1>1, <1>2, <1>3 DEF Core, TimeOrder
  <2>2. \A c \in Ctx : frame'[c].at # "idle" => frame'[c].event.ts_us <= Usec(clock')
    BY <1>1, <1>2, <1>4 DEF Core, TimeOrder
  <2>3. QED
    BY <1>1, <2>1, <2>2 DEF Core, TimeOrder
<1>6. ConnectMapAgrees' /\ ConnectTimeSound' /\ FramesNeverWrap' /\ LockHeld' /\ Phases'
  BY <1>1 DEF Core, ConnectMapAgrees, ConnectTimeSound, FramesNeverWrap,
              LockHeld, Phases
<1>7. QED
  BY <1>5, <1>6 DEF Core

LEMMA CoreNext ==
    ASSUME BpfTypeOK, Core, [BpfNext]_bpfVars
    PROVE  Core'
<1>1. ASSUME NEW c \in Ctx, Program(c)
      PROVE  Core'
  <2>1. ASSUME NEW s \in Sock, handle_tcp_v4_connect(c, s)
        PROVE  Core'
    <3>1. owner[s] \in Pid
      BY DEF BpfTypeOK
    <3>2. QED
      BY <2>1, <3>1, EnterCore DEF handle_tcp_v4_connect, Probes
  <2>2. ASSUME NEW s \in Sock, handle_tcp_sendmsg(c, s)
        PROVE  Core'
    <3>1. owner[s] \in Pid
      BY DEF BpfTypeOK
    <3>2. QED
      BY <2>2, <3>1, EnterCore DEF handle_tcp_sendmsg, Probes
  <2>3. ASSUME NEW s \in Sock, NEW tgid \in Pid \cup {0},
               handle_tcp_rcv_state_process(c, s, tgid)
        PROVE  Core'
    BY <2>3, EnterCore DEF handle_tcp_rcv_state_process, Probes
  <2>4. QED
    BY <1>1, <2>1, <2>2, <2>3, UpdateCore, LookupCore, DeleteCore, LeaveCore
    DEF Program
<1>2. CASE KernelStep
  BY <1>1, <1>2, StackCore, TickCore DEF KernelStep, KernelNext
<1>3. CASE UserSpace
  <2>1. UNCHANGED <<clock, lock, frame, connect, attempt>>
    BY <1>3 DEF UserSpace, Attach, OpenArray, CloseArray, ConsumeRing,
                DetachAll, Release, kernelVars
  <2>2. QED
    BY <2>1, QuietCore
<1>4. CASE UNCHANGED bpfVars
  <2>1. UNCHANGED <<clock, lock, frame, connect, attempt>>
    BY <1>4 DEF bpfVars, kernelVars
  <2>2. QED
    BY <2>1, QuietCore
<1>5. QED
  BY <1>2, <1>3, <1>4 DEF BpfNext

(* The rings: a sample copies the event of the frame that outputs it.      *)
SoundRecords ==
    {rec \in Records : rec.lost = 0 =>
                           rec.event.tcp_connect_time <= rec.event.ts_us}

LEMMA RingsSound ==
    ASSUME BpfTypeOK
    PROVE  RingsNeverWrap <=> rings \in [Maps \X CPU -> Seq(SoundRecords)]
<1>1. ASSUME RingsNeverWrap
      PROVE  rings \in [Maps \X CPU -> Seq(SoundRecords)]
  <2>1. ASSUME NEW r \in Maps \X CPU
        PROVE  rings[r] \in Seq(SoundRecords)
    <3>1. rings[r] \in Seq(Records)
      BY DEF BpfTypeOK
    <3>2. \A i \in 1..Len(rings[r]) : rings[r][i] \in SoundRecords
      BY <1>1, <3>1 DEF RingsNeverWrap, SoundRecords
    <3>3. QED
      BY <3>1, <3>2, SubSeqProperties, SubSeqFull
  <2>2. QED
    BY <2>1 DEF BpfTypeOK
<1>2. ASSUME rings \in [Maps \X CPU -> Seq(SoundRecords)]
      PROVE  RingsNeverWrap
  <2> SUFFICES ASSUME NEW r \in Maps \X CPU, NEW i \in 1..Len(rings[r])
               PROVE  rings[r][i] \in SoundRecords
    BY DEF RingsNeverWrap, SoundRecords
  <2>1. rings[r] \in Seq(SoundRecords)
    BY <1>2
  <2>2. QED
    BY <2>1
<1>3. QED
  BY <1>1, <1>2

LEMMA RingsNext ==
    ASSUME BpfTypeOK, BpfTypeOK', Core, RingsNeverWrap, [BpfNext]_bpfVars
    PROVE  RingsNeverWrap'
<1> DEFINE R == Maps \X CPU
<1>1. rings \in [R -> Seq(SoundRecords)]
  BY RingsSound
<1>2. SUFFICES rings' \in [R -> Seq(SoundRecords)]
  <2>1. ASSUME rings' \in [R -> Seq(SoundRecords)],
               NEW r \in R, NEW i \in 1..Len(rings'[r])
        PROVE  rings'[r][i] \in SoundRecords
    <3>1. rings'[r] \in Seq(SoundRecords)
      BY <2>1
    <3>2. QED
      BY <3>1
  <2>2. QED
    BY <2>1 DEF RingsNeverWrap, SoundRecords
<1>3. ASSUME NEW c \in Ctx, Output(c)
      PROVE  rings' \in [R -> Seq(SoundRecords)]
  <2>1. frame[c] \in Running
    BY <1>3, FrameRunning DEF Output
  <2>2. frame[c].event \in Events /\ RingOf(c) \in R
    BY <2>1, BpfAssumption DEF Running, RingOf, Maps
  <2>3. frame[c].event.tcp_connect_time <= frame[c].event.ts_us
    BY <1>3 DEF Output, Core, FramesNeverWrap
  <2>4. Sample(RingOf(c), frame[c].event) \in SoundRecords
    BY <2>2, <2>3, RecordTypes DEF Sample, SoundRecords
  <2>5. overrun[RingOf(c)] > 0 => LostRecord(RingOf(c)) \in SoundRecords
    BY <2>2, RecordTypes DEF LostRecord, SoundRecords
  <2>6. QED
    BY <1>1, <1>3, <2>2, <2>4, <2>5, OutputKeeps DEF Output
<1>4. ASSUME NEW r \in R, NEW n \in 0..Len(rings[r]), ConsumeRing(r, n)
      PROVE  rings' \in [R -> Seq(SoundRecords)]
  <2>1. n \in Nat
    BY DEF BpfTypeOK
  <2>2. QED
    BY <1>1, <1>4, <2>1, ConsumeKeeps
<1>5. <<>> \in Seq(SoundRecords)
  OBVIOUS
<1>6. ASSUME NEW m \in Maps, CloseArray(m)
      PROVE  rings' \in [R -> Seq(SoundRecords)]
  BY <1>1, <1>5, <1>6 DEF CloseArray
<1>7. CASE Release
  BY <1>5, <1>7 DEF Release
<1>8. CASE rings' = rings
  BY <1>1, <1>8
<1>9. ASSUME KernelStep
      PROVE  rings' = rings \/ \E c \in Ctx : Output(c)
  BY <1>9 DEF KernelStep, KernelNext, Program, Stack, Tick, SockAlloc, SockFree,
      ConnectTimeout, Shutdown, tcp_v6_connect, SockStep, handle_tcp_v4_connect,
      handle_tcp_sendmsg, handle_tcp_rcv_state_process, UpdateConnect,
      LookupConnect, DeleteConnect, Body
<1>10. ASSUME UserSpace
       PROVE  \/ rings' = rings
              \/ \E m \in Maps : CloseArray(m)
              \/ \E r \in R : \E n \in 0..Len(rings[r]) : ConsumeRing(r, n)
              \/ Release
  BY <1>10 DEF UserSpace, Attach, OpenArray, DetachAll, kernelVars
<1>11. UNCHANGED bpfVars => rings' = rings
  BY DEF bpfVars, kernelVars
<1>12. QED
  BY <1>3, <1>4, <1>6, <1>7, <1>8, <1>9, <1>10, <1>11 DEF BpfNext

LEMMA InvInit == BpfInit => BpfInv
<1> SUFFICES ASSUME BpfInit PROVE BpfInv
  OBVIOUS
<1>1. BpfTypeOK
  BY TypeInit
<1>2. Core
  BY DEF BpfInit, KernelInit, Core, ConnectMapAgrees, ConnectTimeSound,
         FramesNeverWrap, LockHeld, Phases, TimeOrder, IdleFrame, Untraced
<1>3. RingsNeverWrap
  BY DEF BpfInit, KernelInit, RingsNeverWrap
<1>4. QED
  BY <1>1, <1>2, <1>3, InvParts

LEMMA InvNext == BpfInv /\ [BpfNext]_bpfVars => BpfInv'
<1> SUFFICES ASSUME BpfInv, [BpfNext]_bpfVars PROVE BpfInv'
  OBVIOUS
<1>1. BpfTypeOK /\ Core /\ RingsNeverWrap
  BY InvParts
<1>2. BpfTypeOK'
  BY <1>1, TypeNext
<1>3. Core'
  BY <1>1, CoreNext
<1>4. RingsNeverWrap'
  BY <1>1, <1>2, RingsNext
<1>5. QED
  BY <1>2, <1>3, <1>4 DEF BpfInv, Core, ConnectTimeNeverWraps

(* The kernel's side keeps its inductive invariant for any number of       *)
(* sockets, contexts and processors, any map size and any user space.      *)
THEOREM BpfInvariance == BpfSpec => []BpfInv
BY InvInit, InvNext, PTL DEF BpfSpec

(* handle_tcp_rcv_state_process reports the time since tcp_v4_connect for  *)
(* the first segment of a traced attempt, and 0 for every other one.       *)
THEOREM ConnectTimeIsSound == BpfSpec => []ConnectTimeSound
<1>1. BpfInv => ConnectTimeSound
  BY DEF BpfInv
<1>2. QED
  BY <1>1, BpfInvariance, PTL

(* No event, in flight or in a ring, carries a wrapped connect time.       *)
THEOREM ConnectTimeDoesNotWrap == BpfSpec => []ConnectTimeNeverWraps
<1>1. BpfInv => ConnectTimeNeverWraps
  BY DEF BpfInv
<1>2. QED
  BY <1>1, BpfInvariance, PTL
=============================================================================
