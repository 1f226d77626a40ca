----------------------- MODULE TcpAnalyseService_proof -----------------------
(***************************************************************************)
(* Proofs about the service tracer, for any number of processors, segments *)
(* and reads, any clock and any size of the rings.                         *)
(***************************************************************************)
EXTENDS TcpAnalyseService, SequenceTheorems, TLAPS

-----------------------------------------------------------------------------
(* The inductive invariants.                                               *)

FrameRec ==
    [at : {"idle", "output", "body", "release"}, func : Funcs \cup {"none"},
     seg : 0..MaxSegs, event : Events \cup {None}]

(* TypeOK in parts.                                                        *)
PathType ==
    /\ clock \in 0..MaxClock /\ lock \in Ctx \cup {None}
    /\ backlog \in Seq(1..MaxSegs) /\ segs \in 0..MaxSegs /\ reads \in 0..MaxReads
    /\ frame \in [Ctx -> FrameRec]

Booleans == established \in BOOLEAN /\ handler \in BOOLEAN /\ exiting \in BOOLEAN

RingType ==
    /\ opened \in SUBSET Maps
    /\ rings \in [Rings -> Seq(Events)] /\ lost \in [Rings -> Nat]
    /\ \A r \in Rings : r[1] \notin opened => rings[r] = <<>> /\ lost[r] = 0

MainType ==
    /\ main \in {"open", "probe", "load", "attach", "new_pb", "new_recvmsg_pb",
                 "check_pb", "signal", "while", "poll", "cleanup", "destroy", "exit"}
    /\ attached \in SUBSET Funcs /\ can \in SUBSET Funcs /\ links \in SUBSET Funcs
    /\ err \in {-1, 0, 1} /\ status \in {None, 0, 1, 130} /\ polled \in Maps

(* What main() has attached and has still to attach.                       *)
Attaching ==
    /\ main \in {"open", "probe", "load"} => attached = {}
    /\ main = "load" => links = Autoload(can)
    /\ main = "attach" => attached \cup links = Autoload(can) /\ attached \subseteq can
    /\ main \in {"new_pb", "new_recvmsg_pb", "check_pb", "signal", "while", "poll"} =>
           attached = can

(* How far down the path a function is.                                    *)
PathFuncs == {"tcp_v4_rcv", "tcp_v4_do_rcv", "tcp_rcv_state_process"}
Rank(func) == IF func = "tcp_v4_rcv" THEN 1 ELSE IF func = "tcp_v4_do_rcv" THEN 2 ELSE 3

InFunc(f)     == f.at \in {"output", "body"}
Carries(c, n) == InFunc(frame[c]) /\ frame[c].seg = n

(* A context in a function has the event of that function and of its       *)
(* segment, with a time stamp that is not in the future.                   *)
FrameOK(f) ==
    InFunc(f) =>
        /\ f.func \in Funcs /\ f.event \in Events
        /\ f.event.func = f.func /\ f.event.seg = f.seg /\ f.event.ts_us <= Usec(clock)
        /\ IF f.func = "tcp_recvmsg" THEN f.seg = 0 ELSE f.seg \in 1..segs

Frames == \A c \in Ctx : FrameOK(frame[c])

(* A segment is in one place.                                              *)
OnePlace ==
    /\ \A c, d \in Ctx : \A n \in 1..MaxSegs : Carries(c, n) /\ Carries(d, n) => c = d
    /\ \A i \in 1..Len(backlog) :
           /\ backlog[i] \in 1..segs /\ \A c \in Ctx : ~ Carries(c, backlog[i])
           /\ \A j \in 1..Len(backlog) : backlog[i] = backlog[j] => i = j

(* An event was written before the segment went on.                        *)
Known(e) ==
    e.seg # 0 =>
        /\ e.seg \in 1..segs /\ e.func \in PathFuncs /\ e.ts_us <= Usec(clock)
        /\ \A c \in Ctx : Carries(c, e.seg) =>
               /\ Rank(e.func) <= Rank(frame[c].func)
               /\ frame[c].at = "output" => /\ Rank(e.func) < Rank(frame[c].func)
                                            /\ e.ts_us <= frame[c].event.ts_us
        /\ \A j \in 1..Len(backlog) : backlog[j] = e.seg => Rank(e.func) = 1

EventsKnown == \A r \in Rings : \A i \in 1..Len(rings[r]) : Known(rings[r][i])

(* PathInOrder, for two events.                                            *)
InOrder(a, b) ==
    a.seg # 0 /\ a.seg = b.seg /\ Rank(a.func) < Rank(b.func) => a.ts_us <= b.ts_us

Before(a, b) == a.seg # 0 /\ a.seg = b.seg => Rank(a.func) < Rank(b.func)

RingsInOrder ==
    \A q, r \in Rings : \A i \in 1..Len(rings[q]), j \in 1..Len(rings[r]) :
        /\ InOrder(rings[q][i], rings[r][j])
        /\ q = r /\ i < j => Before(rings[q][i], rings[r][j])

TypeInv == PathType /\ Booleans /\ RingType /\ MainType /\ Attaching /\ Frames
PathInv == OnePlace /\ EventsKnown /\ RingsInOrder

-----------------------------------------------------------------------------
(* Arithmetic of the time stamps.                                          *)

(* The whole microseconds of a number of nanoseconds.                      *)
LEMMA QuotientBounds ==
    ASSUME NEW ns \in Nat, NEW d \in Nat \ {0}
    PROVE  /\ ns \div d \in Nat /\ ns \div d <= ns
           /\ d * (ns \div d) <= ns /\ ns < d * ((ns \div d) + 1)
BY SMT

LEMMA TimesMonotone ==
    ASSUME NEW x \in Int, NEW y \in Int, NEW d \in Nat \ {0}, x <= y
    PROVE  d * x <= d * y
BY SMT

(* Up to the bound of the clock nothing is cut off.                        *)
LEMMA UsecIsQuotient ==
    ASSUME NEW ns \in 0..MaxClock
    PROVE  /\ Usec(ns) = ns \div NSEC_PER_USEC
           /\ Usec(ns) \in 0..(U64 - 1)
<1>1. NSEC_PER_USEC \in Nat \ {0} /\ U64 \in Nat /\ MaxClock \in Nat /\ MaxClock < U64
  BY ServiceAssumption
<1>2. ns \in Nat /\ ns < U64
  BY <1>1
<1>3. PICK q : q = ns \div NSEC_PER_USEC
  OBVIOUS
<1>4. q \in Nat /\ q <= ns
  BY <1>1, <1>2, <1>3, QuotientBounds
<1>5. q % U64 = q
  BY <1>1, <1>2, <1>4, SMT
<1>6. QED
  BY <1>1, <1>2, <1>3, <1>4, <1>5 DEF Usec

LEMMA UsecMonotone ==
    ASSUME NEW a \in 0..MaxClock, NEW b \in 0..MaxClock, a <= b
    PROVE  Usec(a) <= Usec(b)
<1>1. PICK d : d = NSEC_PER_USEC
  OBVIOUS
<1>2. d \in Nat \ {0} /\ MaxClock \in Nat
  BY <1>1, ServiceAssumption
<1>3. a \in Nat /\ b \in Nat
  BY <1>2
<1>4. Usec(a) = a \div d /\ Usec(b) = b \div d
  BY <1>1, UsecIsQuotient
<1>5. PICK x, y : x = a \div d /\ y = b \div d
  OBVIOUS
<1>6. x \in Nat /\ y \in Nat /\ d * x <= a /\ b < d * (y + 1)
  BY <1>2, <1>3, <1>5, QuotientBounds
<1>7. ASSUME y + 1 <= x PROVE FALSE
  <2>1. d * (y + 1) <= d * x
    BY <1>2, <1>6, <1>7, TimesMonotone
  <2>2. PICK u, v : u = d * (y + 1) /\ v = d * x
    OBVIOUS
  <2>3. u \in Int /\ v \in Int
    BY <1>2, <1>6, <2>2
  <2>4. QED
    BY <1>3, <1>6, <2>1, <2>2, <2>3
<1>8. QED
  BY <1>4, <1>5, <1>6, <1>7

-----------------------------------------------------------------------------
(* Frames.                                                                 *)

(* What a context has after it has entered a function.                     *)
LEMMA EnteredFacts ==
    ASSUME PathType, NEW func \in Funcs, NEW n \in 0..MaxSegs,
           NEW F, F = Entered(func, n)
    PROVE  /\ F \in FrameRec /\ InFunc(F) /\ F.func = func /\ F.seg = n
           /\ F.event \in Events
           /\ F.event.func = func /\ F.event.seg = n /\ F.event.ts_us = Usec(clock)
<1>1. PICK u : u = Usec(clock)
  OBVIOUS
<1>2. u \in 0..(U64 - 1)
  BY <1>1, UsecIsQuotient DEF PathType
<1>3. PICK e : e = [func |-> func, seg |-> n, ts_us |-> u]
  OBVIOUS
<1>4. e \in Events /\ e.func = func /\ e.seg = n /\ e.ts_us = u
  BY <1>2, <1>3 DEF Events
<1>5. PICK a : a = (IF func \in attached /\ ~ Dropped THEN "output" ELSE "body")
  OBVIOUS
<1>6. a \in {"output", "body"}
  BY <1>5
<1>7. F = [at |-> a, func |-> func, seg |-> n, event |-> e]
  BY <1>1, <1>3, <1>5 DEF Entered, Event
<1>8. QED
  BY <1>1, <1>4, <1>6, <1>7 DEF FrameRec, InFunc

ReleaseFrame == [IdleFrame EXCEPT !.at = "release"]

LEMMA OutsideFacts ==
    ASSUME NEW F \in {IdleFrame, ReleaseFrame}
    PROVE  F \in FrameRec /\ ~ InFunc(F)
BY ServiceAssumption DEF IdleFrame, ReleaseFrame, FrameRec, InFunc

(* A context gets another frame.                                           *)
LEMMA FrameStep ==
    ASSUME PathType, Frames, NEW c \in Ctx, NEW F \in FrameRec,
           frame' = [frame EXCEPT ![c] = F], clock' = clock,
           segs' \in 0..MaxSegs, segs <= segs', FrameOK(F)'
    PROVE  /\ frame' \in [Ctx -> FrameRec] /\ Frames'
           /\ frame'[c] = F /\ \A d \in Ctx \ {c} : frame'[d] = frame[d]
<1>1. frame' \in [Ctx -> FrameRec] /\ frame'[c] = F /\ \A d \in Ctx \ {c} : frame'[d] = frame[d]
  BY DEF PathType
<1>2. ASSUME NEW d \in Ctx PROVE FrameOK(frame[d])'
  <2>1. CASE d = c
    BY <1>1, <2>1 DEF FrameOK, InFunc
  <2>2. CASE d # c
    <3>1. FrameOK(frame[d]) /\ frame'[d] = frame[d]
      BY <1>1, <2>2 DEF Frames
    <3>2. segs \in Nat /\ segs' \in Nat /\ MaxSegs \in Nat
      BY ServiceAssumption DEF PathType
    <3>3. Usec(clock)' = Usec(clock)
      BY DEF Usec
    <3>4. QED
      BY <3>1, <3>2, <3>3 DEF FrameOK, InFunc
  <2>3. QED
    BY <2>1, <2>2
<1>3. QED
  BY <1>1, <1>2 DEF Frames

(* A context enters a function, for a segment that has arrived.            *)
LEMMA EnterStep ==
    ASSUME PathType, Frames, NEW c \in Ctx, NEW func \in Funcs, NEW n \in 0..MaxSegs,
           frame' = [frame EXCEPT ![c] = Entered(func, n)], clock' = clock,
           segs' \in 0..MaxSegs, segs <= segs',
           IF func = "tcp_recvmsg" THEN n = 0 ELSE n \in 1..segs'
    PROVE  frame' \in [Ctx -> FrameRec] /\ Frames'
<1>1. PICK F : F = Entered(func, n)
  OBVIOUS
<1>2. /\ F \in FrameRec /\ InFunc(F) /\ F.func = func /\ F.seg = n /\ F.event \in Events
      /\ F.event.func = func /\ F.event.seg = n /\ F.event.ts_us = Usec(clock)
  BY <1>1, EnteredFacts
<1>3. Usec(clock)' = Usec(clock) /\ Usec(clock) \in Int
  BY UsecIsQuotient DEF Usec, PathType
<1>4. FrameOK(F)'
  BY <1>2, <1>3 DEF FrameOK
<1>5. QED
  BY <1>1, <1>2, <1>4, FrameStep

(* A context leaves the path.                                              *)
LEMMA LeaveStep ==
    ASSUME PathType, Frames, NEW c \in Ctx, NEW F \in {IdleFrame, ReleaseFrame},
           frame' = [frame EXCEPT ![c] = F], clock' = clock, segs' = segs
    PROVE  frame' \in [Ctx -> FrameRec] /\ Frames'
<1>1. F \in FrameRec /\ ~ InFunc(F)
  BY OutsideFacts
<1>2. FrameOK(F)'
  BY <1>1 DEF FrameOK, InFunc
<1>3. segs' \in 0..MaxSegs /\ segs <= segs'
  BY ServiceAssumption DEF PathType
<1>4. QED
  BY <1>1, <1>2, <1>3, FrameStep

(* The segment of a context in a function of the path.                     *)
LEMMA BodyFacts ==
    ASSUME PathType, Frames, NEW c \in Ctx, NEW func \in PathFuncs, InBody(c, func)
    PROVE  /\ frame[c].seg \in 1..segs /\ frame[c].seg \in 1..MaxSegs
           /\ InFunc(frame[c]) /\ func \in Funcs /\ func # "tcp_recvmsg"
<1>1. frame[c].at = "body" /\ frame[c].func = func /\ FrameOK(frame[c])
  BY DEF InBody, Frames
<1>2. func # "tcp_recvmsg" /\ func \in Funcs
  BY DEF PathFuncs, Funcs
<1>3. frame[c].seg \in 1..segs
  BY <1>1, <1>2 DEF FrameOK, InFunc
<1>4. segs \in Int /\ segs <= MaxSegs /\ MaxSegs \in Int
  BY ServiceAssumption DEF PathType
<1>5. QED
  BY <1>1, <1>2, <1>3, <1>4 DEF InFunc

-----------------------------------------------------------------------------
(* The kernel's steps keep the types.                                      *)

PathKept == PathType' /\ Frames'

LEMMA V4RcvType ==
    ASSUME TypeInv, NEW c \in Ctx, tcp_v4_rcv(c)
    PROVE  PathKept
<1> USE DEF TypeInv
<1>1. "tcp_v4_rcv" \in Funcs /\ "tcp_v4_rcv" # "tcp_recvmsg"
  BY DEF Funcs
<1>2. /\ segs' \in 0..MaxSegs /\ segs <= segs'
      /\ segs + 1 \in 0..MaxSegs /\ segs + 1 \in 1..segs'
  BY ServiceAssumption DEF PathType, tcp_v4_rcv
<1>3. frame' \in [Ctx -> FrameRec] /\ Frames'
  BY <1>1, <1>2, EnterStep DEF tcp_v4_rcv
<1>4. PathType'
  BY <1>2, <1>3 DEF PathType, tcp_v4_rcv
<1>5. QED
  BY <1>3, <1>4 DEF PathKept

LEMMA V4RcvBodyType ==
    ASSUME TypeInv, NEW c \in Ctx, V4RcvBody(c)
    PROVE  PathKept
<1> USE DEF TypeInv
<1>1. /\ InBody(c, "tcp_v4_rcv") /\ clock' = clock /\ segs' = segs /\ reads' = reads
      /\ segs' \in 0..MaxSegs /\ segs <= segs'
  BY ServiceAssumption DEF V4RcvBody, PathType
<1>2. frame[c].seg \in 1..segs' /\ frame[c].seg \in 1..MaxSegs /\ frame[c].seg \in 0..MaxSegs
  BY <1>1, BodyFacts, ServiceAssumption DEF PathFuncs
<1>3. CASE frame' = [frame EXCEPT ![c] = IdleFrame] /\ UNCHANGED <<lock, backlog>>
  <2>1. frame' \in [Ctx -> FrameRec] /\ Frames'
    BY <1>1, <1>3, LeaveStep
  <2>2. QED
    BY <1>1, <1>3, <2>1 DEF PathType, PathKept
<1>4. CASE /\ lock' = c /\ UNCHANGED backlog
           /\ frame' = [frame EXCEPT ![c] = Entered("tcp_v4_do_rcv", frame[c].seg)]
  <2>1. "tcp_v4_do_rcv" \in Funcs /\ "tcp_v4_do_rcv" # "tcp_recvmsg"
    BY DEF Funcs
  <2>2. frame' \in [Ctx -> FrameRec] /\ Frames'
    BY <1>1, <1>2, <1>4, <2>1, EnterStep
  <2>3. QED
    BY <1>1, <1>4, <2>2 DEF PathType, PathKept
<1>5. CASE /\ backlog' = Append(backlog, frame[c].seg) /\ UNCHANGED lock
           /\ frame' = [frame EXCEPT ![c] = IdleFrame]
  <2>1. frame' \in [Ctx -> FrameRec] /\ Frames'
    BY <1>1, <1>5, LeaveStep
  <2>2. backlog' \in Seq(1..MaxSegs)
    BY <1>2, <1>5, AppendProperties DEF PathType
  <2>3. QED
    BY <1>1, <1>5, <2>1, <2>2 DEF PathType, PathKept
<1>6. QED
  BY <1>3, <1>4, <1>5 DEF V4RcvBody

(* A step of Leave.                                                        *)
LEMMA LeaveType ==
    ASSUME TypeInv, NEW c \in Ctx, Leave(c),
           clock' = clock, segs' = segs, reads' = reads, backlog' = backlog
    PROVE  PathKept
<1> USE DEF TypeInv
<1>1. PICK F \in {IdleFrame, ReleaseFrame} : frame' = [frame EXCEPT ![c] = F]
  BY DEF Leave, ReleaseFrame
<1>2. frame' \in [Ctx -> FrameRec] /\ Frames'
  BY <1>1, LeaveStep
<1>3. lock' \in Ctx \cup {None}
  BY DEF Leave, PathType
<1>4. QED
  BY <1>2, <1>3 DEF PathType, PathKept

LEMMA DoRcvBodyType ==
    ASSUME TypeInv, NEW c \in Ctx, DoRcvBody(c)
    PROVE  PathKept
<1> USE DEF TypeInv
<1>1. /\ InBody(c, "tcp_v4_do_rcv") /\ clock' = clock /\ segs' = segs /\ reads' = reads
      /\ backlog' = backlog /\ segs' \in 0..MaxSegs /\ segs <= segs'
  BY ServiceAssumption DEF DoRcvBody, PathType
<1>2. CASE Leave(c)
  BY <1>1, <1>2, LeaveType
<1>3. CASE /\ UNCHANGED <<lock, established>>
           /\ frame' = [frame EXCEPT ![c] = Entered("tcp_rcv_state_process", frame[c].seg)]
  <2>1. frame[c].seg \in 1..segs' /\ frame[c].seg \in 0..MaxSegs
    BY <1>1, BodyFacts, ServiceAssumption DEF PathFuncs
  <2>2. "tcp_rcv_state_process" \in Funcs /\ "tcp_rcv_state_process" # "tcp_recvmsg"
    BY DEF Funcs
  <2>3. frame' \in [Ctx -> FrameRec] /\ Frames'
    BY <1>1, <1>3, <2>1, <2>2, EnterStep
  <2>4. QED
    BY <1>1, <1>3, <2>3 DEF PathType, PathKept
<1>4. QED
  BY <1>2, <1>3 DEF DoRcvBody

LEMMA StateProcessBodyType ==
    ASSUME TypeInv, NEW c \in Ctx, StateProcessBody(c)
    PROVE  PathKept
BY LeaveType DEF StateProcessBody

LEMMA RecvmsgType ==
    ASSUME TypeInv, tcp_recvmsg
    PROVE  PathKept
<1> USE DEF TypeInv
<1>1. "tcp_recvmsg" \in Funcs /\ Task \in Ctx /\ 0 \in 0..MaxSegs
  BY ServiceAssumption DEF Funcs, Ctx
<1>2. /\ clock' = clock /\ segs' = segs /\ segs' \in 0..MaxSegs /\ segs <= segs'
      /\ reads' \in 0..MaxReads /\ UNCHANGED <<lock, backlog>>
  BY ServiceAssumption DEF tcp_recvmsg, PathType
<1>3. frame' \in [Ctx -> FrameRec] /\ Frames'
  BY <1>1, <1>2, EnterStep DEF tcp_recvmsg
<1>4. QED
  BY <1>2, <1>3 DEF PathType, PathKept

LEMMA RecvmsgBodyType ==
    ASSUME TypeInv, RecvmsgBody
    PROVE  PathKept
<1> USE DEF TypeInv
<1>1. Task \in Ctx
  BY DEF Ctx
<1>2. frame' \in [Ctx -> FrameRec] /\ Frames'
  BY <1>1, LeaveStep DEF RecvmsgBody, ReleaseFrame
<1>3. QED
  BY <1>1, <1>2 DEF PathType, PathKept, RecvmsgBody

(* The head of the backlog, and what remains of it.                        *)
LEMMA BacklogTail ==
    ASSUME PathType, backlog # <<>>
    PROVE  /\ Head(backlog) = backlog[1] /\ 1 \in 1..Len(backlog)
           /\ Tail(backlog) \in Seq(1..MaxSegs)
           /\ \A k \in 1..Len(Tail(backlog)) :
                  k + 1 \in 1..Len(backlog) /\ Tail(backlog)[k] = backlog[k + 1]
<1>1. PICK s : s = backlog
  OBVIOUS
<1>2. s \in Seq(1..MaxSegs) /\ s # <<>>
  BY <1>1 DEF PathType
<1>3. PICK h : h = Tail(s)
  OBVIOUS
<1>4. /\ Head(s) = s[1] /\ h \in Seq(1..MaxSegs) /\ Len(h) = Len(s) - 1
      /\ \A k \in 1..Len(h) : h[k] = s[k + 1]
  BY <1>2, <1>3, HeadTailProperties
<1>5. PICK m \in Nat : m = Len(s)
  BY <1>2, LenProperties
<1>6. PICK n \in Nat : n = Len(h)
  BY <1>4, LenProperties
<1>7. 1 \in 1..m /\ \A k \in 1..n : k + 1 \in 1..m
  BY <1>4, <1>5, <1>6
<1>8. QED
  BY <1>1, <1>3, <1>4, <1>5, <1>6, <1>7

LEMMA ReleaseType ==
    ASSUME TypeInv, OnePlace, release_sock
    PROVE  PathKept
<1> USE DEF TypeInv
<1>1. Task \in Ctx
  BY DEF Ctx
<1>2. /\ clock' = clock /\ segs' = segs /\ reads' = reads
      /\ segs' \in 0..MaxSegs /\ segs <= segs'
  BY ServiceAssumption DEF release_sock, PathType
<1>3. CASE /\ backlog = <<>> /\ lock' = None /\ UNCHANGED backlog
           /\ frame' = [frame EXCEPT ![Task] = IdleFrame]
  <2>1. frame' \in [Ctx -> FrameRec] /\ Frames'
    BY <1>1, <1>2, <1>3, LeaveStep
  <2>2. QED
    BY <1>2, <1>3, <2>1 DEF PathType, PathKept
<1>4. CASE /\ backlog # <<>> /\ backlog' = Tail(backlog) /\ UNCHANGED lock
           /\ frame' = [frame EXCEPT ![Task] = Entered("tcp_v4_do_rcv", Head(backlog))]
  <2>1. Head(backlog) \in 1..segs /\ backlog' \in Seq(1..MaxSegs)
    BY <1>4, BacklogTail DEF OnePlace
  <2>2. segs \in Int /\ segs <= MaxSegs /\ MaxSegs \in Int
    BY ServiceAssumption DEF PathType
  <2>3. Head(backlog) \in 1..segs' /\ Head(backlog) \in 0..MaxSegs
    BY <1>2, <2>1, <2>2
  <2>4. "tcp_v4_do_rcv" \in Funcs /\ "tcp_v4_do_rcv" # "tcp_recvmsg"
    BY DEF Funcs
  <2>5. frame' \in [Ctx -> FrameRec] /\ Frames'
    BY <1>1, <1>2, <1>4, <2>3, <2>4, EnterStep
  <2>6. QED
    BY <1>2, <1>4, <2>1, <2>5 DEF PathType, PathKept
<1>5. QED
  BY <1>3, <1>4 DEF release_sock

LEMMA TickType ==
    ASSUME TypeInv, Tick
    PROVE  PathKept /\ Usec(clock) <= Usec(clock')
<1> USE DEF TypeInv
<1>1. clock' \in 0..MaxClock /\ clock <= clock' /\ clock \in 0..MaxClock
  BY ServiceAssumption DEF Tick, PathType
<1>2. PICK u, v : u = Usec(clock) /\ v = Usec(clock')
  OBVIOUS
<1>3. u <= v /\ u \in Int /\ v \in Int
  BY <1>1, <1>2, UsecMonotone, UsecIsQuotient
<1>4. ASSUME NEW c \in Ctx PROVE FrameOK(frame[c])'
  <2>1. FrameOK(frame[c]) /\ frame' = frame /\ segs' = segs /\ Usec(clock)' = v
    BY <1>2 DEF Frames, Tick, pathVars, Usec
  <2>2. \A e \in Events : e.ts_us \in Int
    BY ServiceAssumption DEF Events
  <2>3. QED
    BY <1>2, <1>3, <2>1, <2>2 DEF FrameOK, InFunc
<1>5. Frames'
  BY <1>4 DEF Frames
<1>6. PathType'
  BY <1>1 DEF PathType, Tick, pathVars
<1>7. QED
  BY <1>2, <1>3, <1>5, <1>6 DEF PathKept

(* The frame of a context that has output its event.                       *)
LEMMA OutputFrame ==
    ASSUME TypeInv, NEW c \in Ctx, Output(c)
    PROVE  /\ frame' \in [Ctx -> FrameRec]
           /\ frame'[c].at = "body" /\ frame'[c].func = frame[c].func
           /\ frame'[c].seg = frame[c].seg /\ frame'[c].event = frame[c].event
           /\ \A d \in Ctx \ {c} : frame'[d] = frame[d]
<1>1. PICK f : f = frame[c]
  OBVIOUS
<1>2. f \in FrameRec /\ frame' = [frame EXCEPT ![c] = [f EXCEPT !.at = "body"]]
  BY <1>1 DEF TypeInv, PathType, Output
<1>3. PICK g : g = [f EXCEPT !.at = "body"]
  OBVIOUS
<1>4. g \in FrameRec /\ g.at = "body" /\ g.func = f.func /\ g.seg = f.seg /\ g.event = f.event
  BY <1>2, <1>3 DEF FrameRec
<1>5. frame' = [frame EXCEPT ![c] = g]
  BY <1>2, <1>3
<1>6. QED
  BY <1>1, <1>4, <1>5 DEF TypeInv, PathType

LEMMA OutputType ==
    ASSUME TypeInv, NEW c \in Ctx, Output(c)
    PROVE  PathKept
<1> USE DEF TypeInv
<1>1. PathType'
  BY OutputFrame DEF PathType, Output
<1>2. Usec(clock)' = Usec(clock) /\ segs' = segs
  BY DEF Output, Usec
<1>3. ASSUME NEW d \in Ctx PROVE FrameOK(frame[d])'
  <2>1. FrameOK(frame[d])
    BY DEF Frames
  <2>2. CASE d = c
    <3>1. frame[c].at = "output"
      BY DEF Output
    <3>2. QED
      BY <1>2, <2>1, <2>2, <3>1, OutputFrame DEF FrameOK, InFunc
  <2>3. CASE d # c
    <3>1. frame'[d] = frame[d]
      BY <2>3, OutputFrame
    <3>2. QED
      BY <1>2, <2>1, <3>1 DEF FrameOK, InFunc
  <2>4. QED
    BY <2>2, <2>3
<1>4. QED
  BY <1>1, <1>3 DEF Frames, PathKept

(* What a step of Output does to the rings.                                *)
LEMMA OutputRing ==
    ASSUME TypeInv, NEW c \in Ctx, Output(c)
    PROVE  \/ rings' = rings
           \/ \E r \in Rings : rings' = [rings EXCEPT ![r] = Append(@, frame[c].event)]
<1>1. RingOf(c) \in Rings
  BY ServiceAssumption DEF RingOf, Rings, Maps, CpuOf, Ctx
<1>2. QED
  BY <1>1 DEF Output, ringVars

LEMMA OutputRingType ==
    ASSUME TypeInv, NEW c \in Ctx, Output(c)
    PROVE  RingType'
<1> USE DEF TypeInv
<1>1. PICK r : r = RingOf(c)
  OBVIOUS
<1>2. r \in Rings
  BY <1>1, ServiceAssumption DEF RingOf, Rings, Maps, CpuOf, Ctx
<1>3. PICK e : e = frame[c].event
  OBVIOUS
<1>4. e \in Events
  <2>1. frame[c].at = "output" /\ FrameOK(frame[c])
    BY DEF Output, Frames
  <2>2. QED
    BY <1>3, <2>1 DEF FrameOK, InFunc
<1>5. opened' = opened
  BY DEF Output, mainVars
<1>6. CASE r[1] \in opened /\ rings' = [rings EXCEPT ![r] = Append(@, e)] /\ UNCHANGED lost
  <2>1. Append(rings[r], e) \in Seq(Events)
    BY <1>2, <1>4, AppendProperties DEF RingType
  <2>2. rings' \in [Rings -> Seq(Events)]
    BY <1>2, <1>6, <2>1 DEF RingType
  <2>3. \A q \in Rings : q[1] \notin opened => rings'[q] = rings[q]
    BY <1>6 DEF RingType
  <2>4. QED
    BY <1>5, <1>6, <2>2, <2>3 DEF RingType
<1>7. CASE r[1] \in opened /\ lost' = [lost EXCEPT ![r] = @ + 1] /\ UNCHANGED rings
  <2>1. lost' \in [Rings -> Nat] /\ \A q \in Rings : q # r => lost'[q] = lost[q]
    BY <1>2, <1>7 DEF RingType
  <2>2. QED
    BY <1>5, <1>7, <2>1 DEF RingType
<1>8. CASE UNCHANGED ringVars
  BY <1>5, <1>8 DEF RingType, ringVars
<1>9. QED
  BY <1>1, <1>3, <1>6, <1>7, <1>8 DEF Output

LEMMA KernelType ==
    ASSUME TypeInv, OnePlace, Kernel
    PROVE  TypeInv'
<1>1. PathKept
  BY OutputType, V4RcvType, V4RcvBodyType, DoRcvBodyType, StateProcessBodyType,
     RecvmsgType, RecvmsgBodyType, ReleaseType, TickType DEF Kernel
<1>2. RingType'
  <2>1. ASSUME UNCHANGED <<ringVars, mainVars>> PROVE RingType'
    BY <2>1 DEF RingType, TypeInv, ringVars, mainVars
  <2>2. QED
    BY <2>1, OutputRingType DEF Kernel, tcp_v4_rcv, V4RcvBody, DoRcvBody,
       StateProcessBody, tcp_recvmsg, RecvmsgBody, release_sock, Tick
<1>3. UNCHANGED mainVars
  BY DEF Kernel, Output, tcp_v4_rcv, V4RcvBody, DoRcvBody,
     StateProcessBody, tcp_recvmsg, RecvmsgBody, release_sock, Tick
<1>4. MainType' /\ Attaching'
  BY <1>3 DEF MainType, Attaching, mainVars, TypeInv
<1>5. established' = established \/ established' \in BOOLEAN
  BY Zenon DEF Kernel, Output, tcp_v4_rcv, V4RcvBody, DoRcvBody, pathVars,
     StateProcessBody, tcp_recvmsg, RecvmsgBody, release_sock, Tick
<1>6. handler' = handler /\ exiting' = exiting
  BY <1>3, Zenon DEF mainVars
<1>7. Booleans'
  BY <1>5, <1>6, Zenon DEF Booleans, TypeInv
<1>8. QED
  BY <1>1, <1>2, <1>4, <1>7 DEF TypeInv, PathKept

-----------------------------------------------------------------------------
(* The steps of main() keep the types.                                     *)

UserStep == Main \/ sig_int \/ SigintKills

(* main() leaves the receive path alone.                                   *)
LEMMA UserFrame ==
    ASSUME UserStep
    PROVE  UNCHANGED <<clock, pathVars>>
BY DEF UserStep, Main, sig_int, SigintKills, tcp_analyse_service_bpf__open,
   fentry_can_attach, tcp_analyse_service_bpf__load, AttachLink, AttachDone, NewPb,
   NewRecvmsgPb, perf_buffer__new, CheckPb, InstallHandler, While, PollReturns, PollFails,
   Cleanup, tcp_analyse_service_bpf__destroy, handle_event, handle_tcp_recvmsg_event,
   Callback, handle_lost_events, Still, LoopFrame, CloseArrays

(* The links in the order of the skeleton are programs.                    *)
LEMMA SkeletonFacts ==
    /\ Len(SkeletonProgs) = 4
    /\ \A i \in 1..4 : SkeletonProgs[i] \in Funcs
BY DEF SkeletonProgs, Funcs

MainKept == MainType' /\ Attaching'

LEMMA SetUpType ==
    ASSUME TypeInv,
           \/ tcp_analyse_service_bpf__open \/ fentry_can_attach
           \/ tcp_analyse_service_bpf__load \/ AttachDone
           \/ NewPb \/ NewRecvmsgPb \/ CheckPb \/ InstallHandler
    PROVE  MainKept
<1> USE DEF TypeInv, MainType, Attaching, MainKept, At, Goto, Fail, Return, Still
<1>1. CASE tcp_analyse_service_bpf__open
  BY <1>1 DEF tcp_analyse_service_bpf__open
<1>2. CASE fentry_can_attach
  <2>1. Autoload(can') \in SUBSET Funcs
    BY <1>2 DEF fentry_can_attach, Autoload, Funcs
  <2>2. QED
    BY <1>2, <2>1 DEF fentry_can_attach, Autoload
<1>3. CASE tcp_analyse_service_bpf__load
  <2>1. Autoload(can)' = Autoload(can)
    BY <1>3 DEF tcp_analyse_service_bpf__load, Autoload
  <2>2. QED
    BY <1>3, <2>1 DEF tcp_analyse_service_bpf__load
<1>4. CASE AttachDone
  <2>1. can \subseteq Autoload(can)
    BY DEF Autoload
  <2>2. attached = can
    BY <1>4, <2>1 DEF AttachDone
  <2>3. QED
    BY <1>4, <2>2 DEF AttachDone
<1>5. CASE NewPb
  BY <1>5 DEF NewPb, perf_buffer__new
<1>6. CASE NewRecvmsgPb
  BY <1>6 DEF NewRecvmsgPb, perf_buffer__new
<1>7. CASE CheckPb
  BY <1>7 DEF CheckPb
<1>8. CASE InstallHandler
  BY <1>8 DEF InstallHandler
<1>9. QED
  BY <1>1, <1>2, <1>3, <1>4, <1>5, <1>6, <1>7, <1>8

LEMMA AttachLinkType ==
    ASSUME TypeInv, NEW i \in 1..Len(SkeletonProgs), AttachLink(i)
    PROVE  MainKept
<1> USE DEF TypeInv, MainType, MainKept, At, Goto, Fail, Still
<1>1. PICK p : p = SkeletonProgs[i]
  OBVIOUS
<1>2. p \in Funcs /\ p \in links /\ main = "attach" /\ can' = can
  BY <1>1, SkeletonFacts DEF AttachLink
<1>3. attached \cup links = Autoload(can) /\ attached \subseteq can
  BY <1>2 DEF Attaching
<1>4. Autoload(can)' = Autoload(can)
  BY <1>2 DEF Autoload
<1>5. CASE /\ p \in can /\ attached' = attached \cup {p} /\ links' = links \ {p}
           /\ Goto("attach") /\ UNCHANGED err
  <2>1. attached' \cup links' = Autoload(can)' /\ attached' \subseteq can'
    BY <1>2, <1>3, <1>4, <1>5
  <2>2. MainType'
    BY <1>2, <1>5 DEF AttachLink
  <2>3. QED
    BY <1>5, <2>1, <2>2 DEF Attaching
<1>6. CASE Fail(-1) /\ UNCHANGED <<attached, links>>
  BY <1>2, <1>6 DEF AttachLink, Attaching
<1>7. QED
  BY <1>1, <1>5, <1>6 DEF AttachLink

LEMMA LoopType ==
    ASSUME TypeInv,
           \/ While \/ PollReturns \/ PollFails
           \/ Cleanup \/ tcp_analyse_service_bpf__destroy \/ sig_int \/ SigintKills
           \/ \E cpu \in CPU : \/ handle_event(cpu) \/ handle_tcp_recvmsg_event(cpu)
                                \/ handle_lost_events(cpu)
    PROVE  MainKept
<1> USE DEF TypeInv, MainType, Attaching, MainKept, At, Goto, Fail, Return, Still, LoopFrame
<1> USE DEF CloseArrays, Maps
<1>1. CASE While
  BY <1>1 DEF While
<1>2. CASE PollReturns
  BY <1>2 DEF PollReturns
<1>3. CASE PollFails
  BY <1>3 DEF PollFails
<1>4. CASE Cleanup
  BY <1>4 DEF Cleanup
<1>5. CASE tcp_analyse_service_bpf__destroy
  BY <1>5 DEF tcp_analyse_service_bpf__destroy
<1>6. CASE sig_int
  BY <1>6 DEF sig_int
<1>7. CASE SigintKills
  BY <1>7 DEF SigintKills
<1>8. CASE \E cpu \in CPU : \/ handle_event(cpu) \/ handle_tcp_recvmsg_event(cpu)
                             \/ handle_lost_events(cpu)
  <2>1. UNCHANGED <<main, attached, can, links, err, status, polled>>
    BY <1>8 DEF handle_event, handle_tcp_recvmsg_event, Callback, handle_lost_events
  <2>2. QED
    BY <2>1 DEF Autoload
<1>9. QED
  BY <1>1, <1>2, <1>3, <1>4, <1>5, <1>6, <1>7, <1>8

-----------------------------------------------------------------------------
(* main() only takes from the rings.                                       *)

(* The ring r has kept its last events.                                    *)
Taken(r) ==
    \E d \in Nat : \A k \in 1..Len(rings[r])' :
        k + d \in 1..Len(rings[r]) /\ rings[r][k]' = rings[r][k + d]

RingKept == RingType' /\ \A r \in Rings : Taken(r)

LEMMA TakenSame ==
    ASSUME TypeInv, NEW r \in Rings, rings'[r] = rings[r]
    PROVE  Taken(r)
<1>1. \A k \in 1..Len(rings[r])' : k + 0 = k
  OBVIOUS
<1>2. Len(rings[r])' = Len(rings[r])
  OBVIOUS
<1>3. \A k \in 1..Len(rings[r])' :
          k + 0 \in 1..Len(rings[r]) /\ rings[r][k]' = rings[r][k + 0]
  BY <1>1, <1>2
<1>4. QED
  BY <1>3 DEF Taken

LEMMA TakenEmpty ==
    ASSUME NEW r \in Rings, rings'[r] = <<>>
    PROVE  Taken(r)
<1>1. Len(rings[r])' = 0
  OBVIOUS
<1>2. \A k \in 1..Len(rings[r])' :
          k + 0 \in 1..Len(rings[r]) /\ rings[r][k]' = rings[r][k + 0]
  BY <1>1
<1>3. QED
  BY <1>2 DEF Taken

LEMMA TakenTail ==
    ASSUME TypeInv, NEW r \in Rings, rings[r] # <<>>, rings'[r] = Tail(rings[r])
    PROVE  Taken(r) /\ rings'[r] \in Seq(Events)
<1>1. PICK s : s = rings[r]
  OBVIOUS
<1>2. s \in Seq(Events) /\ s # <<>>
  BY <1>1 DEF TypeInv, RingType
<1>3. PICK h : h = Tail(s)
  OBVIOUS
<1>4. h \in Seq(Events) /\ Len(h) = Len(s) - 1 /\ \A k \in 1..Len(h) : h[k] = s[k + 1]
  BY <1>2, <1>3, HeadTailProperties
<1>5. PICK m \in Nat : m = Len(s)
  BY <1>2, LenProperties
<1>6. PICK n \in Nat : n = Len(h)
  BY <1>4, LenProperties
<1>7. \A k \in 1..n : k + 1 \in 1..m
  BY <1>4, <1>5, <1>6
<1>8. rings'[r] = h
  BY <1>1, <1>3
<1>9. \A k \in 1..Len(rings[r])' :
          k + 1 \in 1..Len(rings[r]) /\ rings[r][k]' = rings[r][k + 1]
  BY <1>1, <1>4, <1>5, <1>6, <1>7, <1>8
<1>10. QED
  BY <1>4, <1>8, <1>9 DEF Taken

LEMMA CallbackRing ==
    ASSUME TypeInv, NEW cpu \in CPU, Callback(cpu)
    PROVE  RingKept
<1>1. PICK r : r = <<polled, cpu>>
  OBVIOUS
<1>2. r \in Rings
  BY <1>1 DEF TypeInv, MainType, Rings
<1>3. /\ rings[r] # <<>> /\ rings' = [rings EXCEPT ![r] = Tail(@)]
      /\ UNCHANGED <<lost, opened>>
  BY <1>1 DEF Callback, LoopFrame
<1>4. rings'[r] = Tail(rings[r]) /\ \A q \in Rings : q # r => rings'[q] = rings[q]
  BY <1>2, <1>3 DEF TypeInv, RingType
<1>5. Taken(r) /\ rings'[r] \in Seq(Events)
  BY <1>2, <1>3, <1>4, TakenTail
<1>6. \A q \in Rings : Taken(q)
  BY <1>4, <1>5, TakenSame
<1>7. rings' \in [Rings -> Seq(Events)]
  BY <1>2, <1>3, <1>5 DEF TypeInv, RingType
<1>8. \A q \in Rings : q[1] \notin opened' => rings'[q] = <<>> /\ lost'[q] = 0
  BY <1>2, <1>3, <1>4 DEF TypeInv, RingType
<1>9. QED
  BY <1>3, <1>6, <1>7, <1>8 DEF RingKept, RingType, TypeInv

LEMMA LostRing ==
    ASSUME TypeInv, NEW cpu \in CPU, handle_lost_events(cpu)
    PROVE  RingKept
<1>1. PICK r : r = <<polled, cpu>>
  OBVIOUS
<1>2. r \in Rings
  BY <1>1 DEF TypeInv, MainType, Rings
<1>3. lost' = [lost EXCEPT ![r] = 0] /\ UNCHANGED <<rings, opened>>
  BY <1>1 DEF handle_lost_events, LoopFrame
<1>4. lost' \in [Rings -> Nat] /\ \A q \in Rings : lost'[q] = lost[q] \/ lost'[q] = 0
  BY <1>2, <1>3 DEF TypeInv, RingType
<1>5. RingType'
  BY <1>3, <1>4 DEF TypeInv, RingType
<1>6. \A q \in Rings : Taken(q)
  BY <1>3, TakenSame
<1>7. QED
  BY <1>5, <1>6 DEF RingKept

LEMMA CloseRing ==
    ASSUME TypeInv, CloseArrays
    PROVE  RingKept
<1>1. \A r \in Rings : rings'[r] = <<>> /\ lost'[r] = 0
  BY DEF CloseArrays
<1>2. <<>> \in Seq(Events)
  BY EmptySeq
<1>3. rings' \in [Rings -> Seq(Events)] /\ lost' \in [Rings -> Nat]
  BY <1>2 DEF CloseArrays
<1>4. RingType'
  BY <1>1, <1>3 DEF RingType, CloseArrays
<1>5. QED
  BY <1>1, <1>4, TakenEmpty DEF RingKept

LEMMA OpenRing ==
    ASSUME TypeInv, UNCHANGED ringVars, opened \subseteq opened', opened' \in SUBSET Maps
    PROVE  RingKept
<1>1. RingType'
  BY DEF TypeInv, RingType, ringVars
<1>2. \A r \in Rings : Taken(r)
  BY TakenSame DEF ringVars
<1>3. QED
  BY <1>1, <1>2 DEF RingKept

LEMMA UserRing ==
    ASSUME TypeInv, UserStep
    PROVE  RingKept
<1>1. opened \in SUBSET Maps
  BY DEF TypeInv, RingType
<1>2. CASE \E cpu \in CPU : handle_event(cpu) \/ handle_tcp_recvmsg_event(cpu)
  BY <1>2, CallbackRing DEF handle_event, handle_tcp_recvmsg_event
<1>3. CASE \E cpu \in CPU : handle_lost_events(cpu)
  BY <1>3, LostRing
<1>4. CASE Cleanup \/ SigintKills
  BY <1>4, CloseRing DEF Cleanup, SigintKills
<1>5. CASE NewPb \/ NewRecvmsgPb
  <2>1. UNCHANGED ringVars /\ opened \subseteq opened' /\ opened' \in SUBSET Maps
    BY <1>1, <1>5 DEF NewPb, NewRecvmsgPb, perf_buffer__new, Still, Maps
  <2>2. QED
    BY <2>1, OpenRing
<1>6. CASE UNCHANGED <<ringVars, opened>>
  BY <1>1, <1>6, OpenRing
<1>7. QED
  BY <1>2, <1>3, <1>4, <1>5, <1>6 DEF UserStep, Main, sig_int,
     tcp_analyse_service_bpf__open, fentry_can_attach, tcp_analyse_service_bpf__load,
     AttachLink, AttachDone, CheckPb, InstallHandler, While, PollReturns, PollFails,
     tcp_analyse_service_bpf__destroy, Still, LoopFrame

LEMMA UserType ==
    ASSUME TypeInv, UserStep
    PROVE  TypeInv'
<1>1. MainKept
  BY SetUpType, AttachLinkType, LoopType DEF UserStep, Main
<1>2. RingType'
  BY UserRing DEF RingKept
<1>3. UNCHANGED <<clock, pathVars>>
  BY UserFrame
<1>4. PathType'
  BY <1>3 DEF PathType, pathVars, TypeInv
<1>5. Frames'
  <2>1. ASSUME NEW c \in Ctx PROVE FrameOK(frame[c])'
    <3>1. FrameOK(frame[c])
      BY DEF TypeInv, Frames
    <3>2. Usec(clock)' = Usec(clock) /\ segs' = segs /\ frame' = frame
      BY <1>3 DEF Usec, pathVars
    <3>3. QED
      BY <3>1, <3>2 DEF FrameOK, InFunc
  <2>2. QED
    BY <2>1 DEF Frames
<1>6. established' = established
  BY <1>3, Zenon DEF pathVars
<1>7. (handler' = handler \/ handler' = TRUE) /\ (exiting' = exiting \/ exiting' = TRUE)
  BY Zenon DEF UserStep, Main, sig_int, SigintKills, tcp_analyse_service_bpf__open,
   fentry_can_attach, tcp_analyse_service_bpf__load, AttachLink, AttachDone, NewPb,
   NewRecvmsgPb, CheckPb, InstallHandler, While, PollReturns, PollFails,
   Cleanup, tcp_analyse_service_bpf__destroy, handle_event, handle_tcp_recvmsg_event,
   Callback, handle_lost_events, Goto, Fail, Return
<1>8. Booleans'
  BY <1>6, <1>7, Zenon DEF Booleans, TypeInv
<1>9. QED
  BY <1>1, <1>2, <1>4, <1>5, <1>8 DEF TypeInv, MainKept

-----------------------------------------------------------------------------
(* A segment is in one place and its events stand in order.                *)

LEMMA RankFacts ==
    /\ \A f : Rank(f) \in {1, 2, 3}
    /\ Rank("tcp_v4_rcv") = 1 /\ Rank("tcp_v4_do_rcv") = 2
    /\ Rank("tcp_rcv_state_process") = 3
BY DEF Rank

LEMMA KnownSame ==
    ASSUME NEW e, Known(e), UNCHANGED <<clock, segs, frame, backlog>>
    PROVE  Known(e)'
BY DEF Known, Carries, InFunc, Usec

LEMMA OrderSame ==
    ASSUME RingsInOrder, rings' = rings
    PROVE  RingsInOrder'
BY DEF RingsInOrder, InOrder, Before

(* main() takes events away, which cannot bring the others out of order.   *)
LEMMA UserPath ==
    ASSUME TypeInv, PathInv, UserStep
    PROVE  PathInv'
<1>1. UNCHANGED <<clock, segs, frame, backlog>>
  BY UserFrame DEF pathVars
<1>2. \A r \in Rings : Taken(r)
  BY UserRing DEF RingKept
<1>3. OnePlace'
  BY <1>1 DEF PathInv, OnePlace, Carries, InFunc
<1>4. EventsKnown'
  <2>1. ASSUME NEW r \in Rings, NEW i \in 1..Len(rings[r])' PROVE Known(rings[r][i])'
    <3>1. PICK l \in 1..Len(rings[r]) : rings[r][i]' = rings[r][l]
      BY <1>2 DEF Taken
    <3>2. PICK e : e = rings[r][l]
      OBVIOUS
    <3>3. Known(e)
      BY <3>2 DEF PathInv, EventsKnown
    <3>4. Known(e)'
      BY <1>1, <3>3, KnownSame
    <3>5. rings'[r][i] = e
      BY <3>1, <3>2
    <3>6. QED
      BY <3>4, <3>5 DEF Known, Carries, InFunc
  <2>2. QED
    BY <2>1 DEF EventsKnown
<1>5. RingsInOrder'
  <2>1. ASSUME NEW q \in Rings, NEW r \in Rings,
               NEW i \in 1..Len(rings[q])', NEW j \in 1..Len(rings[r])'
        PROVE  InOrder(rings[q][i], rings[r][j])'
    <3>1. PICK k \in 1..Len(rings[q]) : rings'[q][i] = rings[q][k]
      BY <1>2 DEF Taken
    <3>2. PICK l \in 1..Len(rings[r]) : rings'[r][j] = rings[r][l]
      BY <1>2 DEF Taken
    <3>3. InOrder(rings[q][k], rings[r][l])
      BY DEF PathInv, RingsInOrder
    <3>4. QED
      BY <3>1, <3>2, <3>3 DEF InOrder
  <2>2. ASSUME NEW r \in Rings, NEW i \in 1..Len(rings[r])', NEW j \in 1..Len(rings[r])', i < j
        PROVE  Before(rings[r][i], rings[r][j])'
    <3>1. PICK d \in Nat : \A k \in 1..Len(rings[r])' :
              k + d \in 1..Len(rings[r]) /\ rings'[r][k] = rings[r][k + d]
      BY <1>2 DEF Taken
    <3>2. PICK k, l : k = i + d /\ l = j + d
      OBVIOUS
    <3>3. k < l
      BY <2>2, <3>2
    <3>4. /\ k \in 1..Len(rings[r]) /\ l \in 1..Len(rings[r])
          /\ rings'[r][i] = rings[r][k] /\ rings'[r][j] = rings[r][l]
      BY <3>1, <3>2
    <3>5. Before(rings[r][k], rings[r][l])
      BY <3>3, <3>4 DEF PathInv, RingsInOrder
    <3>6. QED
      BY <3>4, <3>5 DEF Before
  <2>3. QED
    BY <2>1, <2>2 DEF RingsInOrder
<1>6. QED
  BY <1>3, <1>4, <1>5 DEF PathInv

(* Segments that leave the backlog, and none that enters it.               *)
BacklogShrinks ==
    /\ \A k \in 1..Len(backlog)' : \E l \in 1..Len(backlog) : backlog[k]' = backlog[l]
    /\ \A j, k \in 1..Len(backlog)' : backlog[j]' = backlog[k]' => j = k

(* A context goes to a frame that may carry a segment: then the segment is *)
(* nowhere else, and its events are further up the path and not later.     *)
MayEnter(c, F) ==
    InFunc(F) /\ F.seg # 0 =>
        /\ \A d \in Ctx \ {c} : ~ Carries(d, F.seg)
        /\ \A k \in 1..Len(backlog)' : backlog[k]' # F.seg
        /\ \A r \in Rings : \A i \in 1..Len(rings[r]) : rings[r][i].seg = F.seg =>
               /\ Rank(rings[r][i].func) < Rank(F.func)
               /\ rings[r][i].ts_us <= F.event.ts_us

LEMMA MovePath ==
    ASSUME TypeInv, PathInv, segs' \in 0..MaxSegs, segs <= segs',
           NEW c \in Ctx, NEW F \in FrameRec,
           frame' = [frame EXCEPT ![c] = F], UNCHANGED <<clock, rings>>,
           BacklogShrinks, MayEnter(c, F)
    PROVE  PathInv'
<1>1. frame'[c] = F /\ \A d \in Ctx \ {c} : frame'[d] = frame[d]
  BY DEF TypeInv, PathType
<1>2. \A d \in Ctx \ {c} : \A n : Carries(d, n)' <=> Carries(d, n)
  BY <1>1 DEF Carries, InFunc
<1>3. \A n : Carries(c, n)' <=> (InFunc(F) /\ F.seg = n)
  BY <1>1 DEF Carries, InFunc
<1>4. \A n \in 1..segs : n \in 1..segs' /\ n # 0
  BY ServiceAssumption DEF TypeInv, PathType
<1>5. OnePlace'
  <2>1. ASSUME NEW a \in Ctx, NEW b \in Ctx, NEW n \in 1..MaxSegs,
               Carries(a, n)', Carries(b, n)'
        PROVE  a = b
    <3>1. n # 0
      OBVIOUS
    <3>2. CASE a # c /\ b # c
      BY <1>2, <2>1, <3>2 DEF PathInv, OnePlace
    <3>3. CASE a = c /\ b # c
      BY <1>2, <1>3, <2>1, <3>1, <3>3 DEF MayEnter
    <3>4. CASE a # c /\ b = c
      BY <1>2, <1>3, <2>1, <3>1, <3>4 DEF MayEnter
    <3>5. QED
      BY <3>2, <3>3, <3>4
  <2>2. ASSUME NEW k \in 1..Len(backlog)'
        PROVE  /\ backlog[k]' \in 1..segs' /\ \A d \in Ctx : ~ Carries(d, backlog[k])'
               /\ \A j \in 1..Len(backlog)' : backlog[k]' = backlog[j]' => k = j
    <3>1. PICK n : n = backlog'[k]
      OBVIOUS
    <3>2. n \in 1..segs /\ \A d \in Ctx : ~ Carries(d, n)
      BY <3>1 DEF BacklogShrinks, PathInv, OnePlace
    <3>3. ASSUME NEW d \in Ctx PROVE ~ Carries(d, n)'
      <4>1. CASE d = c
        BY <1>3, <1>4, <3>1, <3>2, <4>1 DEF MayEnter
      <4>2. CASE d # c
        BY <1>2, <3>2, <4>2
      <4>3. QED
        BY <4>1, <4>2
    <3>4. \A d \in Ctx : ~ Carries(d, backlog[k])'
      BY <3>1, <3>3 DEF Carries
    <3>5. QED
      BY <1>4, <3>1, <3>2, <3>4 DEF BacklogShrinks
  <2>3. QED
    BY <2>1, <2>2 DEF OnePlace
<1>6. EventsKnown'
  <2>1. ASSUME NEW r \in Rings, NEW i \in 1..Len(rings[r]) PROVE Known(rings[r][i])'
    <3>1. PICK e : e = rings[r][i]
      OBVIOUS
    <3>2. Known(e)
      BY <3>1 DEF PathInv, EventsKnown
    <3>3. SUFFICES ASSUME e.seg # 0 PROVE Known(e)'
      BY <3>1 DEF Known, Carries, InFunc
    <3>4. e.seg \in 1..segs' /\ e.func \in PathFuncs /\ e.ts_us <= Usec(clock')
      BY <1>4, <3>2, <3>3 DEF Known
    <3>5. ASSUME NEW d \in Ctx, Carries(d, e.seg)'
          PROVE  /\ Rank(e.func) <= Rank(frame'[d].func)
                 /\ frame'[d].at = "output" => /\ Rank(e.func) < Rank(frame'[d].func)
                                               /\ e.ts_us <= frame'[d].event.ts_us
      <4>1. CASE d = c
        <5>1. InFunc(F) /\ F.seg = e.seg /\ frame'[d] = F
          BY <1>1, <1>3, <3>5, <4>1
        <5>2. Rank(e.func) < Rank(F.func) /\ e.ts_us <= F.event.ts_us
          BY <3>1, <3>3, <5>1 DEF MayEnter
        <5>3. QED
          BY <5>1, <5>2, RankFacts
      <4>2. CASE d # c
        <5>1. Carries(d, e.seg) /\ frame'[d] = frame[d]
          BY <1>1, <1>2, <3>5, <4>2
        <5>2. QED
          BY <3>2, <3>3, <5>1 DEF Known
      <4>3. QED
        BY <4>1, <4>2
    <3>6. ASSUME NEW j \in 1..Len(backlog)', backlog'[j] = e.seg PROVE Rank(e.func) = 1
      BY <3>2, <3>3, <3>6 DEF BacklogShrinks, Known
    <3>7. QED
      BY <3>4, <3>5, <3>6 DEF Known, Usec
  <2>2. QED
    BY <2>1 DEF EventsKnown
<1>7. RingsInOrder'
  BY OrderSame DEF PathInv
<1>8. QED
  BY <1>5, <1>6, <1>7 DEF PathInv

(* While a context is in the body of a function of the path, its segment   *)
(* is nowhere else and has no event from further down.                     *)
LEMMA SegmentIsHere ==
    ASSUME TypeInv, PathInv, NEW c \in Ctx, NEW func \in PathFuncs, InBody(c, func),
           NEW n, n = frame[c].seg
    PROVE  /\ \A d \in Ctx \ {c} : ~ Carries(d, n)
           /\ \A k \in 1..Len(backlog) : backlog[k] # n
           /\ \A r \in Rings : \A i \in 1..Len(rings[r]) : rings[r][i].seg = n =>
                  Rank(rings[r][i].func) <= Rank(func) /\ rings[r][i].ts_us <= Usec(clock)
<1>1. n \in 1..MaxSegs /\ n # 0 /\ Carries(c, n) /\ frame[c].func = func
  BY BodyFacts DEF TypeInv, Carries, InBody
<1>2. \A d \in Ctx \ {c} : ~ Carries(d, n)
  BY <1>1 DEF PathInv, OnePlace
<1>3. \A k \in 1..Len(backlog) : backlog[k] # n
  BY <1>1 DEF PathInv, OnePlace
<1>4. ASSUME NEW r \in Rings, NEW i \in 1..Len(rings[r]), rings[r][i].seg = n
      PROVE  Rank(rings[r][i].func) <= Rank(func) /\ rings[r][i].ts_us <= Usec(clock)
  <2>1. Known(rings[r][i])
    BY DEF PathInv, EventsKnown
  <2>2. QED
    BY <1>1, <1>4, <2>1 DEF Known
<1>5. QED
  BY <1>2, <1>3, <1>4

LEMMA BacklogSame ==
    ASSUME PathInv, backlog' = backlog
    PROVE  BacklogShrinks
BY DEF BacklogShrinks, PathInv, OnePlace

(* The segment of a context goes on to a function further down the path.   *)
LEMMA GoOnPath ==
    ASSUME TypeInv, PathInv, NEW c \in Ctx, NEW func \in PathFuncs, InBody(c, func),
           NEW next \in PathFuncs, Rank(func) < Rank(next),
           frame' = [frame EXCEPT ![c] = Entered(next, frame[c].seg)],
           UNCHANGED <<clock, rings, segs, backlog>>
    PROVE  PathInv'
<1>1. PICK n : n = frame[c].seg
  OBVIOUS
<1>2. n \in 1..MaxSegs /\ n \in 0..MaxSegs /\ next \in Funcs
  BY <1>1, BodyFacts, ServiceAssumption DEF TypeInv, PathFuncs, Funcs
<1>3. PICK F : F = Entered(next, n)
  OBVIOUS
<1>4. F \in FrameRec /\ F.func = next /\ F.seg = n /\ F.event.ts_us = Usec(clock)
  BY <1>2, <1>3, EnteredFacts DEF TypeInv
<1>5. /\ \A d \in Ctx \ {c} : ~ Carries(d, n)
      /\ \A k \in 1..Len(backlog) : backlog[k] # n
      /\ \A r \in Rings : \A i \in 1..Len(rings[r]) : rings[r][i].seg = n =>
             Rank(rings[r][i].func) <= Rank(func) /\ rings[r][i].ts_us <= Usec(clock)
  BY <1>1, SegmentIsHere
<1>6. \A x \in {1, 2, 3} : x <= Rank(func) => x < Rank(next)
  BY RankFacts
<1>7. MayEnter(c, F)
  BY <1>4, <1>5, <1>6, RankFacts DEF MayEnter
<1>8. segs' \in 0..MaxSegs /\ segs <= segs'
  BY ServiceAssumption DEF TypeInv, PathType
<1>9. QED
  BY <1>1, <1>3, <1>4, <1>7, <1>8, BacklogSame, MovePath

(* A context leaves the path.                                              *)
LEMMA LeavePath ==
    ASSUME TypeInv, PathInv, NEW c \in Ctx, NEW F \in {IdleFrame, ReleaseFrame},
           frame' = [frame EXCEPT ![c] = F], UNCHANGED <<clock, rings, segs, backlog>>
    PROVE  PathInv'
<1>1. F \in FrameRec /\ MayEnter(c, F)
  BY OutsideFacts DEF MayEnter
<1>2. segs' \in 0..MaxSegs /\ segs <= segs'
  BY ServiceAssumption DEF TypeInv, PathType
<1>3. QED
  BY <1>1, <1>2, BacklogSame, MovePath

(* A segment arrives: nobody has it, and there is no event of it.          *)
LEMMA V4RcvPath ==
    ASSUME TypeInv, PathInv, NEW c \in Ctx, tcp_v4_rcv(c)
    PROVE  PathInv'
<1>1. PICK n : n = segs + 1
  OBVIOUS
<1>2. /\ n \in 0..MaxSegs /\ segs' \in 0..MaxSegs /\ segs <= segs'
      /\ n \notin 1..segs /\ n # 0
  BY <1>1, ServiceAssumption DEF tcp_v4_rcv, TypeInv, PathType
<1>3. UNCHANGED <<clock, rings, backlog>>
  BY DEF tcp_v4_rcv, ringVars
<1>4. PICK F : F = Entered("tcp_v4_rcv", n)
  OBVIOUS
<1>5. "tcp_v4_rcv" \in Funcs
  BY DEF Funcs
<1>6. F \in FrameRec /\ F.seg = n
  BY <1>2, <1>4, <1>5, EnteredFacts DEF TypeInv
<1>7. \A d \in Ctx : ~ Carries(d, n)
  BY <1>2 DEF TypeInv, Frames, FrameOK, Carries
<1>8. \A k \in 1..Len(backlog) : backlog[k] # n
  BY <1>2 DEF PathInv, OnePlace
<1>9. \A r \in Rings : \A i \in 1..Len(rings[r]) : rings[r][i].seg # n
  BY <1>2 DEF PathInv, EventsKnown, Known
<1>10. MayEnter(c, F)
  BY <1>3, <1>6, <1>7, <1>8, <1>9 DEF MayEnter
<1>11. frame' = [frame EXCEPT ![c] = F]
  BY <1>1, <1>4 DEF tcp_v4_rcv
<1>12. QED
  BY <1>2, <1>3, <1>6, <1>10, <1>11, BacklogSame, MovePath

LEMMA RecvmsgPath ==
    ASSUME TypeInv, PathInv, tcp_recvmsg
    PROVE  PathInv'
<1>1. UNCHANGED <<clock, rings, backlog>> /\ Task \in Ctx
  BY DEF tcp_recvmsg, ringVars, Ctx
<1>2. "tcp_recvmsg" \in Funcs /\ 0 \in 0..MaxSegs /\ segs' \in 0..MaxSegs /\ segs <= segs'
  BY ServiceAssumption DEF Funcs, tcp_recvmsg, TypeInv, PathType
<1>3. PICK F : F = Entered("tcp_recvmsg", 0)
  OBVIOUS
<1>4. F \in FrameRec /\ F.seg = 0
  BY <1>2, <1>3, EnteredFacts DEF TypeInv
<1>5. MayEnter(Task, F)
  BY <1>4 DEF MayEnter
<1>6. QED
  BY <1>1, <1>2, <1>3, <1>4, <1>5, BacklogSame, MovePath DEF tcp_recvmsg

(* The head of the backlog goes on in the service's own context.  Its only *)
(* event is that of tcp_v4_rcv.                                            *)
LEMMA ReleasePath ==
    ASSUME TypeInv, PathInv, release_sock
    PROVE  PathInv'
<1>1. UNCHANGED <<clock, rings, segs>> /\ Task \in Ctx
  BY DEF release_sock, ringVars, Ctx
<1>2. CASE UNCHANGED backlog /\ frame' = [frame EXCEPT ![Task] = IdleFrame]
  BY <1>1, <1>2, LeavePath
<1>3. CASE /\ backlog # <<>> /\ backlog' = Tail(backlog)
           /\ frame' = [frame EXCEPT ![Task] = Entered("tcp_v4_do_rcv", Head(backlog))]
  <2>1. PICK n : n = Head(backlog)
    OBVIOUS
  <2>2. /\ n = backlog[1] /\ 1 \in 1..Len(backlog)
        /\ \A k \in 1..Len(backlog)' :
               k + 1 \in 1..Len(backlog) /\ backlog'[k] = backlog[k + 1]
    BY <1>3, <2>1, BacklogTail DEF TypeInv
  <2>3. segs \in Int /\ segs <= MaxSegs /\ MaxSegs \in Int
    BY ServiceAssumption DEF TypeInv, PathType
  <2>4. n \in 1..segs /\ n # 0 /\ \A d \in Ctx : ~ Carries(d, n)
    BY <2>2 DEF PathInv, OnePlace
  <2>5. n \in 0..MaxSegs /\ segs' \in 0..MaxSegs /\ segs <= segs'
    BY <1>1, <2>3, <2>4 DEF TypeInv, PathType
  <2>6. BacklogShrinks
    <3>1. \A k \in 1..Len(backlog)' : \E l \in 1..Len(backlog) : backlog[k]' = backlog[l]
      BY <2>2
    <3>2. ASSUME NEW j \in 1..Len(backlog)', NEW k \in 1..Len(backlog)',
                 backlog'[j] = backlog'[k]
          PROVE  j = k
      <4>1. j + 1 = k + 1
        BY <2>2, <3>2 DEF PathInv, OnePlace
      <4>2. QED
        BY <4>1
    <3>3. QED
      BY <3>1, <3>2 DEF BacklogShrinks
  <2>7. ASSUME NEW k \in 1..Len(backlog)' PROVE backlog'[k] # n
    <3>1. k + 1 # 1
      OBVIOUS
    <3>2. QED
      BY <2>2, <3>1 DEF PathInv, OnePlace
  <2>8. ASSUME NEW r \in Rings, NEW i \in 1..Len(rings[r]), rings[r][i].seg = n
        PROVE  Rank(rings[r][i].func) = 1 /\ rings[r][i].ts_us <= Usec(clock)
    <3>1. Known(rings[r][i])
      BY DEF PathInv, EventsKnown
    <3>2. QED
      BY <2>2, <2>4, <2>8, <3>1 DEF Known
  <2>9. "tcp_v4_do_rcv" \in Funcs
    BY DEF Funcs
  <2>10. PICK F : F = Entered("tcp_v4_do_rcv", n)
    OBVIOUS
  <2>11. /\ F \in FrameRec /\ F.func = "tcp_v4_do_rcv" /\ F.seg = n
         /\ F.event.ts_us = Usec(clock)
    BY <2>5, <2>9, <2>10, EnteredFacts DEF TypeInv
  <2>12. MayEnter(Task, F)
    BY <2>4, <2>7, <2>8, <2>11, RankFacts DEF MayEnter
  <2>13. frame' = [frame EXCEPT ![Task] = F]
    BY <1>3, <2>1, <2>10
  <2>14. QED
    BY <1>1, <2>5, <2>6, <2>11, <2>12, <2>13, MovePath
<1>4. QED
  BY <1>2, <1>3 DEF release_sock

(* The service has the socket: the segment waits in the backlog.           *)
LEMMA WaitPath ==
    ASSUME TypeInv, PathInv, NEW c \in Ctx, InBody(c, "tcp_v4_rcv"),
           backlog' = Append(backlog, frame[c].seg),
           frame' = [frame EXCEPT ![c] = IdleFrame], UNCHANGED <<clock, rings, segs>>
    PROVE  PathInv'
<1>1. PICK n : n = frame[c].seg
  OBVIOUS
<1>2. n \in 1..segs /\ n \in 1..MaxSegs /\ Carries(c, n)
  BY <1>1, BodyFacts DEF TypeInv, PathFuncs, Carries
<1>3. "tcp_v4_rcv" \in PathFuncs
  BY DEF PathFuncs
<1>4. /\ \A d \in Ctx \ {c} : ~ Carries(d, n)
      /\ \A k \in 1..Len(backlog) : backlog[k] # n
      /\ \A r \in Rings : \A i \in 1..Len(rings[r]) : rings[r][i].seg = n =>
             Rank(rings[r][i].func) <= Rank("tcp_v4_rcv")
  BY <1>1, <1>3, SegmentIsHere
<1>5. /\ frame'[c] = IdleFrame /\ ~ InFunc(IdleFrame)
      /\ \A d \in Ctx \ {c} : frame'[d] = frame[d]
  BY OutsideFacts DEF TypeInv, PathType
<1>6. \A m : ~ Carries(c, m)' /\ \A d \in Ctx : Carries(d, m)' => Carries(d, m) /\ d # c
  BY <1>5 DEF Carries, InFunc
<1>7. PICK m \in Nat : m = Len(backlog)
  BY LenProperties DEF TypeInv, PathType
<1>8. /\ Len(backlog') = m + 1 /\ backlog'[m + 1] = n
      /\ \A k \in 1..m : backlog'[k] = backlog[k]
  BY <1>1, <1>2, <1>7, AppendProperties DEF TypeInv, PathType
<1>9. \A k \in 1..Len(backlog)' : k \in 1..m \/ k = m + 1
  BY <1>7, <1>8
<1>10. OnePlace'
  <2>1. ASSUME NEW a \in Ctx, NEW b \in Ctx, NEW s \in 1..MaxSegs,
               Carries(a, s)', Carries(b, s)'
        PROVE  a = b
    BY <1>6, <2>1 DEF PathInv, OnePlace
  <2>2. ASSUME NEW k \in 1..Len(backlog)'
        PROVE  /\ backlog'[k] \in 1..segs /\ \A d \in Ctx : ~ Carries(d, backlog[k])'
               /\ \A j \in 1..Len(backlog)' : backlog'[k] = backlog'[j] => k = j
    <3>1. CASE k \in 1..m
      <4>1. backlog'[k] = backlog[k] /\ k \in 1..Len(backlog)
        BY <1>7, <1>8, <3>1
      <4>2. backlog[k] \in 1..segs /\ \A d \in Ctx : ~ Carries(d, backlog[k])
        BY <4>1 DEF PathInv, OnePlace
      <4>3. ASSUME NEW j \in 1..Len(backlog)', backlog'[k] = backlog'[j] PROVE k = j
        BY <1>4, <1>7, <1>8, <1>9, <4>1, <4>3 DEF PathInv, OnePlace
      <4>4. PICK s : s = backlog[k]
        OBVIOUS
      <4>5. \A d \in Ctx : ~ Carries(d, s)'
        BY <1>6, <4>2, <4>4
      <4>6. \A d \in Ctx : ~ Carries(d, backlog[k])'
        BY <4>1, <4>4, <4>5 DEF Carries
      <4>7. QED
        BY <4>1, <4>2, <4>3, <4>6
    <3>2. CASE k = m + 1
      <4>1. backlog'[k] = n
        BY <1>8, <3>2
      <4>2. \A d \in Ctx : ~ Carries(d, n)'
        BY <1>4, <1>6
      <4>3. \A j \in 1..Len(backlog)' : backlog'[j] = n => j = k
        BY <1>4, <1>7, <1>8, <1>9, <3>2
      <4>4. \A d \in Ctx : ~ Carries(d, backlog[k])'
        BY <4>1, <4>2 DEF Carries
      <4>5. QED
        BY <1>2, <4>1, <4>3, <4>4
    <3>3. QED
      BY <1>9, <3>1, <3>2
  <2>3. QED
    BY <2>1, <2>2 DEF OnePlace
<1>11. EventsKnown'
  <2>1. ASSUME NEW r \in Rings, NEW i \in 1..Len(rings[r]) PROVE Known(rings[r][i])'
    <3>1. PICK e : e = rings[r][i]
      OBVIOUS
    <3>2. Known(e)
      BY <3>1 DEF PathInv, EventsKnown
    <3>3. SUFFICES ASSUME e.seg # 0 PROVE Known(e)'
      BY <3>1 DEF Known, Carries, InFunc
    <3>4. \A d \in Ctx : Carries(d, e.seg)' => Carries(d, e.seg) /\ frame'[d] = frame[d]
      BY <1>5, <1>6
    <3>5. ASSUME NEW j \in 1..Len(backlog)', backlog'[j] = e.seg PROVE Rank(e.func) = 1
      <4>1. CASE j \in 1..m
        BY <1>7, <1>8, <3>2, <3>3, <3>5, <4>1 DEF Known
      <4>2. CASE j = m + 1
        BY <1>4, <1>8, <3>1, <3>5, <4>2, RankFacts
      <4>3. QED
        BY <1>9, <4>1, <4>2
    <3>6. Usec(clock)' = Usec(clock)
      BY DEF Usec
    <3>7. QED
      BY <3>2, <3>3, <3>4, <3>5, <3>6 DEF Known
  <2>2. QED
    BY <2>1 DEF EventsKnown
<1>12. RingsInOrder'
  BY OrderSame DEF PathInv
<1>13. QED
  BY <1>10, <1>11, <1>12 DEF PathInv

LEMMA V4RcvBodyPath ==
    ASSUME TypeInv, PathInv, NEW c \in Ctx, V4RcvBody(c)
    PROVE  PathInv'
<1>1. InBody(c, "tcp_v4_rcv") /\ UNCHANGED <<clock, rings, segs>>
  BY DEF V4RcvBody, ringVars
<1>2. /\ "tcp_v4_rcv" \in PathFuncs /\ "tcp_v4_do_rcv" \in PathFuncs
      /\ Rank("tcp_v4_rcv") < Rank("tcp_v4_do_rcv")
  BY RankFacts DEF PathFuncs
<1>3. CASE frame' = [frame EXCEPT ![c] = IdleFrame] /\ UNCHANGED backlog
  BY <1>1, <1>3, LeavePath
<1>4. CASE /\ frame' = [frame EXCEPT ![c] = Entered("tcp_v4_do_rcv", frame[c].seg)]
           /\ UNCHANGED backlog
  BY <1>1, <1>2, <1>4, GoOnPath
<1>5. CASE /\ backlog' = Append(backlog, frame[c].seg)
           /\ frame' = [frame EXCEPT ![c] = IdleFrame]
  BY <1>1, <1>5, WaitPath
<1>6. QED
  BY <1>3, <1>4, <1>5 DEF V4RcvBody

LEMMA DoRcvBodyPath ==
    ASSUME TypeInv, PathInv, NEW c \in Ctx, DoRcvBody(c)
    PROVE  PathInv'
<1>1. InBody(c, "tcp_v4_do_rcv") /\ UNCHANGED <<clock, rings, segs, backlog>>
  BY DEF DoRcvBody, ringVars
<1>2. /\ "tcp_v4_do_rcv" \in PathFuncs /\ "tcp_rcv_state_process" \in PathFuncs
      /\ Rank("tcp_v4_do_rcv") < Rank("tcp_rcv_state_process")
  BY RankFacts DEF PathFuncs
<1>3. CASE Leave(c)
  BY <1>1, <1>3, LeavePath DEF Leave, ReleaseFrame
<1>4. CASE frame' = [frame EXCEPT ![c] = Entered("tcp_rcv_state_process", frame[c].seg)]
  BY <1>1, <1>2, <1>4, GoOnPath
<1>5. QED
  BY <1>3, <1>4 DEF DoRcvBody

LEMMA StateProcessBodyPath ==
    ASSUME TypeInv, PathInv, NEW c \in Ctx, StateProcessBody(c)
    PROVE  PathInv'
BY LeavePath DEF StateProcessBody, Leave, ReleaseFrame, ringVars

LEMMA RecvmsgBodyPath ==
    ASSUME TypeInv, PathInv, RecvmsgBody
    PROVE  PathInv'
BY LeavePath DEF RecvmsgBody, ReleaseFrame, ringVars, Ctx

(* Time passes.                                                            *)
LEMMA TickPath ==
    ASSUME TypeInv, PathInv, Tick
    PROVE  PathInv'
<1>1. UNCHANGED <<segs, frame, backlog, rings>>
  BY DEF Tick, pathVars, ringVars
<1>2. PICK u, v : u = Usec(clock) /\ v = Usec(clock')
  OBVIOUS
<1>3. u <= v
  BY <1>2, TickType
<1>4. clock \in 0..MaxClock /\ clock' \in 0..MaxClock
  BY TickType DEF PathKept, PathType, TypeInv
<1>5. u \in Int /\ v \in Int
  BY <1>2, <1>4, UsecIsQuotient
<1>6. ASSUME NEW r \in Rings, NEW i \in 1..Len(rings[r]) PROVE Known(rings[r][i])'
  <2>1. PICK e : e = rings[r][i]
    OBVIOUS
  <2>2. Known(e)
    BY <2>1 DEF PathInv, EventsKnown
  <2>3. e \in Events
    BY <2>1, ElementOfSeq DEF TypeInv, RingType
  <2>4. e.ts_us \in Int
    BY <2>3, ServiceAssumption DEF Events
  <2>5. e.ts_us <= u => e.ts_us <= v
    BY <1>3, <1>5, <2>4
  <2>6. Usec(clock)' = v
    BY <1>2 DEF Usec
  <2>7. Known(e)'
    BY <1>1, <1>2, <2>2, <2>5, <2>6 DEF Known, Carries, InFunc
  <2>8. QED
    BY <1>1, <2>1, <2>7 DEF Known, Carries, InFunc
<1>7. EventsKnown'
  BY <1>1, <1>6 DEF EventsKnown
<1>8. OnePlace' /\ RingsInOrder'
  BY <1>1 DEF PathInv, OnePlace, Carries, InFunc, RingsInOrder, InOrder, Before
<1>9. QED
  BY <1>7, <1>8 DEF PathInv

(* The event that a context puts into a ring comes after all events of its *)
(* segment, wherever they are.                                             *)
LEMMA EventIsNext ==
    ASSUME TypeInv, PathInv, NEW c \in Ctx, frame[c].at = "output",
           NEW r \in Rings, NEW i \in 1..Len(rings[r]),
           rings[r][i].seg # 0, rings[r][i].seg = frame[c].event.seg
    PROVE  /\ Rank(rings[r][i].func) < Rank(frame[c].event.func)
           /\ rings[r][i].ts_us <= frame[c].event.ts_us
<1>1. Known(rings[r][i])
  BY DEF PathInv, EventsKnown
<1>2. FrameOK(frame[c]) /\ InFunc(frame[c])
  BY DEF TypeInv, Frames, InFunc
<1>3. frame[c].event.func = frame[c].func /\ frame[c].event.seg = frame[c].seg
  BY <1>2 DEF FrameOK
<1>4. Carries(c, rings[r][i].seg)
  BY <1>2, <1>3 DEF Carries
<1>5. QED
  BY <1>1, <1>3, <1>4 DEF Known

LEMMA OutputPath ==
    ASSUME TypeInv, PathInv, NEW c \in Ctx, Output(c)
    PROVE  PathInv'
<1>1. /\ frame[c].at = "output" /\ UNCHANGED <<clock, segs, backlog>>
      /\ FrameOK(frame[c]) /\ InFunc(frame[c])
  BY DEF Output, TypeInv, Frames, InFunc
<1>2. /\ frame'[c].at = "body" /\ frame'[c].func = frame[c].func
      /\ frame'[c].seg = frame[c].seg /\ \A d \in Ctx \ {c} : frame'[d] = frame[d]
  BY OutputFrame
<1>3. \A d \in Ctx : \A n : Carries(d, n)' <=> Carries(d, n)
  BY <1>1, <1>2 DEF Carries, InFunc
<1>4. OnePlace'
  <2>1. \A a, b \in Ctx : \A n \in 1..MaxSegs : Carries(a, n)' /\ Carries(b, n)' => a = b
    BY <1>3 DEF PathInv, OnePlace
  <2>2. ASSUME NEW k \in 1..Len(backlog) PROVE \A d \in Ctx : ~ Carries(d, backlog[k])'
    <3>1. PICK n : n = backlog[k]
      OBVIOUS
    <3>2. \A d \in Ctx : ~ Carries(d, n)'
      BY <1>3, <3>1 DEF PathInv, OnePlace
    <3>3. QED
      BY <1>1, <3>1, <3>2 DEF Carries
  <2>3. QED
    BY <1>1, <2>1, <2>2 DEF PathInv, OnePlace
<1>5. Usec(clock)' = Usec(clock)
  BY <1>1 DEF Usec
<1>6. ASSUME NEW x, Known(x) PROVE Known(x)'
  <2>1. SUFFICES ASSUME x.seg # 0 PROVE Known(x)'
    BY DEF Known
  <2>2. ASSUME NEW d \in Ctx, Carries(d, x.seg)'
        PROVE  /\ Rank(x.func) <= Rank(frame'[d].func)
               /\ frame'[d].at = "output" => /\ Rank(x.func) < Rank(frame'[d].func)
                                             /\ x.ts_us <= frame'[d].event.ts_us
    <3>1. Carries(d, x.seg)
      BY <1>3, <2>2
    <3>2. CASE d = c
      BY <1>2, <1>6, <2>1, <3>1, <3>2 DEF Known
    <3>3. CASE d # c
      BY <1>2, <1>6, <2>1, <3>1, <3>3 DEF Known
    <3>4. QED
      BY <3>2, <3>3
  <2>3. QED
    BY <1>1, <1>5, <1>6, <2>1, <2>2 DEF Known
<1>7. ASSUME NEW x, Known(x)', NEW q \in Rings, NEW i \in 1..Len(rings[q])', rings'[q][i] = x
      PROVE  Known(rings[q][i])'
  BY <1>7 DEF Known, Carries, InFunc
<1>8. PICK e : e = frame[c].event
  OBVIOUS
<1>9. Known(e)'
  <2>1. SUFFICES ASSUME e.seg # 0 PROVE Known(e)'
    BY DEF Known
  <2>2. /\ e.func = frame[c].func /\ e.seg = frame[c].seg /\ e.ts_us <= Usec(clock)
        /\ frame[c].func \in Funcs
        /\ IF frame[c].func = "tcp_recvmsg" THEN frame[c].seg = 0 ELSE frame[c].seg \in 1..segs
    BY <1>1, <1>8 DEF FrameOK
  <2>3. e.func \in PathFuncs /\ e.seg \in 1..segs
    BY <2>1, <2>2 DEF PathFuncs, Funcs
  <2>4. segs \in Int /\ segs <= MaxSegs /\ MaxSegs \in Int
    BY ServiceAssumption DEF TypeInv, PathType
  <2>5. e.seg \in 1..MaxSegs /\ Carries(c, e.seg)
    BY <1>1, <2>2, <2>3, <2>4 DEF Carries
  <2>6. \A d \in Ctx : Carries(d, e.seg)' => d = c
    BY <1>3, <2>5 DEF PathInv, OnePlace
  <2>7. \A j \in 1..Len(backlog) : backlog[j] # e.seg
    BY <2>5 DEF PathInv, OnePlace
  <2>8. QED
    BY <1>1, <1>2, <1>5, <2>2, <2>3, <2>6, <2>7, RankFacts DEF Known
<1>10. CASE rings' = rings
  <2>1. EventsKnown'
    BY <1>6, <1>7, <1>10 DEF PathInv, EventsKnown
  <2>2. QED
    BY <1>4, <1>10, <2>1, OrderSame DEF PathInv
<1>11. ASSUME NEW r \in Rings, rings' = [rings EXCEPT ![r] = Append(@, e)]
       PROVE  EventsKnown' /\ RingsInOrder'
  <2>1. e \in Events
    BY <1>1, <1>8 DEF FrameOK
  <2>2. rings[r] \in Seq(Events) /\ rings \in [Rings -> Seq(Events)]
    BY DEF TypeInv, RingType
  <2>3. PICK m \in Nat : m = Len(rings[r])
    BY <2>2, LenProperties
  <2>4. /\ Len(rings'[r]) = m + 1 /\ rings'[r][m + 1] = e
        /\ \A i \in 1..m : rings'[r][i] = rings[r][i]
    BY <1>11, <2>1, <2>2, <2>3, AppendProperties
  <2>5. \A q \in Rings : q # r => rings'[q] = rings[q]
    BY <1>11, <2>2
  <2>6. \A i \in 1..(m + 1) : i \in 1..m \/ i = m + 1
    OBVIOUS
  <2>7. ASSUME NEW q \in Rings, NEW i \in 1..Len(rings[q])'
        PROVE  \/ i \in 1..Len(rings[q]) /\ rings'[q][i] = rings[q][i]
               \/ q = r /\ i = m + 1 /\ rings'[q][i] = e
    BY <2>3, <2>4, <2>5, <2>6
  <2>8. ASSUME NEW q \in Rings, NEW i \in 1..Len(rings[q])' PROVE Known(rings[q][i])'
    <3>1. CASE i \in 1..Len(rings[q]) /\ rings'[q][i] = rings[q][i]
      <4>1. PICK x : x = rings[q][i]
        OBVIOUS
      <4>2. Known(x)
        BY <3>1, <4>1 DEF PathInv, EventsKnown
      <4>3. Known(x)'
        BY <1>6, <4>2
      <4>4. QED
        BY <1>7, <3>1, <4>1, <4>3
    <3>2. CASE rings'[q][i] = e
      BY <1>7, <1>9, <3>2
    <3>3. QED
      BY <2>7, <3>1, <3>2
  <2>9. ASSUME NEW q \in Rings, NEW i \in 1..Len(rings[q]),
               rings[q][i].seg # 0, rings[q][i].seg = e.seg
        PROVE  Rank(rings[q][i].func) < Rank(e.func) /\ rings[q][i].ts_us <= e.ts_us
    BY <1>1, <1>8, <2>9, EventIsNext
  <2>10. ASSUME NEW p \in Rings, NEW q \in Rings,
                NEW i \in 1..Len(rings[p])', NEW j \in 1..Len(rings[q])'
         PROVE  /\ InOrder(rings[p][i], rings[q][j])'
                /\ p = q /\ i < j => Before(rings[p][i], rings[q][j])'
    <3>1. PICK a, b : a = rings'[p][i] /\ b = rings'[q][j]
      OBVIOUS
    <3>2. SUFFICES /\ InOrder(a, b)
                   /\ p = q /\ i < j => Before(a, b)
      BY <3>1 DEF InOrder, Before
    <3>3. CASE /\ i \in 1..Len(rings[p]) /\ a = rings[p][i]
               /\ j \in 1..Len(rings[q]) /\ b = rings[q][j]
      BY <3>3 DEF PathInv, RingsInOrder
    <3>4. CASE i \in 1..Len(rings[p]) /\ a = rings[p][i] /\ b = e
      BY <2>9, <3>4 DEF InOrder, Before
    <3>5. CASE /\ j \in 1..Len(rings[q]) /\ b = rings[q][j]
               /\ p = r /\ i = m + 1 /\ a = e
      <4>1. a.seg # 0 /\ a.seg = b.seg => Rank(b.func) < Rank(a.func)
        BY <2>9, <3>5
      <4>2. InOrder(a, b)
        BY <4>1, RankFacts DEF InOrder
      <4>3. p = q => ~ (i < j)
        BY <2>3, <3>5
      <4>4. QED
        BY <4>2, <4>3
    <3>6. CASE p = r /\ i = m + 1 /\ a = e /\ q = r /\ j = m + 1 /\ b = e
      BY <3>6, RankFacts DEF InOrder
    <3>7. QED
      BY <2>7, <3>1, <3>3, <3>4, <3>5, <3>6
  <2>11. QED
    BY <2>8, <2>10 DEF EventsKnown, RingsInOrder
<1>12. QED
  BY <1>4, <1>8, <1>10, <1>11, OutputRing DEF PathInv

-----------------------------------------------------------------------------
(* The whole system.                                                       *)

ServiceInv == TypeInv /\ PathInv

LEMMA ServiceInit ==
    ASSUME Init
    PROVE  ServiceInv
<1> USE DEF Init
<1>1. IdleFrame \in FrameRec /\ ~ InFunc(IdleFrame)
  BY OutsideFacts
<1>2. <<>> \in Seq(1..MaxSegs) /\ <<>> \in Seq(Events)
  BY EmptySeq
<1>3. PathType
  BY <1>1, <1>2, ServiceAssumption DEF PathType
<1>4. Frames
  BY <1>1 DEF Frames, FrameOK
<1>5. RingType
  BY <1>2 DEF RingType
<1>6. MainType /\ Attaching
  BY DEF MainType, Attaching, Maps
<1>7. Booleans
  BY Zenon DEF Booleans
<1>8. \A c \in Ctx : \A n : ~ Carries(c, n)
  BY <1>1 DEF Carries
<1>9. Len(backlog) = 0 /\ \A r \in Rings : Len(rings[r]) = 0
  OBVIOUS
<1>10. OnePlace
  BY <1>8, <1>9 DEF OnePlace
<1>11. EventsKnown /\ RingsInOrder
  BY <1>9 DEF EventsKnown, RingsInOrder
<1>12. QED
  BY <1>3, <1>4, <1>5, <1>6, <1>7, <1>10, <1>11 DEF ServiceInv, TypeInv, PathInv

LEMMA KernelPath ==
    ASSUME TypeInv, PathInv, Kernel
    PROVE  PathInv'
BY OutputPath, V4RcvPath, V4RcvBodyPath, DoRcvBodyPath, StateProcessBodyPath,
   RecvmsgPath, RecvmsgBodyPath, ReleasePath, TickPath DEF Kernel

LEMMA ServiceStutter ==
    ASSUME ServiceInv, UNCHANGED vars
    PROVE  ServiceInv'
<1>1. UNCHANGED <<clock, pathVars, ringVars, mainVars>>
  BY DEF vars
<1>2. PathType' /\ RingType' /\ MainType' /\ Attaching'
  BY <1>1 DEF ServiceInv, TypeInv, PathType, RingType, MainType, Attaching,
     pathVars, ringVars, mainVars
<1>3. Booleans'
  <2>1. UNCHANGED <<established, handler, exiting>>
    BY <1>1, Zenon DEF pathVars, mainVars
  <2>2. QED
    BY <2>1, Zenon DEF ServiceInv, TypeInv, Booleans
<1>4. Frames'
  BY <1>1 DEF ServiceInv, TypeInv, Frames, FrameOK, InFunc, Usec, pathVars
<1>5. PathInv'
  BY <1>1 DEF ServiceInv, PathInv, OnePlace, Carries, InFunc, EventsKnown, Known, Usec,
     RingsInOrder, InOrder, Before, pathVars, ringVars
<1>6. QED
  BY <1>2, <1>3, <1>4, <1>5 DEF ServiceInv, TypeInv

LEMMA ServiceStep ==
    ASSUME ServiceInv, [Next]_vars
    PROVE  ServiceInv'
<1>1. CASE Kernel
  BY <1>1, KernelType, KernelPath DEF ServiceInv, PathInv
<1>2. CASE UserStep
  BY <1>2, UserType, UserPath DEF ServiceInv
<1>3. CASE UNCHANGED vars
  BY <1>3, ServiceStutter
<1>4. QED
  BY <1>1, <1>2, <1>3 DEF Next, UserStep

LEMMA ServiceAlways ==
    Spec => []ServiceInv
BY ServiceInit, ServiceStep, PTL DEF Spec

(* The place of an event on the path is the rank of its function.          *)
LEMMA PlaceIsRank ==
    ASSUME NEW e, e.func \in PathFuncs
    PROVE  Place(e) = Rank(e.func)
<1>1. Len(Path) = 3 /\ \A i \in 1..3 : Path[i] = e.func <=> i = Rank(e.func)
  BY DEF Path, PathFuncs, Rank
<1>2. Rank(e.func) \in 1..3
  BY RankFacts
<1>3. QED
  BY <1>1, <1>2 DEF Place

LEMMA InvPathInOrder ==
    ASSUME ServiceInv
    PROVE  PathInOrder
<1>1. ASSUME NEW q \in Rings, NEW r \in Rings,
             NEW i \in 1..Len(rings[q]), NEW j \in 1..Len(rings[r]),
             NEW a, NEW b, a = rings[q][i], b = rings[r][j], a.seg # 0, a.seg = b.seg
      PROVE  /\ Place(a) < Place(b) => a.ts_us <= b.ts_us
             /\ q = r /\ i < j => Place(a) < Place(b)
  <2>1. Known(a) /\ Known(b)
    BY <1>1 DEF ServiceInv, PathInv, EventsKnown
  <2>2. Place(a) = Rank(a.func) /\ Place(b) = Rank(b.func)
    BY <1>1, <2>1, PlaceIsRank DEF Known
  <2>3. InOrder(a, b) /\ (q = r /\ i < j => Before(a, b))
    BY <1>1 DEF ServiceInv, PathInv, RingsInOrder
  <2>4. QED
    BY <1>1, <2>2, <2>3 DEF InOrder, Before
<1>2. QED
  BY <1>1 DEF PathInOrder

(* The service tracer never leaves its types: every time stamp is that of  *)
(* a __u64 and an array that is not open holds no events.                  *)
THEOREM TypeCorrect ==
    Spec => []TypeOK
<1>1. ServiceInv => TypeOK
  BY Zenon DEF ServiceInv, TypeInv, PathType, Booleans, RingType, MainType, FrameRec, TypeOK
<1>2. QED
  BY <1>1, ServiceAlways, PTL

(* Whatever main() could attach, it traces all of it and nothing else      *)
(* while it polls: the misplaced brace around the probe of                 *)
(* tcp_rcv_state_process never leaves a silent gap in the trace.           *)
THEOREM TracesWhatItCan ==
    Spec => []LoopTracesAll
<1>1. ServiceInv => LoopTracesAll
  BY DEF ServiceInv, TypeInv, Attaching, LoopTracesAll
<1>2. QED
  BY <1>1, ServiceAlways, PTL

(* No part of the receive path has a negative latency, however softirqs,   *)
(* the backlog and the service's own context interleave, and in each ring  *)
(* the events of a segment stand in the order of the path.                 *)
THEOREM LatencyIsNeverNegative ==
    Spec => []PathInOrder
BY ServiceAlways, InvPathInOrder, PTL
=============================================================================
