--------------------------- MODULE XdpPacket_proof ---------------------------
(***************************************************************************)
(* Proofs about the XDP monitor, for any number of CPUs, any ring size and *)
(* any number of packets.                                                  *)
(***************************************************************************)
EXTENDS XdpPacket, SequenceTheorems, FiniteSetTheorems, TLAPS

-----------------------------------------------------------------------------
(* The inductive invariant.                                                *)

(* TypeOK in parts.                                                        *)
CpuState ==
    [at : {"idle", "reserve", "fill", "submit"}, packet : Packet \cup {None},
     place : 0..MaxPackets, verdict : {"XDP_ABORTED", "XDP_PASS", None}]

Slot == [packet : Packet, info : Packet \cup {None}, busy : BOOLEAN]

CpuType == cpu \in [CPU -> CpuState]

ReaderType ==
    /\ arrived \in 0..MaxPackets
    /\ cons_pos \in 0..Len(slots) /\ prod_pos \in 0..Len(slots)
    /\ At("process") => cons_pos <= prod_pos
    /\ out \in Packet \cup {None} /\ line \in Packet \cup {None}

LoadType ==
    /\ progs \in SUBSET {"mine", "other"}
    /\ cfg \in {"load", "unload", "unload_all", "none"}
    /\ main \in {"signal", "options", "unload", "create", "attach", "fd", "new",
                 "while", "epoll", "snapshot", "process", "free",
                 "unload_mine", "exit"}
    /\ status \in {None, EXIT_OK, EXIT_FAIL, EXIT_FAIL_OPTION, EXIT_FAIL_BPF,
                   SIGSEGV}

FlagType == got_new_data \in BOOLEAN /\ rb \in BOOLEAN /\ exiting \in BOOLEAN

SlotsType == slots \in Seq(Slot)

Holds(c) == cpu[c].at \in {"fill", "submit"}

(* A run of the program that has a packet has one that arrived, and no     *)
(* packet of a record or of a run that is about to reserve is that of      *)
(* another.                                                                *)
OneRecordEach ==
    /\ \A c \in CPU : cpu[c].at # "idle" =>
           cpu[c].packet \in Packet /\ cpu[c].packet.id <= arrived
    /\ \A i \in 1..Len(slots) : slots[i].packet.id <= arrived
    /\ \A i, j \in 1..Len(slots) : slots[i].packet.id = slots[j].packet.id => i = j
    /\ \A c \in CPU : cpu[c].at = "reserve" =>
           \A i \in 1..Len(slots) : slots[i].packet.id # cpu[c].packet.id
    /\ \A c, d \in CPU :
           /\ cpu[c].at = "reserve" /\ cpu[d].at = "reserve"
           /\ cpu[c].packet.id = cpu[d].packet.id
           => c = d

(* Between reserve and submit the record is busy and the CPU's own; what   *)
(* is submitted, or about to be, is whole.                                 *)
OwnRecord ==
    /\ \A c \in CPU : Holds(c) =>
           /\ cpu[c].place \in 1..Len(slots)
           /\ slots[cpu[c].place].busy
           /\ slots[cpu[c].place].packet = cpu[c].packet
           /\ cpu[c].at = "submit" => slots[cpu[c].place].info = cpu[c].packet
    /\ \A c, d \in CPU : Holds(c) /\ Holds(d) /\ cpu[c].place = cpu[d].place => c = d

Whole == \A i \in 1..Len(slots) : ~ slots[i].busy => slots[i].info = slots[i].packet

KernInv == CpuType /\ SlotsType /\ OneRecordEach /\ OwnRecord /\ Whole

RingInv == KernInv /\ ReaderType /\ LoadType /\ FlagType

LEMMA RingInvType == RingInv => TypeOK
BY DEF RingInv, KernInv, CpuType, CpuState, SlotsType, Slot, ReaderType, LoadType,
       FlagType, TypeOK, OwnRecord, Holds

-----------------------------------------------------------------------------
(* Records.                                                                *)

LEMMA PacketId == \A p \in Packet : p.id \in 1..MaxPackets /\ p.id \in Nat
BY XdpAssumption DEF Packet

(* Records for different packets are at most as many as the packets.       *)
LEMMA BoundedSlots ==
    ASSUME NEW s \in Seq(Slot),
           \A i, j \in 1..Len(s) : s[i].packet.id = s[j].packet.id => i = j
    PROVE  Len(s) <= MaxPackets
<1> DEFINE f == [i \in 1..Len(s) |-> s[i].packet.id]
<1>1. Len(s) \in Nat /\ \A i \in 1..Len(s) : s[i] \in Slot
  BY LenProperties, ElementOfSeq
<1>2. \A i \in 1..Len(s) : s[i].packet.id \in 1..MaxPackets
  BY <1>1, PacketId DEF Slot
<1>3. f \in Injection(1..Len(s), 1..MaxPackets)
  BY <1>2 DEF Injection, IsInjective
<1>4. \A n \in Nat : IsFiniteSet(1..n) /\ Cardinality(1..n) = n
  BY FS_Interval
<1>5. Cardinality(1..Len(s)) = Len(s) /\ Cardinality(1..MaxPackets) = MaxPackets
  BY <1>1, <1>4, XdpAssumption
<1>6. Cardinality(1..Len(s)) <= Cardinality(1..MaxPackets)
  BY <1>3, <1>4, FS_Injection, XdpAssumption
<1>7. QED
  BY <1>5, <1>6

LEMMA SlotFields ==
    ASSUME SlotsType, NEW i \in 1..Len(slots)
    PROVE  /\ slots[i] \in Slot
           /\ slots[i].packet \in Packet /\ slots[i].packet.id \in Nat
           /\ slots[i].info \in Packet \cup {None}
<1>1. slots[i] \in Slot
  BY ElementOfSeq DEF SlotsType
<1>2. QED
  BY <1>1, PacketId DEF Slot

LEMMA LenIsNat == SlotsType => Len(slots) \in Nat
BY LenProperties DEF SlotsType

-----------------------------------------------------------------------------
(* A step that leaves ring and runs alone keeps what is said of them.      *)

LEMMA KernUnchanged ==
    ASSUME KernInv, UNCHANGED <<arrived, cpu, slots>>
    PROVE  KernInv'
BY DEF KernInv, CpuType, SlotsType, OneRecordEach, OwnRecord, Holds, Whole

LEMMA InitInv == Init => RingInv
<1> SUFFICES ASSUME Init PROVE RingInv
  OBVIOUS
<1>1. Len(slots) = 0 /\ SlotsType
  BY EmptySeq DEF Init, SlotsType
<1>2. FlagType
  BY Zenon DEF Init, FlagType
<1>3. CpuType
  BY XdpAssumption DEF Init, CpuType, CpuState, IdleCpu
<1>4. ReaderType /\ LoadType
  BY <1>1, XdpAssumption DEF Init, ReaderType, LoadType, At
<1>5. OneRecordEach /\ OwnRecord /\ Whole
  BY <1>1 DEF Init, OneRecordEach, OwnRecord, Holds, Whole, IdleCpu
<1>6. QED
  BY <1>1, <1>2, <1>3, <1>4, <1>5 DEF RingInv, KernInv

-----------------------------------------------------------------------------
(* The program.                                                            *)

LEMMA IdleStates ==
    ASSUME NEW p \in Packet
    PROVE  /\ LET r == [IdleCpu EXCEPT !.at = "reserve", !.packet = p]
              IN  r \in CpuState /\ r.at = "reserve" /\ r.packet = p
           /\ \A v \in {"XDP_ABORTED", "XDP_PASS"} :
                  LET r == [IdleCpu EXCEPT !.packet = p, !.verdict = v]
                  IN  r \in CpuState /\ r.at = "idle" /\ r.packet = p
<1>1. 0 \in 0..MaxPackets
  BY XdpAssumption
<1>2. IdleCpu \in CpuState
  BY <1>1 DEF IdleCpu, CpuState
<1>3. IdleCpu.at = "idle"
  BY DEF IdleCpu
<1>4. QED
  BY <1>2, <1>3, Zenon DEF CpuState

LEMMA RunInv ==
    ASSUME RingInv, NEW c \in CPU, NEW frame \in Frame, xdp_prog(c, frame)
    PROVE  RingInv'
<1> DEFINE packet == [frame |-> frame, id |-> arrived + 1]
<1> USE DEF RingInv, KernInv
<1>1. packet \in Packet /\ packet.id = arrived + 1 /\ arrived \in Nat
  BY XdpAssumption DEF xdp_prog, ReaderType, Packet
<1>2. ReaderType' /\ LoadType'
  BY XdpAssumption DEF xdp_prog, ReaderType, LoadType, At, ringVars, readerVars, loadVars
<1>3. FlagType'
  BY Zenon DEF xdp_prog, FlagType, readerVars, loadVars
<1>4. slots' = slots /\ SlotsType'
  BY DEF xdp_prog, ringVars, SlotsType
<1>5. PICK r \in CpuState : /\ cpu' = [cpu EXCEPT ![c] = r]
                            /\ r.at \in {"idle", "reserve"} /\ r.packet = packet
  <2>1. CASE Parse(frame) = "reserve"
    <3> DEFINE r == [IdleCpu EXCEPT !.at = "reserve", !.packet = packet]
    <3>1. cpu' = [cpu EXCEPT ![c] = r]
      BY <2>1 DEF xdp_prog
    <3>2. r \in CpuState /\ r.at = "reserve" /\ r.packet = packet
      BY <1>1, IdleStates
    <3> HIDE DEF r
    <3>3. QED
      BY <3>1, <3>2
  <2>2. CASE Parse(frame) # "reserve"
    <3>1. Parse(frame) \in {"XDP_ABORTED", "XDP_PASS"}
      BY <2>2 DEF Parse
    <3> DEFINE r == [IdleCpu EXCEPT !.packet = packet, !.verdict = Parse(frame)]
    <3>2. cpu' = [cpu EXCEPT ![c] = r]
      BY <2>2 DEF xdp_prog, Verdict
    <3>3. r \in CpuState /\ r.at = "idle" /\ r.packet = packet
      <4> HIDE DEF packet
      <4> QED
        BY <1>1, <3>1, IdleStates, Zenon
    <3> HIDE DEF r
    <3>4. QED
      BY <3>2, <3>3
  <2>3. QED
    BY <2>1, <2>2
<1>6. CpuType' /\ cpu[c].at = "idle" /\ arrived' = arrived + 1
  BY <1>5 DEF CpuType, xdp_prog
<1> HIDE DEF packet
<1>7. \A d \in CPU : cpu'[d] = IF d = c THEN r ELSE cpu[d]
  BY <1>5 DEF CpuType
<1>8. OneRecordEach'
  <2>1. \A d \in CPU : cpu[d].at # "idle" =>
            cpu[d].packet.id \in Nat /\ cpu[d].packet.id <= arrived
    BY PacketId DEF OneRecordEach
  <2>2. \A i \in 1..Len(slots) : slots[i].packet.id \in Nat /\ slots[i].packet.id <= arrived
    BY SlotFields DEF OneRecordEach
  <2>3. QED
    BY <1>1, <1>4, <1>5, <1>6, <1>7, <2>1, <2>2 DEF OneRecordEach
<1>9. OwnRecord' /\ Whole'
  BY <1>4, <1>5, <1>6, <1>7 DEF OwnRecord, Holds, Whole
<1>10. QED
  BY <1>2, <1>3, <1>4, <1>6, <1>8, <1>9

(* A verdict ends the run: the CPU has no record any more.                 *)
LEMMA VerdictStep ==
    ASSUME CpuType, NEW c \in CPU, NEW p \in Packet,
           NEW v \in {"XDP_ABORTED", "XDP_PASS"}, Verdict(c, p, v)
    PROVE  /\ CpuType'
           /\ cpu'[c].at = "idle"
           /\ \A d \in CPU \ {c} : cpu'[d] = cpu[d]
<1> DEFINE r == [IdleCpu EXCEPT !.packet = p, !.verdict = v]
<1>1. r \in CpuState /\ r.at = "idle"
  BY IdleStates
<1>2. cpu' = [cpu EXCEPT ![c] = r]
  BY DEF Verdict
<1> HIDE DEF r
<1>3. QED
  BY <1>1, <1>2 DEF CpuType

LEMMA ReserveInv ==
    ASSUME RingInv, NEW c \in CPU, bpf_ringbuf_reserve(c)
    PROVE  RingInv'
<1> USE DEF RingInv, KernInv
<1>1. cpu[c] \in CpuState /\ cpu[c].at = "reserve" /\ cpu[c].packet \in Packet
  BY DEF bpf_ringbuf_reserve, CpuType, OneRecordEach
<1>2. FlagType'
  BY Zenon DEF bpf_ringbuf_reserve, FlagType, readerVars, loadVars
<1>3. CASE Len(slots) - cons_pos < RING_SIZE
  <2> DEFINE s == [packet |-> cpu[c].packet, info |-> None, busy |-> TRUE]
             n == Len(slots)
             r == [cpu[c] EXCEPT !.at = "fill", !.place = n + 1]
  <2>1. s \in Slot /\ s.packet = cpu[c].packet /\ s.busy
    BY <1>1 DEF Slot
  <2>2. slots' = Append(slots, s)
    BY <1>3 DEF bpf_ringbuf_reserve
  <2> HIDE DEF s
  <2>3. /\ n \in Nat /\ SlotsType' /\ Len(slots') = n + 1
        /\ slots'[n + 1] = s /\ \A i \in 1..n : slots'[i] = slots[i]
    BY <2>1, <2>2, AppendProperties, LenIsNat DEF SlotsType
  <2>4. \A i, j \in 1..Len(slots') :
            slots'[i].packet.id = slots'[j].packet.id => i = j
    BY <1>1, <2>1, <2>3 DEF OneRecordEach
  <2>5. n + 1 <= MaxPackets
    BY <2>3, <2>4, BoundedSlots DEF SlotsType
  <2>6. r \in CpuState /\ r.at = "fill" /\ r.place = n + 1 /\ r.packet = cpu[c].packet
    <3>1. n + 1 \in 0..MaxPackets
      BY <2>3, <2>5, XdpAssumption
    <3> HIDE DEF n
    <3>2. QED
      BY <1>1, <3>1 DEF CpuState
  <2>7. cpu' = [cpu EXCEPT ![c] = r]
    BY <1>3, <1>1 DEF bpf_ringbuf_reserve, CpuType
  <2> HIDE DEF r
  <2>8. CpuType' /\ \A d \in CPU : cpu'[d] = IF d = c THEN r ELSE cpu[d]
    BY <2>6, <2>7 DEF CpuType
  <2>9. arrived' = arrived
    BY DEF bpf_ringbuf_reserve
  <2> HIDE DEF n
  <2>10. OneRecordEach'
    <3>1. /\ cpu[c].packet.id <= arrived
          /\ \A d \in CPU \ {c} : cpu[d].at = "reserve" =>
                                  cpu[d].packet.id # cpu[c].packet.id
      BY <1>1 DEF OneRecordEach
    <3>2. \A d \in CPU : /\ cpu'[d].packet = cpu[d].packet
                         /\ cpu'[d].at = "reserve" => d # c /\ cpu[d].at = "reserve"
                         /\ cpu'[d].at # "idle" => cpu[d].at # "idle"
      BY <1>1, <2>6, <2>8
    <3>3. \A k \in 1..Len(slots') :
              \/ k \in 1..Len(slots) /\ slots'[k] = slots[k]
              \/ slots'[k].packet = cpu[c].packet
      BY <2>1, <2>3 DEF n
    <3>4. QED
      BY <2>4, <2>9, <3>1, <3>2, <3>3 DEF OneRecordEach
  <2>11. OwnRecord'
    BY <1>1, <2>1, <2>3, <2>6, <2>8 DEF OwnRecord, Holds, n
  <2>12. Whole'
    BY <2>1, <2>3 DEF Whole, n
  <2>13. ReaderType' /\ LoadType'
    BY <2>3 DEF bpf_ringbuf_reserve, ReaderType, LoadType, At, readerVars, loadVars, n
  <2>14. QED
    BY <1>2, <2>3, <2>8, <2>10, <2>11, <2>12, <2>13
<1>4. CASE ~ (Len(slots) - cons_pos < RING_SIZE)
  <2>1. Verdict(c, cpu[c].packet, "XDP_ABORTED") /\ UNCHANGED <<slots, arrived>>
    BY <1>4 DEF bpf_ringbuf_reserve
  <2>2. /\ CpuType' /\ cpu'[c].at = "idle"
        /\ \A d \in CPU \ {c} : cpu'[d] = cpu[d]
    BY <2>1, <1>1, VerdictStep
  <2>3. SlotsType' /\ Whole'
    BY <2>1 DEF SlotsType, Whole
  <2>4. OneRecordEach'
    BY <2>1, <2>2 DEF OneRecordEach
  <2>5. OwnRecord'
    BY <2>1, <2>2 DEF OwnRecord, Holds
  <2>6. ReaderType' /\ LoadType'
    BY <2>1 DEF bpf_ringbuf_reserve, ReaderType, LoadType, At, readerVars, loadVars
  <2>7. QED
    BY <1>2, <2>2, <2>3, <2>4, <2>5, <2>6
<1>5. QED
  BY <1>3, <1>4

LEMMA UpdateSlot ==
    ASSUME SlotsType, NEW p \in 1..Len(slots), NEW e \in Slot,
           slots' = [slots EXCEPT ![p] = e]
    PROVE  /\ SlotsType' /\ Len(slots') = Len(slots)
           /\ \A j \in 1..Len(slots) : slots'[j] = IF j = p THEN e ELSE slots[j]
BY ExceptSeq DEF SlotsType

LEMMA FillInv ==
    ASSUME RingInv, NEW c \in CPU, Fill(c)
    PROVE  RingInv'
<1> USE DEF RingInv, KernInv
<1> DEFINE p == cpu[c].place
           e == [slots[p] EXCEPT !.info = cpu[c].packet]
           r == [cpu[c] EXCEPT !.at = "submit"]
<1>1. /\ cpu[c] \in CpuState /\ cpu[c].at = "fill" /\ cpu[c].packet \in Packet
      /\ p \in 1..Len(slots) /\ slots[p].busy /\ slots[p].packet = cpu[c].packet
  BY DEF Fill, CpuType, OneRecordEach, OwnRecord, Holds
<1>2. FlagType'
  BY Zenon DEF Fill, FlagType, readerVars, loadVars
<1>3. slots[p] \in Slot
  BY <1>1, SlotFields
<1>4. /\ e \in Slot /\ e.packet = cpu[c].packet /\ e.info = cpu[c].packet
      /\ e.busy = slots[p].busy
  BY <1>1, <1>3 DEF Slot
<1>5. /\ r \in CpuState /\ r.at = "submit" /\ r.packet = cpu[c].packet
      /\ r.place = p
  BY <1>1 DEF CpuState
<1>6. slots' = [slots EXCEPT ![p] = e]
  BY DEF Fill
<1>7. cpu' = [cpu EXCEPT ![c] = r]
  BY DEF Fill
<1> HIDE DEF e, r, p
<1>8. /\ SlotsType' /\ Len(slots') = Len(slots)
      /\ \A j \in 1..Len(slots) : slots'[j] = IF j = p THEN e ELSE slots[j]
  BY <1>1, <1>4, <1>6, UpdateSlot
<1>9. CpuType' /\ \A d \in CPU : cpu'[d] = IF d = c THEN r ELSE cpu[d]
  BY <1>5, <1>7 DEF CpuType
<1>10. arrived' = arrived
  BY DEF Fill
<1>11. \A j \in 1..Len(slots) :
           slots'[j].packet = slots[j].packet /\ slots'[j].busy = slots[j].busy
  BY <1>1, <1>4, <1>8
<1>12. \A d \in CPU : /\ Holds(d)' = Holds(d) /\ cpu'[d].place = cpu[d].place
                       /\ cpu'[d].packet = cpu[d].packet
  BY <1>1, <1>5, <1>9 DEF Holds, p
<1>13. OneRecordEach'
  <2>1. \A d \in CPU : /\ cpu'[d].at # "idle" => cpu[d].at # "idle"
                       /\ cpu'[d].at = "reserve" => cpu[d].at = "reserve"
    BY <1>1, <1>5, <1>9
  <2>2. QED
    BY <1>8, <1>10, <1>11, <1>12, <2>1 DEF OneRecordEach
<1>14. OwnRecord'
  <2>1. ASSUME NEW d \in CPU, Holds(d)'
        PROVE  /\ cpu'[d].place \in 1..Len(slots')
               /\ slots'[cpu'[d].place].busy
               /\ slots'[cpu'[d].place].packet = cpu'[d].packet
               /\ cpu'[d].at = "submit" => slots'[cpu'[d].place].info = cpu'[d].packet
    <3>1. /\ Holds(d) /\ cpu[d].place \in 1..Len(slots) /\ slots[cpu[d].place].busy
          /\ slots[cpu[d].place].packet = cpu[d].packet
      BY <2>1, <1>12 DEF OwnRecord
    <3>2. CASE d = c
      BY <3>1, <3>2, <1>1, <1>4, <1>8, <1>11, <1>12 DEF p
    <3>3. CASE d # c
      <4>1. cpu[d].place # p
        BY <3>1, <3>3, <1>1 DEF OwnRecord, Holds, p
      <4>2. QED
        BY <3>1, <3>3, <4>1, <1>8, <1>9, <1>11, <1>12 DEF OwnRecord
    <3>4. QED
      BY <3>2, <3>3
  <2>2. QED
    BY <2>1, <1>12 DEF OwnRecord
<1>15. Whole'
  BY <1>1, <1>8, <1>11 DEF Whole
<1>16. ReaderType' /\ LoadType'
  BY <1>8 DEF Fill, ReaderType, LoadType, At, readerVars, loadVars
<1>17. QED
  BY <1>2, <1>8, <1>9, <1>13, <1>14, <1>15, <1>16

LEMMA SubmitInv ==
    ASSUME RingInv, NEW c \in CPU, bpf_ringbuf_submit(c)
    PROVE  RingInv'
<1> USE DEF RingInv, KernInv
<1> DEFINE p == cpu[c].place
           e == [slots[p] EXCEPT !.busy = FALSE]
<1>1. /\ cpu[c].at = "submit" /\ cpu[c].packet \in Packet
      /\ p \in 1..Len(slots) /\ slots[p].packet = cpu[c].packet
      /\ slots[p].info = cpu[c].packet
  BY DEF bpf_ringbuf_submit, OneRecordEach, OwnRecord, Holds
<1>2. FlagType'
  BY Zenon DEF bpf_ringbuf_submit, FlagType, readerVars, loadVars
<1>3. slots[p] \in Slot
  BY <1>1, SlotFields
<1>4. /\ e \in Slot /\ e.packet = cpu[c].packet /\ e.info = cpu[c].packet
      /\ e.busy = FALSE
  BY <1>1, <1>3 DEF Slot
<1>5. slots' = [slots EXCEPT ![p] = e]
  BY DEF bpf_ringbuf_submit
<1>6. /\ CpuType' /\ cpu'[c].at = "idle"
      /\ \A d \in CPU \ {c} : cpu'[d] = cpu[d]
  BY <1>1, VerdictStep DEF bpf_ringbuf_submit
<1> HIDE DEF e, p
<1>7. /\ SlotsType' /\ Len(slots') = Len(slots)
      /\ \A j \in 1..Len(slots) : slots'[j] = IF j = p THEN e ELSE slots[j]
  BY <1>1, <1>4, <1>5, UpdateSlot
<1>8. arrived' = arrived
  BY DEF bpf_ringbuf_submit
<1>9. \A j \in 1..Len(slots) :
          slots'[j].packet = slots[j].packet /\ slots'[j].info = slots[j].info
  BY <1>1, <1>4, <1>7
<1>10. \A d \in CPU : Holds(d)' <=> Holds(d) /\ d # c
  BY <1>1, <1>6 DEF Holds
<1>11. \A d \in CPU : Holds(d) /\ d # c => cpu[d].place # p
  BY <1>1 DEF OwnRecord, Holds, p
<1>12. OneRecordEach'
  BY <1>6, <1>7, <1>8, <1>9 DEF OneRecordEach
<1>13. OwnRecord'
  <2>1. ASSUME NEW d \in CPU, Holds(d)'
        PROVE  /\ cpu'[d].place \in 1..Len(slots')
               /\ slots'[cpu'[d].place].busy
               /\ slots'[cpu'[d].place].packet = cpu'[d].packet
               /\ cpu'[d].at = "submit" => slots'[cpu'[d].place].info = cpu'[d].packet
    BY <2>1, <1>6, <1>7, <1>10, <1>11 DEF OwnRecord
  <2>2. QED
    BY <2>1, <1>6, <1>10 DEF OwnRecord
<1>14. Whole'
  BY <1>1, <1>4, <1>7, <1>9 DEF Whole
<1>15. ReaderType' /\ LoadType'
  BY <1>7 DEF bpf_ringbuf_submit, ReaderType, LoadType, At, readerVars, loadVars
<1>16. QED
  BY <1>2, <1>6, <1>7, <1>12, <1>13, <1>14, <1>15

-----------------------------------------------------------------------------
(* The loader.                                                             *)

(* The steps of main() that do not touch the ring.                         *)
QuietLoader ==
    \/ InstallHandler \/ Options \/ UnloadOption
    \/ xdp_program__create \/ xdp_program__attach \/ GetFds \/ ring_buffer__new
    \/ While \/ EpollWait \/ ring_buffer__free \/ UnloadAtExit

LEMMA QuietInv ==
    ASSUME RingInv, QuietLoader \/ ProcessDone
    PROVE  RingInv'
<1> USE DEF RingInv
<1>1. Quiet /\ main # main' /\ main' # "process"
  BY DEF QuietLoader, InstallHandler, Options, UnloadOption, xdp_program__create,
         xdp_program__attach, GetFds, ring_buffer__new, While, EpollWait,
         ring_buffer__free, UnloadAtExit, ProcessDone, Goto, Exit, At
<1>2. KernInv'
  BY <1>1, KernUnchanged DEF Quiet, ringVars, kernVars
<1>3. ReaderType'
  BY <1>1 DEF Quiet, ReaderType, At, ringVars, readerVars, kernVars
<1>4. FlagType'
  <2>1. rb' \in BOOLEAN
    BY DEF QuietLoader, InstallHandler, Options, UnloadOption, xdp_program__create,
           xdp_program__attach, GetFds, ring_buffer__new, While, EpollWait,
           ring_buffer__free, UnloadAtExit, ProcessDone, FlagType
  <2>2. QED
    BY <1>1, <2>1, Zenon DEF Quiet, FlagType, readerVars
<1>5. LoadType'
  <2>1. cfg' = cfg
    BY <1>1 DEF Quiet
  <2>2. progs' \in SUBSET {"mine", "other"}
    BY DEF QuietLoader, InstallHandler, Options, UnloadOption, xdp_program__create,
           xdp_program__attach, GetFds, ring_buffer__new, While, EpollWait, do_unload,
           ring_buffer__free, UnloadAtExit, ProcessDone, LoadType
  <2>3. main' \in {"signal", "options", "unload", "create", "attach", "fd", "new",
                   "while", "epoll", "snapshot", "process", "free",
                   "unload_mine", "exit"}
    BY DEF QuietLoader, InstallHandler, Options, UnloadOption, xdp_program__create,
           xdp_program__attach, GetFds, ring_buffer__new, While, EpollWait,
           ring_buffer__free, UnloadAtExit, ProcessDone, Goto, Exit
  <2>4. status' \in {None, EXIT_OK, EXIT_FAIL, EXIT_FAIL_OPTION, EXIT_FAIL_BPF,
                     SIGSEGV}
    BY DEF QuietLoader, InstallHandler, Options, UnloadOption, xdp_program__create,
           xdp_program__attach, GetFds, ring_buffer__new, While, EpollWait, LoadType,
           ring_buffer__free, UnloadAtExit, ProcessDone, Goto, Exit, EXIT_FAIL
  <2>5. QED
    BY <2>1, <2>2, <2>3, <2>4 DEF LoadType
<1>6. QED
  BY <1>2, <1>3, <1>4, <1>5

LEMMA SnapshotInv ==
    ASSUME RingInv, Snapshot
    PROVE  RingInv'
<1> USE DEF RingInv, KernInv
<1>1. KernInv'
  BY KernUnchanged DEF Snapshot, ringVars, kernVars
<1>2. ReaderType' /\ LoadType'
  BY LenIsNat DEF Snapshot, Goto, ReaderType, LoadType, At, ringVars, kernVars
<1>3. FlagType'
  BY Zenon DEF Snapshot, FlagType
<1>4. QED
  BY <1>1, <1>2, <1>3

(* What handle_event gets is the packet that the record was reserved for.  *)
LEMMA HandledIsWhole ==
    ASSUME RingInv, handle_event
    PROVE  /\ cons_pos + 1 \in 1..Len(slots)
           /\ slots[cons_pos + 1].packet \in Packet
           /\ out' = slots[cons_pos + 1].packet
<1>1. cons_pos + 1 \in 1..Len(slots)
  BY LenIsNat DEF RingInv, KernInv, ReaderType, handle_event
<1>2. ~ slots[cons_pos + 1].busy /\ out' = slots[cons_pos + 1].info
  BY DEF handle_event
<1>3. QED
  BY <1>1, <1>2, SlotFields DEF RingInv, KernInv, Whole

LEMMA HandleInv ==
    ASSUME RingInv, handle_event
    PROVE  RingInv'
<1> USE DEF RingInv
<1>1. KernInv'
  BY KernUnchanged DEF handle_event, kernVars
<1>2. out' \in Packet /\ line' \in Packet \cup {None}
  <2>1. out' \in Packet /\ out' = slots[cons_pos + 1].info
    BY HandledIsWhole DEF handle_event
  <2>2. line' = out' \/ line' = line
    BY <2>1 DEF handle_event, stats_print
  <2>3. QED
    BY <2>1, <2>2 DEF ReaderType
<1>3. ReaderType'
  BY <1>2, HandledIsWhole, LenIsNat DEF handle_event, ReaderType, At, kernVars, loadVars, KernInv
<1>4. LoadType'
  BY DEF handle_event, LoadType, loadVars
<1>5. FlagType'
  BY Zenon DEF handle_event, FlagType, loadVars
<1>6. QED
  BY <1>1, <1>3, <1>4, <1>5

LEMMA NextInv ==
    ASSUME RingInv, [Next]_vars
    PROVE  RingInv'
<1>1. ASSUME NEW c \in CPU, ProgStep(c)
      PROVE  RingInv'
  BY <1>1, ReserveInv, FillInv, SubmitInv DEF ProgStep
<1>2. ASSUME NEW c \in CPU, NEW frame \in Frame, xdp_prog(c, frame)
      PROVE  RingInv'
  BY <1>2, RunInv
<1>3. CASE Loader
  BY <1>3, QuietInv, SnapshotInv, HandleInv DEF Loader, QuietLoader
<1>4. CASE sig_int \/ UNCHANGED vars
  <2>1. KernInv'
    BY <1>4, KernUnchanged DEF RingInv, sig_int, vars, ringVars, kernVars
  <2>2. UNCHANGED <<arrived, slots, cons_pos, prod_pos, out, line, progs, cfg,
                  main, status>>
    BY <1>4 DEF sig_int, vars, ringVars, kernVars, readerVars, loadVars
  <2>3. ReaderType' /\ LoadType'
    BY <2>2 DEF RingInv, ReaderType, LoadType, At
  <2>4. FlagType'
    BY <1>4, Zenon DEF RingInv, sig_int, vars, readerVars, loadVars, FlagType
  <2>5. QED
    BY <2>1, <2>3, <2>4 DEF RingInv
<1>5. QED
  BY <1>1, <1>2, <1>3, <1>4 DEF Next

LEMMA SpecInv == Spec => []RingInv
BY InitInv, NextInv, PTL DEF Spec

-----------------------------------------------------------------------------
(* Results.                                                                *)

(* Type correctness: the positions of the reader and the places of the     *)
(* programs stay within the records, whatever xdp_prog runs on how many    *)
(* CPUs at once.                                                           *)
THEOREM TypeCorrect == Spec => []TypeOK
BY SpecInv, RingInvType, PTL

-----------------------------------------------------------------------------
(* The ring implements the queue of PacketFifo.                            *)

(* The packets of the records of s after the first k.                      *)
From(s, k) == [i \in 1..(Len(s) - k) |-> s[k + i].packet]

LEMMA FromIsSeq ==
    ASSUME NEW s \in Seq(Slot), NEW k \in 0..Len(s)
    PROVE  /\ From(s, k) \in Seq(Packet)
           /\ Len(From(s, k)) = Len(s) - k
           /\ \A i \in 1..(Len(s) - k) : From(s, k)[i] = s[k + i].packet
<1>1. Len(s) \in Nat /\ Len(s) - k \in Nat
  BY LenProperties
<1>2. \A i \in 1..(Len(s) - k) : k + i \in 1..Len(s)
  BY <1>1
<1>3. \A i \in 1..(Len(s) - k) : s[k + i].packet \in Packet
  <2>1. \A j \in 1..Len(s) : s[j] \in Slot
    BY ElementOfSeq
  <2>2. \A j \in 1..Len(s) : s[j].packet \in Packet
    BY <2>1 DEF Slot
  <2>3. QED
    BY <1>2, <2>2
<1>4. From(s, k) \in [1..(Len(s) - k) -> Packet]
  BY <1>3 DEF From
<1>5. From(s, k) \in Seq(Packet)
  BY <1>1, <1>4, SeqDef
<1>6. Len(From(s, k)) = Len(s) - k
  BY <1>1, <1>4, <1>5, LenProperties
<1>7. QED
  BY <1>5, <1>6 DEF From

LEMMA FromAppend ==
    ASSUME NEW s \in Seq(Slot), NEW k \in 0..Len(s), NEW e \in Slot
    PROVE  From(Append(s, e), k) = Append(From(s, k), e.packet)
<1> DEFINE t == Append(s, e)
           n == Len(s)
<1>1. /\ n \in Nat /\ t \in Seq(Slot) /\ Len(t) = n + 1 /\ t[n + 1] = e
      /\ \A i \in 1..n : t[i] = s[i]
  BY AppendProperties, LenProperties
<1>2. /\ From(s, k) \in Seq(Packet) /\ Len(From(s, k)) = n - k
      /\ \A i \in 1..(n - k) : From(s, k)[i] = s[k + i].packet
  BY FromIsSeq
<1>3. e.packet \in Packet
  BY DEF Slot
<1>4. /\ Append(From(s, k), e.packet) \in Seq(Packet)
      /\ Len(Append(From(s, k), e.packet)) = n - k + 1
      /\ Append(From(s, k), e.packet)[n - k + 1] = e.packet
      /\ \A i \in 1..(n - k) : Append(From(s, k), e.packet)[i] = From(s, k)[i]
  BY <1>1, <1>2, <1>3, AppendProperties
<1> HIDE DEF t, n
<1>5. k \in 0..n /\ k \in 0..Len(t)
  BY <1>1 DEF n
<1>6. /\ From(t, k) \in Seq(Packet) /\ Len(From(t, k)) = n + 1 - k
      /\ \A i \in 1..(n + 1 - k) : From(t, k)[i] = t[k + i].packet
  <2>1. /\ From(t, k) \in Seq(Packet) /\ Len(From(t, k)) = Len(t) - k
        /\ \A i \in 1..(Len(t) - k) : From(t, k)[i] = t[k + i].packet
    BY <1>1, <1>5, FromIsSeq
  <2>2. QED
    BY <2>1, <1>1
<1>7. ASSUME NEW i \in 1..(n + 1 - k)
      PROVE  From(t, k)[i] = Append(From(s, k), e.packet)[i]
  <2>1. CASE i = n + 1 - k
    <3>1. k + i = n + 1 /\ i = n - k + 1
      BY <2>1, <1>1, <1>5
    <3>2. QED
      BY <3>1, <1>1, <1>4, <1>6
  <2>2. CASE i # n + 1 - k
    <3>1. i \in 1..(n - k) /\ k + i \in 1..n
      BY <2>2, <1>1, <1>5
    <3>2. QED
      BY <3>1, <1>1, <1>2, <1>4, <1>6
  <2>3. QED
    BY <2>1, <2>2
<1>8. n + 1 - k = n - k + 1
  BY <1>1, <1>5
<1>9. QED
  BY <1>4, <1>6, <1>7, <1>8, SeqEqual DEF t

LEMMA FromNext ==
    ASSUME NEW s \in Seq(Slot), NEW k \in 0..Len(s), k < Len(s)
    PROVE  /\ From(s, k) # <<>>
           /\ Head(From(s, k)) = s[k + 1].packet
           /\ From(s, k + 1) = Tail(From(s, k))
<1> DEFINE n == Len(s)
           q == From(s, k)
           r == From(s, k + 1)
<1>1. n \in Nat /\ k \in Nat /\ k + 1 \in 0..n /\ k < n
  BY LenProperties
<1>2. q \in Seq(Packet) /\ Len(q) = n - k /\ \A i \in 1..(n - k) : q[i] = s[k + i].packet
  BY FromIsSeq
<1>3. /\ r \in Seq(Packet) /\ Len(r) = n - (k + 1)
      /\ \A i \in 1..(n - (k + 1)) : r[i] = s[k + 1 + i].packet
  BY <1>1, FromIsSeq
<1> HIDE DEF n, q, r
<1>4. q # <<>>
  BY <1>1, <1>2, EmptySeq
<1>5. Head(q) = s[k + 1].packet
  <2>1. 1 \in 1..(n - k)
    BY <1>1
  <2>2. QED
    BY <1>2, <2>1
<1>6. /\ Tail(q) \in Seq(Packet) /\ Len(Tail(q)) = n - (k + 1)
      /\ \A i \in 1..Len(Tail(q)) : Tail(q)[i] = q[i + 1]
  BY <1>1, <1>2, <1>4, HeadTailProperties
<1>7. ASSUME NEW i \in 1..(n - (k + 1))
      PROVE  r[i] = Tail(q)[i]
  <2>1. i + 1 \in 1..(n - k) /\ k + (i + 1) = k + 1 + i
    BY <1>1
  <2>2. QED
    BY <2>1, <1>2, <1>3, <1>6
<1>8. r = Tail(q)
  BY <1>3, <1>6, <1>7, SeqEqual
<1>9. QED
  BY <1>4, <1>5, <1>8 DEF q, r

LEMMA WaitingIsFrom == Waiting = From(slots, cons_pos)
BY DEF Waiting, From

LEMMA WaitingIsFromPrime == Waiting' = From(slots', cons_pos')
BY DEF Waiting, From

(* Steps that neither reserve nor consume do not change what waits.        *)
LEMMA SamePackets ==
    ASSUME RingInv, RingInv', cons_pos' = cons_pos, Len(slots') = Len(slots),
           \A i \in 1..Len(slots) : slots'[i].packet = slots[i].packet
    PROVE  Waiting' = Waiting
<1>1. cons_pos \in 0..Len(slots) /\ slots \in Seq(Slot) /\ slots' \in Seq(Slot)
  BY DEF RingInv, KernInv, ReaderType, SlotsType
<1>2. \A i \in 1..(Len(slots) - cons_pos) : cons_pos + i \in 1..Len(slots)
  BY <1>1, LenProperties
<1>3. QED
  BY <1>2 DEF Waiting

LEMMA InitRefines == Init => Fifo!Init
<1> SUFFICES ASSUME Init PROVE Fifo!Init
  OBVIOUS
<1>1. slots \in Seq(Slot) /\ Len(slots) = 0 /\ cons_pos = 0 /\ cons_pos \in 0..Len(slots)
  BY EmptySeq DEF Init
<1>2. Waiting \in Seq(Packet) /\ Len(Waiting) = 0
  <2>1. Waiting \in Seq(Packet) /\ Len(Waiting) = Len(slots) - cons_pos
    BY <1>1, FromIsSeq, WaitingIsFrom
  <2>2. QED
    BY <1>1, <2>1
<1>3. Waiting = <<>>
  BY <1>2, EmptySeq
<1>4. QED
  BY <1>3 DEF Init, Fifo!Init

(* Every step of the ring is a Put, a Get or no step of the queue: the     *)
(* reservation puts, handle_event gets.                                    *)
LEMMA NextRefines ==
    ASSUME RingInv, RingInv', [Next]_vars
    PROVE  [Fifo!Next]_<<Waiting, out>>
<1> DEFINE n == Len(slots)
<1>1. /\ slots \in Seq(Slot) /\ n \in Nat /\ cons_pos \in 0..n
      /\ Len(Waiting) = n - cons_pos
  <2>1. slots \in Seq(Slot) /\ cons_pos \in 0..Len(slots)
    BY DEF RingInv, KernInv, ReaderType, SlotsType
  <2>2. QED
    BY <2>1, LenProperties, WaitingIsFrom, FromIsSeq
<1>2. ASSUME NEW c \in CPU, bpf_ringbuf_reserve(c)
      PROVE  [Fifo!Next]_<<Waiting, out>>
  <2>1. cpu[c].packet \in Packet /\ UNCHANGED <<out, cons_pos>>
    BY <1>2 DEF RingInv, KernInv, OneRecordEach, bpf_ringbuf_reserve, readerVars
  <2>2. CASE n - cons_pos < RING_SIZE
    <3> DEFINE s == [packet |-> cpu[c].packet, info |-> None, busy |-> TRUE]
    <3>1. s \in Slot /\ s.packet = cpu[c].packet
      BY <2>1 DEF Slot
    <3>2. slots' = Append(slots, s)
      BY <1>2, <2>2 DEF bpf_ringbuf_reserve
    <3> HIDE DEF s
    <3>3. Waiting' = Append(Waiting, cpu[c].packet)
      BY <1>1, <2>1, <3>1, <3>2, FromAppend, WaitingIsFrom, WaitingIsFromPrime
    <3>4. Fifo!Put(cpu[c].packet)
      BY <1>1, <2>1, <2>2, <3>3 DEF Fifo!Put
    <3>5. QED
      BY <2>1, <3>4 DEF Fifo!Next
  <2>3. CASE ~ (n - cons_pos < RING_SIZE)
    BY <1>2, <2>1, <2>3, SamePackets DEF bpf_ringbuf_reserve
  <2>4. QED
    BY <2>2, <2>3
<1>3. ASSUME NEW c \in CPU, Fill(c)
      PROVE  UNCHANGED <<Waiting, out>>
  <2>1. \A i \in 1..n : slots'[i].packet = slots[i].packet
    BY <1>3, <1>1 DEF Fill
  <2>2. Len(slots') = n /\ UNCHANGED <<out, cons_pos>>
    BY <1>3, <1>1 DEF Fill, readerVars
  <2>3. QED
    BY <2>1, <2>2, SamePackets
<1>4. ASSUME NEW c \in CPU, bpf_ringbuf_submit(c)
      PROVE  UNCHANGED <<Waiting, out>>
  <2>1. \A i \in 1..n : slots'[i].packet = slots[i].packet
    BY <1>4, <1>1 DEF bpf_ringbuf_submit
  <2>2. Len(slots') = n /\ UNCHANGED <<out, cons_pos>>
    BY <1>4, <1>1 DEF bpf_ringbuf_submit, readerVars
  <2>3. QED
    BY <2>1, <2>2, SamePackets
<1>5. CASE handle_event
  <2>1. /\ cons_pos < n /\ out' = slots[cons_pos + 1].packet
        /\ slots' = slots /\ cons_pos' = cons_pos + 1
    BY <1>5, <1>1, HandledIsWhole DEF handle_event
  <2>2. /\ Waiting # <<>> /\ Head(Waiting) = slots[cons_pos + 1].packet
        /\ Waiting' = Tail(Waiting)
    BY <1>1, <2>1, FromNext, WaitingIsFrom, WaitingIsFromPrime
  <2>3. QED
    BY <2>1, <2>2 DEF Fifo!Next, Fifo!Get
<1>6. CASE UNCHANGED <<slots, cons_pos, out>>
  BY <1>6 DEF Waiting
<1>7. ASSUME QuietLoader \/ ProcessDone
      PROVE  Quiet
  BY <1>7 DEF QuietLoader, InstallHandler, Options, UnloadOption, xdp_program__create,
         xdp_program__attach, GetFds, ring_buffer__new, While, EpollWait,
         ring_buffer__free, UnloadAtExit, ProcessDone
<1>8. CASE Loader
  BY <1>8, <1>5, <1>6, <1>7 DEF Loader, QuietLoader, Quiet, Snapshot, ringVars, readerVars
<1>9. CASE sig_int \/ UNCHANGED vars \/ \E c \in CPU, frame \in Frame : xdp_prog(c, frame)
  BY <1>9, <1>6 DEF sig_int, vars, xdp_prog, ringVars, readerVars
<1>10. QED
  BY <1>2, <1>3, <1>4, <1>8, <1>9 DEF Next, ProgStep

(* The ring buffer implements the queue: handle_event gets every reserved  *)
(* packet once, whole and in the order of the reservations, and never more *)
(* than RING_SIZE wait, for any number of CPUs in xdp_prog at once.        *)
THEOREM RingImplementsFifo == Spec => RingIsFifo
BY InitRefines, SpecInv, NextRefines, PTL DEF Spec, RingIsFifo, Fifo!Spec
=============================================================================
