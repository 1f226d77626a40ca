-------------------------- MODULE ShmHandoff_proof --------------------------
(***************************************************************************)
(* Proofs about the shared memory hand-off, for any number of writers.     *)
(***************************************************************************)
EXTENDS ShmHandoff, SequenceTheorems, TLAPS

-----------------------------------------------------------------------------
(* The inductive invariants.                                               *)

Segment == [linked : BOOLEAN, data : {"empty", "partial", "message"}]
Sem     == [exists : BOOLEAN, val : Nat]

(* TypeOK in parts.                                                        *)
ObjType == segments \in Seq(Segment) /\ sems \in Seq(Sem)

PcType ==
    /\ pc \in [Proc -> CommonPcs \cup ReaderPcs \cup WriterPcs]
    /\ \A r \in Reader : pc[r] \notin WriterPcs
    /\ \A w \in Writer : pc[w] \notin ReaderPcs
    /\ mapped = {p \in Proc : pc[p] \in MappedPcs}

IdType == shmid \in [Proc -> 0..Len(segments)] /\ semid \in [Proc -> 0..Len(sems)]

RetType ==
    /\ ret \in [Reader -> {"none", "empty", "partial", "message"}]
    /\ token \in [Reader -> BOOLEAN]

Segs    == 1..Len(segments)
SemIds  == 1..Len(sems)
Running == Proc \ {p \in Proc : pc[p] \in {"shmget", "killed"}}

(* A process that is past shmget or semget has an object of that kind,     *)
(* although it may be removed.                                             *)
HasIds ==
    /\ \A p \in Running : shmid[p] \in Segs
    /\ \A p \in Running : pc[p] # "semget" => semid[p] \in SemIds

TypeInv == ObjType /\ PcType /\ IdType /\ RetType /\ HasIds

(* What a reader has removed stays removed; a segment that a process       *)
(* cannot attach is removed; and a writer that is through has left the     *)
(* whole string.                                                           *)
Removed ==
    \A r \in Reader : pc[r] \in {"rmid_sem", "done"} => segments[shmid[r]].linked = FALSE

Gone ==
    \A p \in Proc : pc[p] = "crashed" => segments[shmid[p]].linked = FALSE

Written ==
    \A w \in Writer : pc[w] \in {"post", "shmdt", "done"} =>
        segments[shmid[w]].data = "message"

(* So a segment that is linked and not whole has a process that still has  *)
(* to write or to remove it, or was killed before it could.                *)
Charged ==
    \A i \in Segs :
        \/ segments[i].linked = FALSE
        \/ segments[i].data = "message"
        \/ \E p \in Proc : shmid[p] = i /\ pc[p] \notin {"shmget", "done", "crashed"}

LeftInv == TypeInv /\ Removed /\ Gone /\ Written /\ Charged

(* A reader reads once, between the semaphore and the removal.             *)
Progress ==
    \A r \in Reader :
        /\ pc[r] \in {"shmget", "semget", "wait"} => token[r] = FALSE
        /\ pc[r] \in {"shmget", "semget", "wait", "shmat", "read"} => ret[r] = "none"
        /\ pc[r] \in {"shmdt", "rmid_shm", "rmid_sem", "done"} =>
               ret[r] # "none" /\ (ret[r] = "message" \/ WithoutToken(r))
        /\ pc[r] # "crashed"
        /\ ret[r] \in {"none", "message"} \/ WithoutToken(r)

(* Until it has, all processes share one segment and one semaphore, and    *)
(* the semaphore is raised only over a complete string.                    *)
NotRead == \A r \in Reader : ret[r] = "none"

Shared ==
    NotRead =>
        /\ Len(segments) \in {0, 1} /\ Len(sems) \in {0, 1}
        /\ \A i \in Segs : segments[i].linked = TRUE
        /\ \A i \in SemIds : /\ sems[i].exists = TRUE
                             /\ sems[i].val > 0 => 1 \in Segs /\ segments[1].data = "message"

Complete ==
    /\ \A w \in Writer : pc[w] = "post" => segments[shmid[w]].data = "message"
    /\ \A r \in Reader : pc[r] \in {"shmat", "read"} =>
           segments[shmid[r]].data = "message" \/ WithoutToken(r)

HandoffInv == TypeInv /\ Progress /\ Shared /\ Complete

LEMMA TypeInvType == TypeInv => TypeOK
BY DEF TypeInv, TypeOK, ObjType, PcType, IdType, RetType, Segment, Sem

-----------------------------------------------------------------------------
(* The objects.                                                            *)

LEMMA UpdateSeq ==
    ASSUME NEW S, NEW s \in Seq(S), NEW i \in 1..Len(s), NEW e \in S
    PROVE  /\ [s EXCEPT ![i] = e] \in Seq(S) /\ Len([s EXCEPT ![i] = e]) = Len(s)
           /\ [s EXCEPT ![i] = e][i] = e
           /\ \A j \in 1..Len(s) : j # i => [s EXCEPT ![i] = e][j] = s[j]
BY ExceptSeq

LEMMA SegmentUpdate ==
    ASSUME ObjType, NEW i \in Segs, NEW e \in Segment, segments' = [segments EXCEPT ![i] = e]
    PROVE  /\ segments' \in Seq(Segment) /\ Len(segments') = Len(segments)
           /\ Segs' = Segs /\ segments'[i] = e
           /\ \A j \in Segs : j # i => segments'[j] = segments[j]
BY UpdateSeq DEF ObjType, Segs

LEMMA SemUpdate ==
    ASSUME ObjType, NEW i \in SemIds, NEW e \in Sem, sems' = [sems EXCEPT ![i] = e]
    PROVE  /\ sems' \in Seq(Sem) /\ Len(sems') = Len(sems)
           /\ SemIds' = SemIds /\ sems'[i] = e
           /\ \A j \in SemIds : j # i => sems'[j] = sems[j]
BY UpdateSeq DEF ObjType, SemIds

LEMMA ObjFacts ==
    ASSUME ObjType
    PROVE  /\ Len(segments) \in Nat /\ Len(sems) \in Nat
           /\ \A i \in Segs : segments[i] \in Segment
           /\ \A i \in SemIds : sems[i] \in Sem
BY LenProperties, ElementOfSeq DEF ObjType, Segs, SemIds

(* A step makes objects or changes one; it brings none back by its key,    *)
(* and a complete string stays so.                                         *)
ObjStep ==
    /\ ObjType' /\ Segs \subseteq Segs' /\ SemIds \subseteq SemIds'
    /\ Len(segments) <= Len(segments') /\ Len(sems) <= Len(sems')
    /\ \A i \in Segs : /\ segments[i].linked = FALSE => segments'[i].linked = FALSE
                       /\ segments[i].data = "message" => segments'[i].data = "message"
    /\ \A i \in SemIds : sems[i].exists = FALSE => sems'[i].exists = FALSE

LEMMA ObjSame ==
    ASSUME ObjType, UNCHANGED objects
    PROVE  ObjStep /\ Segs' = Segs /\ SemIds' = SemIds
<1>1. Len(segments) \in Nat /\ Len(sems) \in Nat
  BY ObjFacts
<1>2. QED
  BY <1>1 DEF ObjStep, ObjType, objects, Segs, SemIds

(* One segment changes.                                                    *)
LEMMA SegmentStep ==
    ASSUME ObjType, NEW i \in Segs, NEW e \in Segment,
           segments' = [segments EXCEPT ![i] = e], UNCHANGED sems,
           segments[i].linked = FALSE => e.linked = FALSE,
           segments[i].data = "message" => e.data = "message"
    PROVE  /\ ObjStep /\ Segs' = Segs /\ SemIds' = SemIds /\ segments'[i] = e
           /\ \A j \in Segs : j # i => segments'[j] = segments[j]
<1>1. Len(segments) \in Nat /\ Len(sems) \in Nat
  BY ObjFacts
<1>2. /\ segments' \in Seq(Segment) /\ Len(segments') = Len(segments)
      /\ Segs' = Segs /\ segments'[i] = e
      /\ \A j \in Segs : j # i => segments'[j] = segments[j]
  BY SegmentUpdate
<1>3. ObjType' /\ SemIds' = SemIds
  BY <1>2 DEF ObjType, SemIds
<1>4. QED
  BY <1>1, <1>2, <1>3 DEF ObjStep

(* One semaphore changes.                                                  *)
LEMMA SemStep ==
    ASSUME ObjType, NEW i \in SemIds, NEW e \in Sem,
           sems' = [sems EXCEPT ![i] = e], UNCHANGED segments,
           sems[i].exists = FALSE => e.exists = FALSE
    PROVE  /\ ObjStep /\ Segs' = Segs /\ SemIds' = SemIds /\ sems'[i] = e
           /\ \A j \in SemIds : j # i => sems'[j] = sems[j]
<1>1. Len(segments) \in Nat /\ Len(sems) \in Nat
  BY ObjFacts
<1>2. /\ sems' \in Seq(Sem) /\ Len(sems') = Len(sems)
      /\ SemIds' = SemIds /\ sems'[i] = e
      /\ \A j \in SemIds : j # i => sems'[j] = sems[j]
  BY SemUpdate
<1>3. ObjType' /\ Segs' = Segs
  BY <1>2 DEF ObjType, Segs
<1>4. QED
  BY <1>1, <1>2, <1>3 DEF ObjStep

LEMMA NewSegment ==
    ASSUME ObjType, UNCHANGED sems,
           segments' = Append(segments, [linked |-> TRUE, data |-> "empty"])
    PROVE  /\ ObjStep /\ SemIds' = SemIds
           /\ Segs' = Segs \cup {Len(segments) + 1} /\ Len(segments') = Len(segments) + 1
           /\ \A j \in Segs : segments'[j] = segments[j]
           /\ segments'[Len(segments) + 1] = [linked |-> TRUE, data |-> "empty"]
<1>1. Len(segments) \in Nat /\ Len(sems) \in Nat
  BY ObjFacts
<1>2. [linked |-> TRUE, data |-> "empty"] \in Segment
  BY DEF Segment
<1>3. /\ segments' \in Seq(Segment) /\ Len(segments') = Len(segments) + 1
      /\ \A j \in 1..Len(segments) : segments'[j] = segments[j]
      /\ segments'[Len(segments) + 1] = [linked |-> TRUE, data |-> "empty"]
  BY <1>2, AppendProperties DEF ObjType
<1>4. Segs' = Segs \cup {Len(segments) + 1}
  BY <1>1, <1>3 DEF Segs
<1>5. ObjType' /\ SemIds' = SemIds
  BY <1>3 DEF ObjType, SemIds
<1>6. QED
  BY <1>1, <1>3, <1>4, <1>5 DEF ObjStep, Segs

LEMMA NewSem ==
    ASSUME ObjType, UNCHANGED segments,
           sems' = Append(sems, [exists |-> TRUE, val |-> 0])
    PROVE  /\ ObjStep /\ Segs' = Segs
           /\ SemIds' = SemIds \cup {Len(sems) + 1} /\ Len(sems') = Len(sems) + 1
           /\ \A j \in SemIds : sems'[j] = sems[j]
           /\ sems'[Len(sems) + 1] = [exists |-> TRUE, val |-> 0]
<1>1. Len(segments) \in Nat /\ Len(sems) \in Nat
  BY ObjFacts
<1>2. [exists |-> TRUE, val |-> 0] \in Sem
  BY DEF Sem
<1>3. /\ sems' \in Seq(Sem) /\ Len(sems') = Len(sems) + 1
      /\ \A j \in 1..Len(sems) : sems'[j] = sems[j]
      /\ sems'[Len(sems) + 1] = [exists |-> TRUE, val |-> 0]
  BY <1>2, AppendProperties DEF ObjType
<1>4. SemIds' = SemIds \cup {Len(sems) + 1}
  BY <1>1, <1>3 DEF SemIds
<1>5. ObjType' /\ Segs' = Segs
  BY <1>3 DEF ObjType, Segs
<1>6. QED
  BY <1>1, <1>3, <1>4, <1>5 DEF ObjStep, SemIds

-----------------------------------------------------------------------------
(* Type correctness.                                                       *)

(* Process p goes on to another call.                                      *)
LEMMA PcStep ==
    ASSUME PcType, NEW p \in Proc, NEW to \in CommonPcs \cup ReaderPcs \cup WriterPcs,
           pc' = [pc EXCEPT ![p] = to],
           p \in Reader => to \notin WriterPcs, p \in Writer => to \notin ReaderPcs,
           mapped' = IF to \in MappedPcs THEN mapped \cup {p} ELSE mapped \ {p}
    PROVE  PcType'
<1>1. /\ pc' \in [Proc -> CommonPcs \cup ReaderPcs \cup WriterPcs]
      /\ pc'[p] = to /\ \A q \in Proc \ {p} : pc'[q] = pc[q]
  BY DEF PcType
<1>2. /\ \A r \in Reader : pc'[r] \notin WriterPcs
      /\ \A w \in Writer : pc'[w] \notin ReaderPcs
  BY <1>1 DEF PcType, Proc
<1>3. mapped' = {q \in Proc : pc'[q] \in MappedPcs}
  BY <1>1 DEF PcType
<1>4. QED
  BY <1>1, <1>2, <1>3 DEF PcType

(* It keeps its identifiers.                                               *)
LEMMA IdsStay ==
    ASSUME TypeInv, ObjStep, NEW p \in Proc, NEW to, pc' = [pc EXCEPT ![p] = to],
           UNCHANGED <<shmid, semid>>,
           to = "killed" \/ pc[p] \notin {"shmget", "semget", "killed"}
    PROVE  IdType' /\ HasIds'
<1> USE DEF TypeInv
<1>1. /\ Len(segments) \in Nat /\ Len(sems) \in Nat
      /\ Len(segments') \in Nat /\ Len(sems') \in Nat
      /\ Len(segments) <= Len(segments') /\ Len(sems) <= Len(sems')
  BY ObjFacts, LenProperties DEF ObjStep, ObjType
<1>2. IdType'
  BY <1>1 DEF IdType
<1>3. \A q \in Proc \ {p} : pc'[q] = pc[q]
  BY DEF PcType
<1>4. \A q \in Proc : pc'[q] \notin {"shmget", "killed"} =>
          /\ pc[q] \notin {"shmget", "killed"}
          /\ pc'[q] # "semget" => pc[q] # "semget"
  BY <1>3 DEF PcType
<1>5. HasIds'
  BY <1>4 DEF HasIds, Running, ObjStep
<1>6. QED
  BY <1>2, <1>5

(* What each call does to the objects, with the types kept.                *)

LEMMA ShmgetStep ==
    ASSUME TypeInv, NEW p \in Proc, shmget(p)
    PROVE  /\ TypeInv' /\ ObjStep /\ SemIds' = SemIds
           /\ shmid'[p] \in Segs' /\ segments'[shmid'[p]].linked = TRUE
           /\ \A q \in Proc \ {p} : shmid'[q] = shmid[q]
           /\ \/ Segs' = Segs /\ UNCHANGED segments
              \/ /\ \A i \in Segs : segments[i].linked = FALSE
                 /\ Segs' = Segs \cup {Len(segments) + 1}
                 /\ Len(segments') = Len(segments) + 1
                 /\ \A j \in Segs : segments'[j] = segments[j]
                 /\ segments'[Len(segments) + 1] = [linked |-> TRUE, data |-> "empty"]
<1> USE DEF TypeInv
<1>1. /\ pc[p] = "shmget" /\ pc' = [pc EXCEPT ![p] = "semget"]
      /\ UNCHANGED <<sems, semid, mapped, ret, token>>
  BY DEF shmget, Goto
<1>2. p \notin mapped /\ mapped' = mapped \ {p}
  BY <1>1 DEF PcType, MappedPcs
<1>3. PcType'
  BY <1>1, <1>2, PcStep DEF CommonPcs, ReaderPcs, WriterPcs, MappedPcs
<1>4. RetType'
  BY <1>1 DEF RetType
<1>5. PICK i \in Nat :
          /\ ObjStep /\ SemIds' = SemIds
          /\ shmid' = [shmid EXCEPT ![p] = i] /\ i \in Segs' /\ segments'[i].linked = TRUE
          /\ \/ Segs' = Segs /\ UNCHANGED segments
             \/ /\ \A j \in Segs : segments[j].linked = FALSE
                /\ Segs' = Segs \cup {Len(segments) + 1}
                /\ Len(segments') = Len(segments) + 1
                /\ \A j \in Segs : segments'[j] = segments[j]
                /\ segments'[Len(segments) + 1] = [linked |-> TRUE, data |-> "empty"]
  <2>1. CASE Linked # {}
    <3>1. /\ segments' = segments
          /\ shmid' = [shmid EXCEPT ![p] = CHOOSE i \in Linked : TRUE]
      BY <2>1 DEF shmget
    <3>2. PICK i : i = CHOOSE j \in Linked : TRUE
      OBVIOUS
    <3>3. i \in Linked
      BY <2>1, <3>2
    <3>4. i \in Segs /\ segments[i].linked = TRUE /\ i \in Nat
      BY <3>3, ObjFacts DEF Linked, Segs, Segment
    <3>5. ObjStep /\ Segs' = Segs /\ SemIds' = SemIds
      BY <1>1, <3>1, ObjSame DEF objects
    <3>6. QED
      BY <3>1, <3>2, <3>4, <3>5
  <2>2. CASE Linked = {}
    <3>1. /\ segments' = Append(segments, [linked |-> TRUE, data |-> "empty"])
          /\ shmid' = [shmid EXCEPT ![p] = Len(segments) + 1]
      BY <2>2 DEF shmget
    <3>2. \A j \in Segs : segments[j].linked = FALSE
      BY <2>2, ObjFacts DEF Linked, Segs, Segment
    <3>3. /\ ObjStep /\ SemIds' = SemIds
          /\ Segs' = Segs \cup {Len(segments) + 1} /\ Len(segments') = Len(segments) + 1
          /\ \A j \in Segs : segments'[j] = segments[j]
          /\ segments'[Len(segments) + 1] = [linked |-> TRUE, data |-> "empty"]
      BY <1>1, <3>1, NewSegment
    <3>4. PICK i \in Nat : i = Len(segments) + 1
      BY ObjFacts
    <3>5. segments'[i].linked = TRUE /\ i \in Segs'
      BY <3>3, <3>4
    <3>6. QED
      BY <3>1, <3>2, <3>3, <3>4, <3>5
  <2>3. QED
    BY <2>1, <2>2
<1>6. /\ ObjType' /\ Len(segments) \in Nat /\ Len(segments') \in Nat
      /\ Len(segments) <= Len(segments') /\ Segs \subseteq Segs'
  BY <1>5, ObjFacts, LenProperties DEF ObjStep, ObjType
<1>7. shmid'[p] = i /\ \A q \in Proc \ {p} : shmid'[q] = shmid[q] /\ pc'[q] = pc[q]
  BY <1>1, <1>5 DEF IdType, PcType
<1>8. IdType'
  <2>1. i \in 0..Len(segments')
    BY <1>5, <1>6 DEF Segs
  <2>2. QED
    BY <1>1, <1>5, <1>6, <2>1 DEF IdType
<1>9. HasIds'
  <2>1. pc'[p] = "semget"
    BY <1>1 DEF PcType
  <2>2. \A q \in Proc : pc'[q] \notin {"shmget", "killed"} => shmid'[q] \in Segs'
    BY <1>5, <1>6, <1>7 DEF HasIds, Running
  <2>3. \A q \in Proc : pc'[q] \notin {"shmget", "killed", "semget"} => semid'[q] \in SemIds'
    BY <1>1, <1>5, <1>7, <2>1 DEF HasIds, Running
  <2>4. QED
    BY <2>2, <2>3 DEF HasIds, Running
<1>10. QED
  BY <1>3, <1>4, <1>5, <1>6, <1>7, <1>8, <1>9

LEMMA SemgetStep ==
    ASSUME TypeInv, NEW p \in Proc, semget(p)
    PROVE  /\ TypeInv' /\ ObjStep /\ Segs' = Segs
           /\ \A q \in Proc \ {p} : semid'[q] = semid[q]
           /\ \/ SemIds' = SemIds /\ UNCHANGED sems
              \/ /\ \A i \in SemIds : sems[i].exists = FALSE
                 /\ SemIds' = SemIds \cup {Len(sems) + 1}
                 /\ Len(sems') = Len(sems) + 1
                 /\ \A j \in SemIds : sems'[j] = sems[j]
                 /\ sems'[Len(sems) + 1] = [exists |-> TRUE, val |-> 0]
<1> USE DEF TypeInv
<1>0. PICK to : to = IF p \in Reader THEN "wait" ELSE "setval"
  OBVIOUS
<1>1. /\ pc[p] = "semget" /\ pc' = [pc EXCEPT ![p] = to]
      /\ UNCHANGED <<segments, shmid, mapped, ret, token>>
  BY <1>0 DEF semget, Goto
<1>2. p \notin mapped /\ mapped' = mapped \ {p}
  BY <1>1 DEF PcType, MappedPcs
<1>3. PcType'
  <2>1. /\ to \in CommonPcs \cup ReaderPcs \cup WriterPcs /\ to \notin MappedPcs
        /\ p \in Reader => to \notin WriterPcs
        /\ p \in Writer => to \notin ReaderPcs
    BY <1>0, ShmAssumption DEF CommonPcs, ReaderPcs, WriterPcs, MappedPcs
  <2>2. QED
    BY <1>1, <1>2, <2>1, PcStep
<1>4. RetType'
  BY <1>1 DEF RetType
<1>5. PICK i \in Nat :
          /\ ObjStep /\ Segs' = Segs
          /\ semid' = [semid EXCEPT ![p] = i] /\ i \in SemIds'
          /\ \/ SemIds' = SemIds /\ UNCHANGED sems
             \/ /\ \A j \in SemIds : sems[j].exists = FALSE
                /\ SemIds' = SemIds \cup {Len(sems) + 1}
                /\ Len(sems') = Len(sems) + 1
                /\ \A j \in SemIds : sems'[j] = sems[j]
                /\ sems'[Len(sems) + 1] = [exists |-> TRUE, val |-> 0]
  <2>1. CASE Sems # {}
    <3>1. sems' = sems /\ semid' = [semid EXCEPT ![p] = CHOOSE i \in Sems : TRUE]
      BY <2>1 DEF semget
    <3>2. PICK i : i = CHOOSE j \in Sems : TRUE
      OBVIOUS
    <3>3. i \in Sems
      BY <2>1, <3>2
    <3>4. i \in SemIds /\ i \in Nat
      BY <3>3, ObjFacts DEF Sems, SemIds
    <3>5. ObjStep /\ Segs' = Segs /\ SemIds' = SemIds
      BY <1>1, <3>1, ObjSame DEF objects
    <3>6. QED
      BY <3>1, <3>2, <3>4, <3>5
  <2>2. CASE Sems = {}
    <3>1. /\ sems' = Append(sems, [exists |-> TRUE, val |-> 0])
          /\ semid' = [semid EXCEPT ![p] = Len(sems) + 1]
      BY <2>2 DEF semget
    <3>2. \A j \in SemIds : sems[j].exists = FALSE
      BY <2>2, ObjFacts DEF Sems, SemIds, Sem
    <3>3. /\ ObjStep /\ Segs' = Segs
          /\ SemIds' = SemIds \cup {Len(sems) + 1} /\ Len(sems') = Len(sems) + 1
          /\ \A j \in SemIds : sems'[j] = sems[j]
          /\ sems'[Len(sems) + 1] = [exists |-> TRUE, val |-> 0]
      BY <1>1, <3>1, NewSem
    <3>4. PICK i \in Nat : i = Len(sems) + 1
      BY ObjFacts
    <3>5. QED
      BY <3>1, <3>2, <3>3, <3>4
  <2>3. QED
    BY <2>1, <2>2
<1>6. /\ ObjType' /\ Len(sems) \in Nat /\ Len(sems') \in Nat
      /\ Len(sems) <= Len(sems') /\ SemIds \subseteq SemIds'
  BY <1>5, ObjFacts, LenProperties DEF ObjStep, ObjType
<1>7. semid'[p] = i /\ \A q \in Proc \ {p} : semid'[q] = semid[q] /\ pc'[q] = pc[q]
  BY <1>1, <1>5 DEF IdType, PcType
<1>8. IdType'
  <2>1. i \in 0..Len(sems')
    BY <1>5, <1>6 DEF SemIds
  <2>2. QED
    BY <1>1, <1>5, <1>6, <2>1 DEF IdType
<1>9. HasIds'
  <2>1. \A q \in Proc : pc'[q] \notin {"shmget", "killed"} => pc[q] \notin {"shmget", "killed"}
    BY <1>1, <1>7
  <2>2. \A q \in Proc : pc'[q] \notin {"shmget", "killed"} => shmid'[q] \in Segs'
    BY <1>1, <1>5, <2>1 DEF HasIds, Running
  <2>3. \A q \in Proc : pc'[q] \notin {"shmget", "killed", "semget"} => semid'[q] \in SemIds'
    BY <1>5, <1>6, <1>7 DEF HasIds, Running
  <2>4. QED
    BY <2>2, <2>3 DEF HasIds, Running
<1>10. QED
  BY <1>3, <1>4, <1>5, <1>6, <1>7, <1>8, <1>9

(* A step of p after semget, or its end.                                   *)
LEMMA LaterStep ==
    ASSUME TypeInv, ObjStep, NEW p \in Proc,
           NEW to \in CommonPcs \cup ReaderPcs \cup WriterPcs, pc' = [pc EXCEPT ![p] = to],
           UNCHANGED <<shmid, semid>>, RetType',
           to = "killed" \/ pc[p] \notin {"shmget", "semget", "killed"},
           p \in Reader => to \notin WriterPcs, p \in Writer => to \notin ReaderPcs,
           mapped' = IF to \in MappedPcs THEN mapped \cup {p} ELSE mapped \ {p}
    PROVE  TypeInv'
<1>1. PcType'
  BY PcStep DEF TypeInv
<1>2. IdType' /\ HasIds'
  BY IdsStay
<1>3. QED
  BY <1>1, <1>2 DEF TypeInv, ObjStep

LEMMA PcSets ==
    /\ ReaderPcs \cap WriterPcs = {} /\ CommonPcs \cap (ReaderPcs \cup WriterPcs) = {}
    /\ {"read", "wait", "rmid_shm", "rmid_sem"} \subseteq ReaderPcs
    /\ {"setval", "strcpy", "strcpy_end", "post"} \subseteq WriterPcs
    /\ {"shmget", "semget", "shmat", "shmdt", "done", "crashed", "killed"} \subseteq CommonPcs
    /\ {"read", "strcpy", "strcpy_end", "post", "shmdt"} \subseteq MappedPcs
    /\ MappedPcs \cap {"shmat", "rmid_shm", "rmid_sem", "done", "crashed", "killed"} = {}
BY DEF ReaderPcs, WriterPcs, CommonPcs, MappedPcs

LEMMA RetSame == RetType /\ UNCHANGED <<ret, token>> => RetType'
BY DEF RetType

LEMMA ShmatStep ==
    ASSUME TypeInv, NEW p \in Proc, shmat(p)
    PROVE  TypeInv' /\ ObjStep
<1> USE DEF TypeInv
<1>1. pc[p] = "shmat" /\ UNCHANGED <<objects, shmid, semid, ret, token>>
  BY DEF shmat, Goto
<1>2. ObjStep /\ RetType'
  BY <1>1, ObjSame, RetSame
<1>3. PICK to \in {"read", "strcpy", "crashed"} :
          /\ pc' = [pc EXCEPT ![p] = to]
          /\ p \in Reader => to # "strcpy"
          /\ p \in Writer => to # "read"
          /\ mapped' = IF to = "crashed" THEN mapped ELSE mapped \cup {p}
  BY ShmAssumption DEF shmat, Goto
<1>4. /\ to \in CommonPcs \cup ReaderPcs \cup WriterPcs
      /\ p \in Reader => to \notin WriterPcs
      /\ p \in Writer => to \notin ReaderPcs
      /\ to \in MappedPcs <=> to # "crashed"
  BY <1>3 DEF ReaderPcs, WriterPcs, CommonPcs, MappedPcs
<1>5. p \notin mapped
  BY <1>1 DEF PcType, MappedPcs
<1>6. mapped' = IF to \in MappedPcs THEN mapped \cup {p} ELSE mapped \ {p}
  BY <1>3, <1>4, <1>5
<1>7. QED
  BY <1>1, <1>2, <1>3, <1>4, <1>6, LaterStep

LEMMA ShmdtStep ==
    ASSUME TypeInv, NEW p \in Proc, shmdt(p)
    PROVE  TypeInv' /\ ObjStep
<1> USE DEF TypeInv
<1>1. pc[p] = "shmdt" /\ UNCHANGED <<objects, shmid, semid, ret, token>>
  BY DEF shmdt, Goto
<1>2. ObjStep /\ RetType'
  BY <1>1, ObjSame, RetSame
<1>3. PICK to \in {"rmid_shm", "done"} :
          /\ pc' = [pc EXCEPT ![p] = to] /\ (p \in Writer => to = "done")
          /\ mapped' = mapped \ {p}
  BY ShmAssumption DEF shmdt, Goto
<1>4. /\ to \in CommonPcs \cup ReaderPcs \cup WriterPcs
      /\ p \in Reader => to \notin WriterPcs
      /\ p \in Writer => to \notin ReaderPcs
      /\ to \notin MappedPcs
  BY <1>3 DEF ReaderPcs, WriterPcs, CommonPcs, MappedPcs
<1>5. QED
  BY <1>1, <1>2, <1>3, <1>4, LaterStep

LEMMA KillStep ==
    ASSUME TypeInv, NEW p \in Proc, Kill(p)
    PROVE  TypeInv' /\ ObjStep
<1> USE DEF TypeInv
<1>1. /\ UNCHANGED <<objects, shmid, semid, ret, token>> /\ mapped' = mapped \ {p}
      /\ pc' = [pc EXCEPT ![p] = "killed"]
  BY DEF Kill
<1>2. ObjStep /\ RetType'
  BY <1>1, ObjSame, RetSame
<1>3. QED
  BY <1>1, <1>2, PcSets, LaterStep

LEMMA SetValStep ==
    ASSUME TypeInv, NEW w \in Writer, SetVal(w)
    PROVE  /\ TypeInv' /\ ObjStep /\ Segs' = Segs /\ SemIds' = SemIds
           /\ \A j \in SemIds : sems'[j].exists = sems[j].exists /\ sems'[j].val <= sems[j].val
<1> USE DEF TypeInv
<1>1. /\ pc[w] = "setval" /\ pc' = [pc EXCEPT ![w] = "shmat"] /\ w \in Proc
      /\ UNCHANGED <<segments, shmid, semid, mapped, ret, token>>
  BY DEF SetVal, Goto, Proc
<1>2. PICK i \in SemIds : i = semid[w]
  BY <1>1 DEF HasIds, Running
<1>3. PICK v : v = IF sems[i].exists THEN 0 ELSE sems[i].val
  OBVIOUS
<1>4. PICK e : e = [sems[i] EXCEPT !.val = v]
  OBVIOUS
<1>5. sems' = [sems EXCEPT ![i] = e]
  BY <1>2, <1>3, <1>4 DEF SetVal
<1>6. sems[i] \in Sem
  BY ObjFacts
<1>7. v \in Nat /\ v <= sems[i].val
  BY <1>3, <1>6 DEF Sem
<1>8. e \in Sem /\ e.exists = sems[i].exists /\ e.val = v
  BY <1>4, <1>6, <1>7 DEF Sem
<1>9. /\ ObjStep /\ Segs' = Segs /\ SemIds' = SemIds /\ sems'[i] = e
      /\ \A j \in SemIds : j # i => sems'[j] = sems[j]
  BY <1>1, <1>5, <1>8, SemStep
<1>10. w \notin mapped
  BY <1>1 DEF PcType, MappedPcs
<1>11. TypeInv'
  BY <1>1, <1>9, <1>10, PcSets, RetSame, LaterStep
<1>12. \A j \in SemIds : sems[j].val \in Nat
  BY ObjFacts DEF Sem
<1>13. QED
  BY <1>7, <1>8, <1>9, <1>11, <1>12

LEMMA PostStep ==
    ASSUME TypeInv, NEW w \in Writer, Post(w)
    PROVE  /\ TypeInv' /\ ObjStep /\ Segs' = Segs /\ SemIds' = SemIds
           /\ \A j \in SemIds : sems'[j].exists = sems[j].exists
<1> USE DEF TypeInv
<1>1. /\ pc[w] = "post" /\ pc' = [pc EXCEPT ![w] = "shmdt"] /\ w \in Proc
      /\ UNCHANGED <<segments, shmid, semid, mapped, ret, token>>
  BY DEF Post, Goto, Proc
<1>2. PICK i \in SemIds : i = semid[w]
  BY <1>1 DEF HasIds, Running
<1>3. PICK v : v = IF sems[i].exists THEN sems[i].val + 1 ELSE sems[i].val
  OBVIOUS
<1>4. PICK e : e = [sems[i] EXCEPT !.val = v]
  OBVIOUS
<1>5. sems' = [sems EXCEPT ![i] = e]
  BY <1>2, <1>3, <1>4 DEF Post
<1>6. sems[i] \in Sem
  BY ObjFacts
<1>7. v \in Nat
  BY <1>3, <1>6 DEF Sem
<1>8. e \in Sem /\ e.exists = sems[i].exists
  BY <1>4, <1>6, <1>7 DEF Sem
<1>9. /\ ObjStep /\ Segs' = Segs /\ SemIds' = SemIds /\ sems'[i] = e
      /\ \A j \in SemIds : j # i => sems'[j] = sems[j]
  BY <1>1, <1>5, <1>8, SemStep
<1>10. w \in mapped
  BY <1>1 DEF PcType, MappedPcs
<1>11. TypeInv'
  BY <1>1, <1>9, <1>10, PcSets, RetSame, LaterStep
<1>12. QED
  BY <1>8, <1>9, <1>11

LEMMA SemWaitStep ==
    ASSUME TypeInv, NEW r \in Reader, SemWait(r)
    PROVE  /\ TypeInv' /\ ObjStep /\ Segs' = Segs /\ SemIds' = SemIds
           /\ \A j \in SemIds : sems'[j].exists = sems[j].exists /\ sems'[j].val <= sems[j].val
           /\ semid[r] \in SemIds
           /\ \/ sems[semid[r]].exists = FALSE
              \/ sems[semid[r]].val > 0
<1> USE DEF TypeInv
<1>1. /\ pc[r] = "wait" /\ pc' = [pc EXCEPT ![r] = "shmat"] /\ r \in Proc
      /\ UNCHANGED <<segments, shmid, semid, mapped, ret>>
  BY DEF SemWait, Goto, Proc
<1>2. PICK i \in SemIds : i = semid[r]
  BY <1>1 DEF HasIds, Running
<1>3. sems[i] \in Sem /\ \A j \in SemIds : sems[j].val \in Nat
  BY ObjFacts DEF Sem
<1>4. r \notin mapped
  BY <1>1 DEF PcType, MappedPcs
<1>5. RetType'
  BY <1>1 DEF RetType, SemWait
<1>6. CASE ~ sems[i].exists /\ UNCHANGED sems
  <2>1. ObjStep /\ Segs' = Segs /\ SemIds' = SemIds
    BY <1>1, <1>6, ObjSame DEF objects
  <2>2. TypeInv'
    BY <1>1, <1>4, <1>5, <2>1, PcSets, LaterStep
  <2>3. sems[i].exists = FALSE
    BY <1>3, <1>6 DEF Sem
  <2>4. QED
    BY <1>2, <1>3, <1>6, <2>1, <2>2, <2>3
<1>7. CASE sems[i].val > 0 /\ sems' = [sems EXCEPT ![i].val = @ - 1]
  <2>1. PICK e : e = [sems[i] EXCEPT !.val = sems[i].val - 1]
    OBVIOUS
  <2>2. sems' = [sems EXCEPT ![i] = e]
    BY <1>7, <2>1
  <2>3. e \in Sem /\ e.exists = sems[i].exists /\ e.val <= sems[i].val
    BY <1>3, <1>7, <2>1 DEF Sem
  <2>4. /\ ObjStep /\ Segs' = Segs /\ SemIds' = SemIds /\ sems'[i] = e
        /\ \A j \in SemIds : j # i => sems'[j] = sems[j]
    BY <1>1, <2>2, <2>3, SemStep
  <2>5. TypeInv'
    BY <1>1, <1>4, <1>5, <2>4, PcSets, LaterStep
  <2>6. QED
    BY <1>2, <1>3, <1>7, <2>3, <2>4, <2>5
<1>8. QED
  BY <1>2, <1>6, <1>7 DEF SemWait

LEMMA InterruptedStep ==
    ASSUME TypeInv, NEW r \in Reader, SemopInterrupted(r)
    PROVE  TypeInv' /\ ObjStep
<1> USE DEF TypeInv
<1>1. /\ pc[r] = "wait" /\ pc' = [pc EXCEPT ![r] = "shmat"] /\ r \in Proc
      /\ UNCHANGED <<objects, shmid, semid, mapped, ret, token>>
  BY DEF SemopInterrupted, Goto, Proc
<1>2. ObjStep /\ RetType'
  BY <1>1, ObjSame, RetSame
<1>3. r \notin mapped
  BY <1>1 DEF PcType, MappedPcs
<1>4. QED
  BY <1>1, <1>2, <1>3, PcSets, LaterStep

(* strcpy, in its two halves.                                              *)
LEMMA StrcpyStep ==
    ASSUME TypeInv, NEW w \in Writer, StrcpyBegins(w) \/ StrcpyEnds(w)
    PROVE  /\ TypeInv' /\ ObjStep /\ Segs' = Segs /\ SemIds' = SemIds
           /\ \A j \in Segs : segments'[j].linked = segments[j].linked
           /\ StrcpyEnds(w) => segments'[shmid[w]].data = "message"
<1> USE DEF TypeInv
<1>1. /\ pc[w] \in {"strcpy", "strcpy_end"} /\ w \in Proc
      /\ UNCHANGED <<sems, shmid, semid, mapped, ret, token>>
  BY DEF StrcpyBegins, StrcpyEnds, Goto, Proc
<1>2. PICK to \in {"strcpy_end", "post"} : pc' = [pc EXCEPT ![w] = to]
  BY DEF StrcpyBegins, StrcpyEnds, Goto
<1>3. PICK i \in Segs : i = shmid[w]
  BY <1>1 DEF HasIds, Running
<1>4. segments[i] \in Segment
  BY ObjFacts
<1>5. PICK d : /\ d \in {"empty", "partial", "message"}
               /\ segments' = [segments EXCEPT ![i] = [segments[i] EXCEPT !.data = d]]
               /\ segments[i].data = "message" => d = "message"
               /\ StrcpyEnds(w) => d = "message"
  <2>1. CASE StrcpyEnds(w)
    BY <1>3, <2>1 DEF StrcpyEnds
  <2>2. CASE StrcpyBegins(w) /\ ~ StrcpyEnds(w)
    <3>1. PICK d : d = IF segments[i].data = "message" THEN segments[i].data ELSE "partial"
      OBVIOUS
    <3>2. segments' = [segments EXCEPT ![i] = [segments[i] EXCEPT !.data = d]]
      BY <1>3, <2>2, <3>1 DEF StrcpyBegins
    <3>3. QED
      BY <2>2, <3>1, <3>2
  <2>3. QED
    BY <2>1, <2>2
<1>6. PICK e : e = [segments[i] EXCEPT !.data = d]
  OBVIOUS
<1>7. e \in Segment /\ e.linked = segments[i].linked /\ e.data = d
  BY <1>4, <1>5, <1>6 DEF Segment
<1>8. /\ ObjStep /\ Segs' = Segs /\ SemIds' = SemIds /\ segments'[i] = e
      /\ \A j \in Segs : j # i => segments'[j] = segments[j]
  BY <1>1, <1>5, <1>6, <1>7, SegmentStep
<1>9. w \in mapped
  BY <1>1 DEF PcType, MappedPcs
<1>10. TypeInv'
  <2>1. to \in WriterPcs /\ to \in MappedPcs /\ to \notin ReaderPcs
    BY <1>2, PcSets
  <2>2. RetType' /\ w \notin Reader
    BY <1>1, RetSame, ShmAssumption
  <2>3. mapped' = mapped \cup {w}
    BY <1>1, <1>9
  <2>4. QED
    BY <1>1, <1>2, <1>8, <2>1, <2>2, <2>3, LaterStep
<1>11. QED
  BY <1>3, <1>5, <1>7, <1>8, <1>10

LEMMA ReadStringStep ==
    ASSUME TypeInv, NEW r \in Reader, ReadString(r)
    PROVE  TypeInv' /\ ObjStep
<1> USE DEF TypeInv
<1>1. /\ pc[r] = "read" /\ pc' = [pc EXCEPT ![r] = "shmdt"] /\ r \in Proc
      /\ ret' = [ret EXCEPT ![r] = segments[shmid[r]].data]
      /\ UNCHANGED <<objects, shmid, semid, mapped, token>>
  BY DEF ReadString, Goto, Proc
<1>2. ObjStep
  BY <1>1, ObjSame
<1>3. segments[shmid[r]].data \in {"empty", "partial", "message"}
  BY <1>1, ObjFacts DEF HasIds, Running, Segment
<1>4. RetType'
  BY <1>1, <1>3 DEF RetType
<1>5. r \in mapped
  BY <1>1 DEF PcType, MappedPcs
<1>6. QED
  BY <1>1, <1>2, <1>4, <1>5, PcSets, LaterStep

LEMMA RemoveSegmentStep ==
    ASSUME TypeInv, NEW r \in Reader, RemoveSegment(r)
    PROVE  TypeInv' /\ ObjStep /\ Segs' = Segs /\ segments'[shmid[r]].linked = FALSE
<1> USE DEF TypeInv
<1>1. /\ pc[r] = "rmid_shm" /\ pc' = [pc EXCEPT ![r] = "rmid_sem"] /\ r \in Proc
      /\ UNCHANGED <<sems, shmid, semid, mapped, ret, token>>
  BY DEF RemoveSegment, Goto, Proc
<1>2. PICK i \in Segs : i = shmid[r]
  BY <1>1 DEF HasIds, Running
<1>3. segments[i] \in Segment
  BY ObjFacts
<1>4. PICK e : e = [segments[i] EXCEPT !.linked = FALSE]
  OBVIOUS
<1>5. e \in Segment /\ e.linked = FALSE /\ e.data = segments[i].data
  BY <1>3, <1>4 DEF Segment
<1>6. segments' = [segments EXCEPT ![i] = e]
  BY <1>2, <1>4 DEF RemoveSegment
<1>7. ObjStep /\ Segs' = Segs /\ segments'[i] = e
  BY <1>1, <1>5, <1>6, SegmentStep
<1>8. r \notin mapped
  BY <1>1 DEF PcType, MappedPcs
<1>9. TypeInv'
  <2>1. RetType' /\ r \notin Writer
    BY <1>1, RetSame, ShmAssumption
  <2>2. mapped' = mapped \ {r}
    BY <1>1, <1>8
  <2>3. QED
    BY <1>1, <1>7, <2>1, <2>2, PcSets, LaterStep
<1>10. QED
  BY <1>2, <1>5, <1>7, <1>9

LEMMA RemoveSemStep ==
    ASSUME TypeInv, NEW r \in Reader, RemoveSem(r)
    PROVE  TypeInv' /\ ObjStep /\ sems'[semid[r]].exists = FALSE
<1> USE DEF TypeInv
<1>1. /\ pc[r] = "rmid_sem" /\ pc' = [pc EXCEPT ![r] = "done"] /\ r \in Proc
      /\ UNCHANGED <<segments, shmid, semid, mapped, ret, token>>
  BY DEF RemoveSem, Goto, Proc
<1>2. PICK i \in SemIds : i = semid[r]
  BY <1>1 DEF HasIds, Running
<1>3. sems[i] \in Sem
  BY ObjFacts
<1>4. PICK e : e = [sems[i] EXCEPT !.exists = FALSE]
  OBVIOUS
<1>5. e \in Sem /\ e.exists = FALSE
  BY <1>3, <1>4 DEF Sem
<1>6. sems' = [sems EXCEPT ![i] = e]
  BY <1>2, <1>4 DEF RemoveSem
<1>7. ObjStep /\ sems'[i] = e
  BY <1>1, <1>5, <1>6, SemStep
<1>8. r \notin mapped
  BY <1>1 DEF PcType, MappedPcs
<1>9. TypeInv'
  BY <1>1, <1>7, <1>8, PcSets, RetSame, LaterStep
<1>10. QED
  BY <1>2, <1>5, <1>7, <1>9

(* Process p takes a step of its program.                                  *)
Steps(p) ==
    \/ p \in Writer /\ tcp_connect_shm_write(p)
    \/ p \in Reader /\ (tcp_connect_shm_read(p) \/ SemopInterrupted(p))
    \/ Kill(p)

LEMMA NextSteps ==
    ASSUME Next
    PROVE  \E p \in Proc : Steps(p)
BY DEF Next, Steps, Proc

LEMMA TypeStep ==
    ASSUME TypeInv, NEW p \in Proc, Steps(p)
    PROVE  TypeInv' /\ ObjStep
BY ShmgetStep, SemgetStep, ShmatStep, ShmdtStep, KillStep, SetValStep, PostStep, SemWaitStep,
   InterruptedStep, StrcpyStep, ReadStringStep, RemoveSegmentStep, RemoveSemStep
   DEF Steps, tcp_connect_shm_write, tcp_connect_shm_read

LEMMA TypeNext ==
    ASSUME TypeInv, [Next]_vars
    PROVE  TypeInv'
<1>1. CASE UNCHANGED vars
  BY <1>1 DEF TypeInv, ObjType, PcType, IdType, RetType, HasIds, Running, Segs, SemIds,
              vars, objects
<1>2. CASE Next
  BY <1>2, NextSteps, TypeStep
<1>3. QED
  BY <1>1, <1>2

LEMMA TypeInit == Init => TypeInv
<1> SUFFICES ASSUME Init PROVE TypeInv
  OBVIOUS
<1>1. segments \in Seq(Segment) /\ sems \in Seq(Sem) /\ Len(segments) = 0 /\ Len(sems) = 0
  BY EmptySeq DEF Init
<1>2. ObjType /\ IdType /\ RetType
  BY <1>1 DEF Init, ObjType, IdType, RetType
<1>3. PcType
  BY DEF Init, PcType, Proc, CommonPcs, ReaderPcs, WriterPcs, MappedPcs
<1>4. HasIds
  BY DEF Init, HasIds, Running
<1>5. QED
  BY <1>2, <1>3, <1>4 DEF TypeInv

LEMMA TypeAlways == Spec => []TypeInv
BY TypeInit, TypeNext, PTL DEF Spec

(* Type correctness for any readers and writers, killed wherever they are: *)
(* a process is attached to its segment exactly between shmat and shmdt,   *)
(* and no semop of shm.c makes a semaphore negative.                       *)
THEOREM TypeCorrect == Spec => []TypeOK
BY TypeAlways, TypeInvType, PTL

-----------------------------------------------------------------------------
(* What is left behind.                                                    *)

(* A step of p is no step of another process.                              *)
LEMMA OthersStay ==
    ASSUME TypeInv, NEW p \in Proc, Steps(p)
    PROVE  \A q \in Proc \ {p} :
               /\ pc'[q] = pc[q] /\ shmid'[q] = shmid[q] /\ semid'[q] = semid[q]
               /\ q \in Reader => ret'[q] = ret[q] /\ token'[q] = token[q]
<1> SUFFICES ASSUME NEW q \in Proc \ {p}
             PROVE  /\ pc'[q] = pc[q] /\ shmid'[q] = shmid[q] /\ semid'[q] = semid[q]
                    /\ q \in Reader => ret'[q] = ret[q] /\ token'[q] = token[q]
  OBVIOUS
<1> USE DEF TypeInv, PcType, IdType, RetType, Goto
<1>1. CASE shmget(p)
  BY <1>1 DEF shmget
<1>2. CASE semget(p)
  BY <1>2 DEF semget
<1>3. CASE shmat(p) \/ shmdt(p) \/ Kill(p)
  BY <1>3 DEF shmat, shmdt, Kill
<1>4. CASE SetVal(p) \/ StrcpyBegins(p) \/ StrcpyEnds(p) \/ Post(p)
  BY <1>4 DEF SetVal, StrcpyBegins, StrcpyEnds, Post
<1>5. CASE SemWait(p) \/ SemopInterrupted(p) \/ ReadString(p)
  BY <1>5 DEF SemWait, SemopInterrupted, ReadString
<1>6. CASE RemoveSegment(p) \/ RemoveSem(p)
  BY <1>6 DEF RemoveSegment, RemoveSem
<1>7. QED
  BY <1>1, <1>2, <1>3, <1>4, <1>5, <1>6 DEF Steps, tcp_connect_shm_write, tcp_connect_shm_read

(* Where a reader comes from.                                              *)
LEMMA ReaderSteps ==
    ASSUME TypeInv, NEW r \in Reader, Steps(r)
    PROVE  /\ pc'[r] = "semget" => shmget(r)
           /\ pc'[r] = "wait" => semget(r)
           /\ pc'[r] = "shmat" => SemWait(r) \/ SemopInterrupted(r)
           /\ pc'[r] \in {"read", "crashed"} => shmat(r)
           /\ pc'[r] = "shmdt" => ReadString(r)
           /\ pc'[r] = "rmid_shm" => shmdt(r)
           /\ pc'[r] = "rmid_sem" => RemoveSegment(r)
           /\ pc'[r] = "done" => RemoveSem(r)
           /\ pc'[r] # "shmget"
<1>1. r \in Proc /\ r \notin Writer
  BY ShmAssumption DEF Proc
<1>2. tcp_connect_shm_read(r) \/ SemopInterrupted(r) \/ Kill(r)
  BY <1>1 DEF Steps
<1> USE DEF TypeInv, PcType, Goto
<1>3. shmget(r) => pc'[r] = "semget"
  BY <1>1 DEF shmget
<1>4. semget(r) => pc'[r] = "wait"
  BY <1>1 DEF semget
<1>5. SemWait(r) \/ SemopInterrupted(r) => pc'[r] = "shmat"
  BY <1>1 DEF SemWait, SemopInterrupted
<1>6. shmat(r) => pc'[r] \in {"read", "crashed"}
  BY <1>1 DEF shmat
<1>7. ReadString(r) => pc'[r] = "shmdt"
  BY <1>1 DEF ReadString
<1>8. shmdt(r) => pc'[r] = "rmid_shm"
  BY <1>1 DEF shmdt
<1>9. RemoveSegment(r) => pc'[r] = "rmid_sem"
  BY <1>1 DEF RemoveSegment
<1>10. RemoveSem(r) => pc'[r] = "done"
  BY <1>1 DEF RemoveSem
<1>11. Kill(r) => pc'[r] = "killed"
  BY <1>1 DEF Kill
<1>12. QED
  BY <1>2, <1>3, <1>4, <1>5, <1>6, <1>7, <1>8, <1>9, <1>10, <1>11 DEF tcp_connect_shm_read

(* Where a writer comes from.                                              *)
LEMMA WriterSteps ==
    ASSUME TypeInv, NEW w \in Writer, Steps(w)
    PROVE  /\ pc'[w] = "post" => StrcpyEnds(w)
           /\ pc'[w] = "shmdt" => Post(w)
           /\ pc'[w] = "done" => shmdt(w)
           /\ pc'[w] = "crashed" => shmat(w)
<1>1. w \in Proc /\ w \notin Reader
  BY ShmAssumption DEF Proc
<1>2. tcp_connect_shm_write(w) \/ Kill(w)
  BY <1>1 DEF Steps
<1> USE DEF TypeInv, PcType, Goto
<1>3. (shmget(w) => pc'[w] = "semget") /\ (semget(w) => pc'[w] = "setval")
  BY <1>1 DEF shmget, semget
<1>4. (SetVal(w) => pc'[w] = "shmat") /\ (shmat(w) => pc'[w] \in {"strcpy", "crashed"})
  BY <1>1 DEF SetVal, shmat
<1>5. /\ StrcpyBegins(w) => pc'[w] = "strcpy_end"
      /\ StrcpyEnds(w) => pc'[w] = "post"
  BY <1>1 DEF StrcpyBegins, StrcpyEnds
<1>6. (Post(w) => pc'[w] = "shmdt") /\ (shmdt(w) => pc'[w] = "done")
  BY <1>1 DEF Post, shmdt
<1>7. Kill(w) => pc'[w] = "killed"
  BY <1>1 DEF Kill
<1>8. QED
  BY <1>2, <1>3, <1>4, <1>5, <1>6, <1>7 DEF tcp_connect_shm_write

LEMMA PcMoves ==
    ASSUME TypeInv, NEW p \in Proc, Steps(p)
    PROVE  pc'[p] # "shmget"
<1>1. CASE p \in Reader
  BY <1>1, ReaderSteps
<1>2. CASE p \in Writer
  <2>1. p \notin Reader
    BY <1>2, ShmAssumption
  <2> USE DEF TypeInv, PcType, Goto
  <2>2. ~ (Kill(p) /\ pc'[p] = "shmget")
    BY DEF Kill
  <2>3. ~ (tcp_connect_shm_write(p) /\ pc'[p] = "shmget")
    BY <2>1 DEF tcp_connect_shm_write, shmget, semget, SetVal, shmat, StrcpyBegins,
                StrcpyEnds, Post, shmdt
  <2>4. QED
    BY <2>1, <2>2, <2>3 DEF Steps
<1>3. QED
  BY <1>1, <1>2 DEF Proc

LEMMA RemovedStep ==
    ASSUME TypeInv, Removed, NEW p \in Proc, Steps(p)
    PROVE  Removed'
<1>1. ObjStep
  BY TypeStep
<1>2. ASSUME NEW r \in Reader, pc'[r] \in {"rmid_sem", "done"}
      PROVE  segments'[shmid'[r]].linked = FALSE
  <2>0. r \in Proc
    BY DEF Proc
  <2>1. ASSUME pc[r] \in {"rmid_sem", "done"}, shmid'[r] = shmid[r]
        PROVE  segments'[shmid'[r]].linked = FALSE
    BY <1>1, <2>0, <2>1 DEF Removed, TypeInv, HasIds, Running, ObjStep
  <2>2. CASE r # p
    BY <1>2, <2>0, <2>1, <2>2, OthersStay
  <2>3. CASE r = p /\ pc'[r] = "rmid_sem"
    <3>1. RemoveSegment(r)
      BY <2>3, ReaderSteps
    <3>2. QED
      BY <3>1, RemoveSegmentStep DEF RemoveSegment
  <2>4. CASE r = p /\ pc'[r] = "done"
    <3>1. RemoveSem(r)
      BY <2>4, ReaderSteps
    <3>2. UNCHANGED shmid /\ pc[r] = "rmid_sem"
      BY <3>1 DEF RemoveSem, Goto
    <3>3. QED
      BY <2>1, <3>2
  <2>5. QED
    BY <1>2, <2>2, <2>3, <2>4
<1>3. QED
  BY <1>2 DEF Removed

LEMMA GoneStep ==
    ASSUME TypeInv, Gone, NEW p \in Proc, Steps(p)
    PROVE  Gone'
<1>1. ObjStep
  BY TypeStep
<1>2. ASSUME NEW q \in Proc, pc'[q] = "crashed"
      PROVE  segments'[shmid'[q]].linked = FALSE
  <2>1. CASE q # p
    <3>1. pc[q] = "crashed" /\ shmid'[q] = shmid[q]
      BY <1>2, <2>1, OthersStay
    <3>2. QED
      BY <1>1, <3>1 DEF Gone, TypeInv, HasIds, Running, ObjStep
  <2>2. CASE q = p
    <3>1. shmat(q)
      BY <1>2, <2>2, ReaderSteps, WriterSteps DEF Proc
    <3>2. pc[q] = "shmat" /\ UNCHANGED <<segments, shmid>>
      BY <3>1 DEF shmat, Goto, objects
    <3>3. ~ SegmentExists(shmid[q])
      BY <1>2, <3>1 DEF shmat, Goto, TypeInv, PcType
    <3>4. shmid[q] \in Segs
      BY <3>2 DEF TypeInv, HasIds, Running
    <3>5. segments[shmid[q]].linked = FALSE
      BY <3>3, <3>4, ObjFacts DEF SegmentExists, Linked, Segs, TypeInv, Segment
    <3>6. QED
      BY <3>2, <3>5
  <2>3. QED
    BY <2>1, <2>2
<1>3. QED
  BY <1>2 DEF Gone

LEMMA WrittenStep ==
    ASSUME TypeInv, Written, NEW p \in Proc, Steps(p)
    PROVE  Written'
<1>1. ObjStep
  BY TypeStep
<1>2. ASSUME NEW w \in Writer, pc'[w] \in {"post", "shmdt", "done"}
      PROVE  segments'[shmid'[w]].data = "message"
  <2>0. w \in Proc
    BY DEF Proc
  <2>1. ASSUME pc[w] \in {"post", "shmdt", "done"}, shmid'[w] = shmid[w]
        PROVE  segments'[shmid'[w]].data = "message"
    BY <1>1, <2>0, <2>1 DEF Written, TypeInv, HasIds, Running, ObjStep
  <2>2. CASE w # p
    BY <1>2, <2>0, <2>1, <2>2, OthersStay
  <2>3. CASE w = p /\ pc'[w] = "post"
    <3>1. StrcpyEnds(w)
      BY <2>3, WriterSteps
    <3>2. QED
      BY <3>1, StrcpyStep DEF StrcpyEnds
  <2>4. CASE w = p /\ pc'[w] \in {"shmdt", "done"}
    <3>1. Post(w) \/ shmdt(w)
      BY <2>4, WriterSteps
    <3>2. pc[w] \in {"post", "shmdt"} /\ UNCHANGED shmid
      BY <3>1 DEF Post, shmdt, Goto
    <3>3. QED
      BY <2>1, <3>2
  <2>5. QED
    BY <1>2, <2>2, <2>3, <2>4
<1>3. QED
  BY <1>2 DEF Written

(* Only shmget makes a segment, and gives a process another one.           *)
LEMMA OnlyShmget ==
    ASSUME TypeInv, NEW p \in Proc, Steps(p), ~ shmget(p)
    PROVE  Segs' = Segs /\ UNCHANGED shmid
<1>1. CASE UNCHANGED <<segments, shmid>>
  BY <1>1 DEF Segs
<1>2. CASE semget(p)
  BY <1>1, <1>2 DEF semget
<1>3. CASE shmat(p) \/ shmdt(p) \/ Kill(p)
  BY <1>1, <1>3 DEF shmat, shmdt, Kill, objects
<1>4. CASE SetVal(p) \/ Post(p) \/ SemWait(p)
  BY <1>1, <1>4 DEF SetVal, Post, SemWait
<1>5. CASE SemopInterrupted(p) \/ ReadString(p) \/ RemoveSem(p)
  BY <1>1, <1>5 DEF SemopInterrupted, ReadString, RemoveSem, objects
<1>6. CASE p \in Writer /\ (StrcpyBegins(p) \/ StrcpyEnds(p))
  BY <1>6, StrcpyStep DEF StrcpyBegins, StrcpyEnds
<1>7. CASE p \in Reader /\ RemoveSegment(p)
  BY <1>7, RemoveSegmentStep DEF RemoveSegment
<1>8. QED
  BY <1>2, <1>3, <1>4, <1>5, <1>6, <1>7 DEF Steps, tcp_connect_shm_write, tcp_connect_shm_read

LEMMA ChargedStep ==
    ASSUME LeftInv, Removed', Gone', Written', NEW p \in Proc, Steps(p)
    PROVE  Charged'
<1> USE DEF LeftInv
<1> SUFFICES ASSUME NEW i \in Segs', segments'[i].linked # FALSE,
                    segments'[i].data # "message"
             PROVE  \E q \in Proc : shmid'[q] = i /\ pc'[q] \notin {"shmget", "done", "crashed"}
  BY DEF Charged
<1>1. TypeInv' /\ ObjStep
  BY TypeStep
<1>2. CASE i \in Segs
  <2>1. segments[i].linked # FALSE /\ segments[i].data # "message"
    BY <1>1, <1>2 DEF ObjStep
  <2>2. PICK q \in Proc : shmid[q] = i /\ pc[q] \notin {"shmget", "done", "crashed"}
    BY <1>2, <2>1 DEF Charged
  <2>3. CASE q # p
    BY <2>2, <2>3, OthersStay
  <2>4. CASE q = p
    <3>1. ~ shmget(p)
      BY <2>2, <2>4 DEF shmget, Goto
    <3>2. shmid'[p] = i
      BY <2>2, <2>4, <3>1, OnlyShmget
    <3>3. pc'[p] # "crashed"
      BY <3>2 DEF Gone
    <3>4. pc'[p] # "done"
      BY <3>2 DEF Removed, Written, Proc
    <3>5. pc'[p] # "shmget"
      BY <2>2, <2>4, PcMoves
    <3>6. QED
      BY <3>2, <3>3, <3>4, <3>5
  <2>5. QED
    BY <2>3, <2>4
<1>3. CASE i \notin Segs
  <2>1. shmget(p)
    BY <1>3, OnlyShmget
  <2>2. /\ shmid'[p] \in Segs' /\ segments'[shmid'[p]].linked = TRUE
        /\ \A j \in Segs : segments[j].linked = FALSE
        /\ Segs' = Segs \cup {Len(segments) + 1}
    BY <1>3, <2>1, ShmgetStep
  <2>3. shmid'[p] \notin Segs
    BY <1>1, <2>2 DEF ObjStep
  <2>4. shmid'[p] = i
    BY <1>3, <2>2, <2>3
  <2>5. pc'[p] = "semget"
    BY <2>1 DEF shmget, Goto, TypeInv, PcType
  <2>6. QED
    BY <2>4, <2>5
<1>4. QED
  BY <1>2, <1>3

LEMMA LeftAlways == Spec => []LeftInv
<1>1. Init => LeftInv
  <2>1. Init => Removed /\ Gone /\ Written
    BY DEF Init, Removed, Gone, Written, Proc
  <2>2. Init => Charged
    <3>1. Init => Segs = {}
      BY EmptySeq DEF Init, Segs
    <3>2. QED
      BY <3>1 DEF Charged
  <2>3. QED
    BY <2>1, <2>2, TypeInit DEF LeftInv
<1>2. LeftInv /\ [Next]_vars => LeftInv'
  <2> SUFFICES ASSUME LeftInv, [Next]_vars PROVE LeftInv'
    OBVIOUS
  <2>1. CASE UNCHANGED vars
    <3>1. TypeInv'
      BY TypeNext DEF LeftInv
    <3>2. QED
      BY <2>1, <3>1 DEF LeftInv, Removed, Gone, Written, Charged, Segs, vars, objects
  <2>2. CASE Next
    <3>1. PICK p \in Proc : Steps(p)
      BY <2>2, NextSteps
    <3>2. Removed' /\ Gone' /\ Written'
      BY <3>1, RemovedStep, GoneStep, WrittenStep DEF LeftInv
    <3>3. TypeInv' /\ Charged'
      BY <3>1, <3>2, TypeStep, ChargedStep DEF LeftInv
    <3>4. QED
      BY <3>2, <3>3 DEF LeftInv
  <2>3. QED
    BY <2>1, <2>2
<1>3. QED
  BY <1>1, <1>2, PTL DEF Spec

(* For any readers and writers, interrupted and killed anywhere: a segment *)
(* that the key finds holds the whole string unless a process is still at  *)
(* work on it or was killed.  So what a late writer of shm.c leaves behind *)
(* when everybody has ended serves the next reader.                        *)
THEOREM LeftoversAreWhole == Spec => []LeftIsWhole
<1>1. LeftInv => LeftIsWhole
  BY DEF LeftInv, Charged, LeftIsWhole, Linked, Segs
<1>2. QED
  BY <1>1, LeftAlways, PTL

-----------------------------------------------------------------------------
(* One reader gets the string.                                             *)

OneReader == \A q, r \in Reader : q = r

LEMMA OnlyOne ==
    ASSUME NEW n \in Nat, n \in {0, 1}, NEW k \in 1..n
    PROVE  k = 1
OBVIOUS

LEMMA NotTwo ==
    ASSUME NEW n \in Nat, n \in {0, 1}, NEW m \in Nat, 1..m = 1..n
    PROVE  m \in {0, 1}
<1> SUFFICES ASSUME m >= 2 PROVE FALSE
  OBVIOUS
<1>1. 2 \in 1..m /\ 2 \notin 1..n
  OBVIOUS
<1>2. QED
  BY <1>1

(* The string that a reader goes on with is complete.                      *)
LEMMA CompleteStep ==
    ASSUME OneReader, HandoffInv, NEW p \in Proc, Steps(p)
    PROVE  Complete'
<1> USE DEF HandoffInv
<1>1. /\ ObjStep
      /\ \A q \in Proc \ {p} : /\ pc'[q] = pc[q] /\ shmid'[q] = shmid[q]
                               /\ q \in Reader => token'[q] = token[q]
  BY TypeStep, OthersStay
<1>2. ASSUME NEW q \in Proc, pc[q] \notin {"shmget", "killed"}, shmid'[q] = shmid[q],
             segments[shmid[q]].data = "message"
      PROVE  segments'[shmid'[q]].data = "message"
  <2>1. shmid[q] \in Segs
    BY <1>2 DEF TypeInv, HasIds, Running
  <2>2. QED
    BY <1>1, <1>2, <2>1 DEF ObjStep
<1>3. ASSUME NEW w \in Writer, pc'[w] = "post"
      PROVE  segments'[shmid'[w]].data = "message"
  <2>1. w \in Proc
    BY DEF Proc
  <2>2. CASE w # p
    BY <1>1, <1>2, <1>3, <2>1, <2>2 DEF Complete
  <2>3. CASE w = p
    <3>1. StrcpyEnds(w)
      BY <1>3, <2>3, WriterSteps
    <3>2. shmid' = shmid /\ segments'[shmid[w]].data = "message"
      BY <3>1, StrcpyStep DEF StrcpyEnds
    <3>3. QED
      BY <3>2
  <2>4. QED
    BY <2>2, <2>3
<1>4. ASSUME NEW r \in Reader, pc'[r] \in {"shmat", "read"}
      PROVE  segments'[shmid'[r]].data = "message" \/ WithoutToken(r)'
  <2>1. r \in Proc
    BY DEF Proc
  <2>2. ASSUME pc[r] \in {"shmat", "read"}, shmid'[r] = shmid[r], token'[r] = token[r]
        PROVE  segments'[shmid'[r]].data = "message" \/ WithoutToken(r)'
    BY <1>2, <2>1, <2>2 DEF Complete, WithoutToken
  <2>3. CASE r # p
    BY <1>1, <1>4, <2>1, <2>2, <2>3
  <2>4. CASE r = p /\ pc'[r] = "read"
    <3>1. shmat(r)
      BY <2>4, ReaderSteps
    <3>2. shmid' = shmid /\ token' = token /\ pc[r] = "shmat"
      BY <3>1 DEF shmat, Goto
    <3>3. QED
      BY <2>2, <3>2
  <2>5. CASE r = p /\ SemWait(r)
    <3>1. shmid' = shmid /\ pc[r] = "wait"
      BY <2>5 DEF SemWait, Goto
    <3>2. NotRead
      BY <3>1 DEF Progress, OneReader, NotRead
    <3>3. shmid[r] \in Segs /\ semid[r] \in SemIds
      BY <2>1, <3>1 DEF TypeInv, HasIds, Running
    <3>4. sems[semid[r]].val > 0
      BY <2>5, <3>2, <3>3, SemWaitStep DEF Shared
    <3>5. segments[1].data = "message" /\ Len(segments) \in {0, 1}
      BY <3>2, <3>3, <3>4 DEF Shared
    <3>6. shmid[r] = 1
      BY <3>3, <3>5, ObjFacts, OnlyOne DEF Segs, TypeInv
    <3>7. QED
      BY <1>2, <2>1, <3>1, <3>5, <3>6
  <2>6. CASE r = p /\ SemopInterrupted(r)
    <3>1. r \in Stoppable /\ token' = token /\ pc[r] = "wait"
      BY <2>6 DEF SemopInterrupted, Goto
    <3>2. QED
      BY <3>1 DEF Progress, WithoutToken
  <2>7. QED
    BY <1>4, <2>3, <2>4, <2>5, <2>6, ReaderSteps
<1>5. QED
  BY <1>3, <1>4 DEF Complete

LEMMA ProgressStep ==
    ASSUME OneReader, HandoffInv, NEW p \in Proc, Steps(p)
    PROVE  Progress'
<1> USE DEF HandoffInv
<1>1. TypeInv'
  BY TypeStep
<1>2. ASSUME NEW r \in Reader, r # p
      PROVE  pc'[r] = pc[r] /\ ret'[r] = ret[r] /\ token'[r] = token[r]
  BY <1>2, OthersStay DEF Proc
<1>3. ASSUME NEW r \in Reader, r = p
      PROVE  /\ pc'[r] \in {"shmget", "semget", "wait"} => token'[r] = FALSE
             /\ pc'[r] \in {"shmget", "semget", "wait", "shmat", "read"} => ret'[r] = "none"
             /\ pc'[r] \in {"shmdt", "rmid_shm", "rmid_sem", "done"} =>
                    ret'[r] # "none" /\ (ret'[r] = "message" \/ WithoutToken(r)')
             /\ pc'[r] # "crashed"
             /\ ret'[r] \in {"none", "message"} \/ WithoutToken(r)'
  <2>0. r \in Proc
    BY DEF Proc
  <2>1. CASE pc'[r] = "shmget"
    BY <1>3, <2>1, ReaderSteps
  <2>2. CASE pc'[r] \in {"semget", "wait"}
    <3>1. shmget(r) \/ semget(r)
      BY <1>3, <2>2, ReaderSteps
    <3>2. ret' = ret /\ token' = token /\ pc[r] \in {"shmget", "semget"}
      BY <3>1 DEF shmget, semget, Goto
    <3>3. QED
      BY <2>2, <3>2 DEF Progress
  <2>3. CASE pc'[r] = "shmat"
    <3>1. SemWait(r) \/ SemopInterrupted(r)
      BY <1>3, <2>3, ReaderSteps
    <3>2. ret' = ret /\ pc[r] = "wait"
      BY <3>1 DEF SemWait, SemopInterrupted, Goto
    <3>3. QED
      BY <2>3, <3>2 DEF Progress
  <2>4. CASE pc'[r] \in {"read", "crashed"}
    <3>1. shmat(r)
      BY <1>3, <2>4, ReaderSteps
    <3>2. ret' = ret /\ pc[r] = "shmat"
      BY <3>1 DEF shmat, Goto
    <3>3. NotRead /\ ret[r] = "none"
      BY <3>2 DEF Progress, OneReader, NotRead
    <3>4. shmid[r] \in Segs /\ segments[shmid[r]].linked = TRUE
      BY <2>0, <3>2, <3>3 DEF TypeInv, HasIds, Running, Shared
    <3>5. SegmentExists(shmid[r])
      BY <3>4 DEF SegmentExists, Linked, Segs
    <3>6. pc'[r] = "read"
      BY <2>0, <3>1, <3>5 DEF shmat, Goto, TypeInv, PcType
    <3>7. QED
      BY <3>2, <3>3, <3>6
  <2>5. CASE pc'[r] = "shmdt"
    <3>1. ReadString(r)
      BY <1>3, <2>5, ReaderSteps
    <3>2. /\ pc[r] = "read" /\ ret' = [ret EXCEPT ![r] = segments[shmid[r]].data]
          /\ token' = token
      BY <3>1 DEF ReadString, Goto
    <3>3. ret'[r] = "message" \/ WithoutToken(r)'
      BY <3>2 DEF Complete, TypeInv, RetType, WithoutToken
    <3>4. shmid[r] \in Segs
      BY <2>0, <3>2 DEF TypeInv, HasIds, Running
    <3>5. ret'[r] # "none"
      BY <3>2, <3>4, ObjFacts DEF TypeInv, RetType, Segment
    <3>6. QED
      BY <2>5, <3>3, <3>5
  <2>6. CASE pc'[r] \in {"rmid_shm", "rmid_sem", "done"}
    <3>1. shmdt(r) \/ RemoveSegment(r) \/ RemoveSem(r)
      BY <1>3, <2>6, ReaderSteps
    <3>2. ret' = ret /\ token' = token /\ pc[r] \in {"shmdt", "rmid_shm", "rmid_sem"}
      BY <3>1 DEF shmdt, RemoveSegment, RemoveSem, Goto
    <3>3. QED
      BY <2>6, <3>2 DEF Progress, WithoutToken
  <2>7. CASE pc'[r] = "killed"
    <3>1. Kill(r)
      <4>1. ~ tcp_connect_shm_read(r) /\ ~ SemopInterrupted(r)
        BY <2>0, <2>7 DEF tcp_connect_shm_read, shmget, semget, SemWait, SemopInterrupted,
              shmat, ReadString, shmdt, RemoveSegment, RemoveSem, Goto, TypeInv, PcType
      <4>2. QED
        BY <1>3, <4>1, ShmAssumption DEF Steps
    <3>2. ret' = ret /\ token' = token
      BY <3>1 DEF Kill
    <3>3. QED
      BY <2>7, <3>2 DEF Progress, WithoutToken
  <2>8. pc'[r] \in CommonPcs \cup ReaderPcs
    BY <1>1, <2>0 DEF TypeInv, PcType
  <2>9. QED
    BY <2>1, <2>2, <2>3, <2>4, <2>5, <2>6, <2>7, <2>8 DEF CommonPcs, ReaderPcs
<1>4. QED
  BY <1>2, <1>3 DEF Progress, WithoutToken

(* While nothing was read nothing is removed.                              *)
LEMMA SharedStep ==
    ASSUME OneReader, HandoffInv, NEW p \in Proc, Steps(p)
    PROVE  Shared'
<1> USE DEF HandoffInv
<1> SUFFICES ASSUME NotRead'
             PROVE  /\ Len(segments') \in {0, 1} /\ Len(sems') \in {0, 1}
                    /\ \A i \in Segs' : segments'[i].linked = TRUE
                    /\ \A i \in SemIds' : /\ sems'[i].exists = TRUE
                                          /\ sems'[i].val > 0 =>
                                                 1 \in Segs' /\ segments'[1].data = "message"
  BY DEF Shared
<1>0. TypeInv' /\ ObjStep /\ \A q \in Proc \ {p} : q \in Reader => ret'[q] = ret[q]
  BY TypeStep, OthersStay
<1>1. NotRead
  <2>1. ASSUME NEW r \in Reader
        PROVE  ret[r] = "none"
    <3>1. r \in Proc
      BY DEF Proc
    <3>2. CASE r # p
      BY <1>0, <3>1, <3>2 DEF NotRead
    <3>3. CASE r = p /\ ret' = ret
      BY <3>3 DEF NotRead
    <3>4. CASE r = p /\ ReadString(r)
      BY <3>4 DEF ReadString, Goto, Progress
    <3>5. QED
      BY <3>2, <3>3, <3>4, ShmAssumption DEF Steps, tcp_connect_shm_read, shmget, semget,
         SemWait, SemopInterrupted, shmat, shmdt, RemoveSegment, RemoveSem, Kill
  <2>2. QED
    BY <2>1 DEF NotRead
<1>2. /\ Len(segments) \in {0, 1} /\ Len(sems) \in {0, 1}
      /\ \A i \in Segs : segments[i].linked = TRUE
      /\ \A i \in SemIds : /\ sems[i].exists = TRUE /\ sems[i].val \in Nat
                           /\ sems[i].val > 0 => 1 \in Segs /\ segments[1].data = "message"
  BY <1>1, ObjFacts DEF Shared, TypeInv, Sem
<1>3. 1 \in Segs /\ segments[1].data = "message" => 1 \in Segs' /\ segments'[1].data = "message"
  BY <1>0 DEF ObjStep
<1>4. CASE shmget(p)
  <2>1. sems' = sems /\ SemIds' = SemIds
    BY <1>4, ShmgetStep DEF shmget
  <2>2. CASE Segs' = Segs /\ UNCHANGED segments
    BY <1>2, <2>1, <2>2
  <2>3. CASE /\ \A i \in Segs : segments[i].linked = FALSE
             /\ Segs' = Segs \cup {Len(segments) + 1}
             /\ Len(segments') = Len(segments) + 1
             /\ segments'[Len(segments) + 1] = [linked |-> TRUE, data |-> "empty"]
    <3>1. Segs = {}
      BY <1>2, <2>3
    <3>2. Len(segments) = 0
      BY <1>2, <3>1 DEF Segs
    <3>3. Segs' = {1} /\ segments'[1].linked = TRUE /\ Len(segments') = 1
      BY <2>3, <3>1, <3>2
    <3>4. QED
      BY <1>2, <2>1, <3>1, <3>3
  <2>4. QED
    BY <1>4, <2>2, <2>3, ShmgetStep
<1>5. CASE semget(p)
  <2>1. segments' = segments /\ Segs' = Segs
    BY <1>5, SemgetStep DEF semget
  <2>2. CASE SemIds' = SemIds /\ UNCHANGED sems
    BY <1>2, <2>1, <2>2
  <2>3. CASE /\ \A i \in SemIds : sems[i].exists = FALSE
             /\ SemIds' = SemIds \cup {Len(sems) + 1}
             /\ Len(sems') = Len(sems) + 1
             /\ sems'[Len(sems) + 1] = [exists |-> TRUE, val |-> 0]
    <3>1. SemIds = {}
      BY <1>2, <2>3
    <3>2. Len(sems) = 0
      BY <1>2, <3>1 DEF SemIds
    <3>3. /\ SemIds' = {1} /\ sems'[1].exists = TRUE /\ sems'[1].val = 0 /\ Len(sems') = 1
      BY <2>3, <3>1, <3>2
    <3>4. QED
      BY <1>2, <2>1, <3>3
  <2>4. QED
    BY <1>5, <2>2, <2>3, SemgetStep
<1>6. ASSUME Segs' = Segs, SemIds' = SemIds
      PROVE  Len(segments') \in {0, 1} /\ Len(sems') \in {0, 1}
  <2>1. /\ Len(segments') \in Nat /\ Len(sems') \in Nat
        /\ Len(segments) \in Nat /\ Len(sems) \in Nat
    BY <1>0, ObjFacts, LenProperties DEF TypeInv, ObjType
  <2>2. QED
    BY <1>2, <1>6, <2>1, NotTwo DEF Segs, SemIds
<1>7. CASE UNCHANGED objects
  <2>1. Segs' = Segs /\ SemIds' = SemIds /\ UNCHANGED <<segments, sems>>
    BY <1>7 DEF objects, Segs, SemIds
  <2>2. QED
    BY <1>2, <2>1
<1>8. CASE (p \in Writer /\ SetVal(p)) \/ (p \in Reader /\ SemWait(p))
  <2>1. /\ Segs' = Segs /\ SemIds' = SemIds /\ UNCHANGED segments
        /\ \A j \in SemIds : sems'[j].exists = sems[j].exists /\ sems'[j].val <= sems[j].val
    BY <1>8, SetValStep, SemWaitStep DEF SetVal, SemWait
  <2>2. \A j \in SemIds : sems'[j].val \in Nat
    <3>1. sems' \in Seq(Sem) /\ SemIds = 1..Len(sems')
      BY <1>0, <2>1 DEF TypeInv, ObjType, SemIds
    <3>2. \A j \in SemIds : sems'[j] \in Sem
      BY <3>1, ElementOfSeq
    <3>3. QED
      BY <3>2 DEF Sem
  <2>3. \A j \in SemIds : sems'[j].val > 0 => sems[j].val > 0
    BY <1>2, <2>1, <2>2
  <2>4. QED
    BY <1>2, <1>6, <2>1, <2>3
<1>9. CASE p \in Writer /\ Post(p)
  <2>1. /\ Segs' = Segs /\ SemIds' = SemIds /\ UNCHANGED segments
        /\ \A j \in SemIds : sems'[j].exists = sems[j].exists
    BY <1>9, PostStep DEF Post
  <2>2. pc[p] = "post"
    BY <1>9 DEF Post, Goto
  <2>3. segments[shmid[p]].data = "message" /\ shmid[p] \in Segs
    BY <1>9, <2>2 DEF Complete, TypeInv, HasIds, Running
  <2>4. shmid[p] = 1
    BY <1>2, <2>3, ObjFacts, OnlyOne DEF Segs, TypeInv
  <2>5. QED
    BY <1>2, <1>6, <2>1, <2>3, <2>4
<1>10. CASE p \in Writer /\ (StrcpyBegins(p) \/ StrcpyEnds(p))
  <2>1. /\ Segs' = Segs /\ SemIds' = SemIds /\ UNCHANGED sems
        /\ \A j \in Segs : segments'[j].linked = segments[j].linked
    BY <1>10, StrcpyStep DEF StrcpyBegins, StrcpyEnds
  <2>2. QED
    BY <1>2, <1>3, <1>6, <2>1
<1>11. ~ (p \in Reader /\ (RemoveSegment(p) \/ RemoveSem(p)))
  BY <1>1 DEF RemoveSegment, RemoveSem, Goto, Progress, NotRead
<1>12. CASE shmat(p) \/ shmdt(p) \/ Kill(p) \/ ReadString(p) \/ SemopInterrupted(p)
  BY <1>7, <1>12 DEF shmat, shmdt, Kill, ReadString, SemopInterrupted
<1>13. QED
  BY <1>4, <1>5, <1>8, <1>9, <1>10, <1>11, <1>12
     DEF Steps, tcp_connect_shm_write, tcp_connect_shm_read

LEMMA HandoffAlways == ASSUME OneReader PROVE Spec => []HandoffInv
<1>1. Init => HandoffInv
  <2>1. Init => Progress /\ Complete
    BY DEF Init, Progress, Complete, Proc
  <2>2. Init => Shared
    <3>1. Init => Len(segments) = 0 /\ Len(sems) = 0 /\ Segs = {} /\ SemIds = {}
      BY EmptySeq DEF Init, Segs, SemIds
    <3>2. QED
      BY <3>1 DEF Shared
  <2>3. QED
    BY <2>1, <2>2, TypeInit DEF HandoffInv
<1>2. HandoffInv /\ [Next]_vars => HandoffInv'
  <2> SUFFICES ASSUME HandoffInv, [Next]_vars PROVE HandoffInv'
    OBVIOUS
  <2>1. TypeInv'
    BY TypeNext DEF HandoffInv
  <2>2. CASE UNCHANGED vars
    BY <2>1, <2>2 DEF HandoffInv, Progress, Shared, Complete, NotRead, WithoutToken,
                      Segs, SemIds, vars, objects
  <2>3. CASE Next
    BY <2>1, <2>3, NextSteps, ProgressStep, SharedStep, CompleteStep DEF HandoffInv
  <2>4. QED
    BY <2>2, <2>3
<1>3. QED
  BY <1>1, <1>2, PTL DEF Spec

(* A single reader that is not interrupted gets the whole string, and its  *)
(* segment is there until it has read it, for any number of writers that   *)
(* race with it and are killed anywhere: shm.c needs the result of no call *)
(* then, except that of a semop() that a signal can end.                   *)
THEOREM ReaderIsServed == ASSUME OneReader PROVE Spec => []ReaderGetsMessage
<1>1. HandoffInv => ReaderGetsMessage
  BY DEF HandoffInv, Progress, ReaderGetsMessage
<1>2. QED
  BY <1>1, HandoffAlways, PTL
=============================================================================
