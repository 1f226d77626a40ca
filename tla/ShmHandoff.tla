----------------------------- MODULE ShmHandoff -----------------------------
(***************************************************************************)
(* shm.c: tcp_connect_shm_write and tcp_connect_shm_read hand a string     *)
(* from one process to another through a System V shared memory segment    *)
(* and a semaphore that both sides create on demand under the same key.    *)
(* Every system call is a step; no result is looked at by the code, so a   *)
(* call on an object that another process has removed just fails and the   *)
(* caller goes on.  test/readshm.c and test/writeshm.c run one of the two  *)
(* functions in a process of its own.                                      *)
(***************************************************************************)
EXTENDS Integers, Sequences

CONSTANTS
    Reader,     \* processes that call tcp_connect_shm_read
    Writer,     \* processes that call tcp_connect_shm_write
    Mortal,     \* processes that may be killed at any moment
    Stoppable   \* readers that may be stopped and continued while they wait

ASSUME ShmAssumption ==
    /\ Reader \cap Writer = {}
    /\ Mortal \subseteq Reader \cup Writer
    /\ Stoppable \subseteq Reader

Proc == Reader \cup Writer

VARIABLES
    segments,   \* Seq of [linked: found by the key, data]
    sems,       \* Seq of [exists, val]
    pc,         \* [Proc -> the next call]
    shmid, semid,
    mapped,     \* processes that have their segment attached
    ret,        \* [Reader -> the string returned]
    token       \* [Reader -> the semop(-1) succeeded]

objects == <<segments, sems>>
vars    == <<objects, pc, shmid, semid, mapped, ret, token>>

Init ==
    /\ segments = <<>> /\ sems = <<>>
    /\ pc = [p \in Proc |-> "shmget"]
    /\ shmid = [p \in Proc |-> 0] /\ semid = [p \in Proc |-> 0]
    /\ mapped = {}
    /\ ret = [r \in Reader |-> "none"]
    /\ token = [r \in Reader |-> FALSE]

Goto(p, from, to) == pc[p] = from /\ pc' = [pc EXCEPT ![p] = to]

-----------------------------------------------------------------------------
(* The objects of the kernel.                                              *)

Linked == {i \in 1..Len(segments) : segments[i].linked}
Sems   == {i \in 1..Len(sems) : sems[i].exists}

(* A segment that was removed lives on while somebody has it attached.     *)
SegmentExists(i) == i \in Linked \/ \E p \in mapped : shmid[p] = i

-----------------------------------------------------------------------------
(* The calls that both functions begin with.                               *)

shmget(p) ==
    /\ Goto(p, "shmget", "semget")
    /\ IF Linked # {}
       THEN /\ shmid' = [shmid EXCEPT ![p] = CHOOSE i \in Linked : TRUE]
            /\ UNCHANGED segments
       ELSE /\ segments' = Append(segments, [linked |-> TRUE, data |-> "empty"])
            /\ shmid' = [shmid EXCEPT ![p] = Len(segments) + 1]
    /\ UNCHANGED <<sems, semid, mapped, ret, token>>

semget(p) ==
    /\ Goto(p, "semget", IF p \in Reader THEN "wait" ELSE "setval")
    /\ IF Sems # {}
       THEN /\ semid' = [semid EXCEPT ![p] = CHOOSE i \in Sems : TRUE]
            /\ UNCHANGED sems
       ELSE /\ sems' = Append(sems, [exists |-> TRUE, val |-> 0])
            /\ semid' = [semid EXCEPT ![p] = Len(sems) + 1]
    /\ UNCHANGED <<segments, shmid, mapped, ret, token>>

(* shmat returns -1 for a segment that is gone, and the string functions   *)
(* that follow crash on it.                                                *)
shmat(p) ==
    /\ IF SegmentExists(shmid[p])
       THEN /\ Goto(p, "shmat", IF p \in Reader THEN "read" ELSE "strcpy")
            /\ mapped' = mapped \cup {p}
       ELSE Goto(p, "shmat", "crashed") /\ UNCHANGED mapped
    /\ UNCHANGED <<objects, shmid, semid, ret, token>>

(* Mutant: the function returns without shmdt().                           *)
shmdt_Forgotten(p) ==
    /\ Goto(p, "shmdt", IF p \in Reader THEN "rmid_shm" ELSE "done")
    /\ UNCHANGED <<objects, shmid, semid, mapped, ret, token>>

shmdt(p) ==
    /\ Goto(p, "shmdt", IF p \in Reader THEN "rmid_shm" ELSE "done")
    /\ mapped' = mapped \ {p}
    /\ UNCHANGED <<objects, shmid, semid, ret, token>>

-----------------------------------------------------------------------------
(* tcp_connect_shm_write.                                                  *)

(* Mutant: a writer whose semaphore is gone looks at the result of semctl  *)
(* and returns.                                                            *)
SetValOrReturn(w) ==
    /\ Goto(w, "setval", IF sems[semid[w]].exists THEN "shmat" ELSE "done")
    /\ sems' = [sems EXCEPT ![semid[w]].val = IF sems[semid[w]].exists THEN 0 ELSE @]
    /\ UNCHANGED <<segments, shmid, semid, mapped, ret, token>>

SetVal(w) ==
    /\ Goto(w, "setval", "shmat")
    /\ sems' = [sems EXCEPT ![semid[w]].val = IF sems[semid[w]].exists THEN 0 ELSE @]
    /\ UNCHANGED <<segments, shmid, semid, mapped, ret, token>>

(* Mutant: the semaphore is raised before the string is complete.          *)
StrcpyBeginsPosting(w) ==
    /\ Goto(w, "strcpy", "strcpy_end")
    /\ segments' = [segments EXCEPT ![shmid[w]].data =
           IF @ = "message" THEN @ ELSE "partial"]
    /\ sems' = [sems EXCEPT ![semid[w]].val = IF sems[semid[w]].exists THEN @ + 1 ELSE @]
    /\ UNCHANGED <<shmid, semid, mapped, ret, token>>

(* Byte by byte; the bytes of an older copy are the same.                  *)
StrcpyBegins(w) ==
    /\ Goto(w, "strcpy", "strcpy_end")
    /\ segments' = [segments EXCEPT ![shmid[w]].data =
           IF @ = "message" THEN @ ELSE "partial"]
    /\ UNCHANGED <<sems, shmid, semid, mapped, ret, token>>

StrcpyEnds(w) ==
    /\ Goto(w, "strcpy_end", "post")
    /\ segments' = [segments EXCEPT ![shmid[w]].data = "message"]
    /\ UNCHANGED <<sems, shmid, semid, mapped, ret, token>>

(* Mutant: SETVAL after the last use, in place of +1.                      *)
PostResets(w) ==
    /\ Goto(w, "post", "shmdt")
    /\ sems' = [sems EXCEPT ![semid[w]].val = IF sems[semid[w]].exists THEN 0 ELSE @]
    /\ UNCHANGED <<segments, shmid, semid, mapped, ret, token>>

Post(w) ==
    /\ Goto(w, "post", "shmdt")
    /\ sems' = [sems EXCEPT ![semid[w]].val = IF sems[semid[w]].exists THEN @ + 1 ELSE @]
    /\ UNCHANGED <<segments, shmid, semid, mapped, ret, token>>

-----------------------------------------------------------------------------
(* tcp_connect_shm_read.                                                   *)

(* The value is decremented, or the semaphore has been removed.            *)
SemWait(r) ==
    /\ Goto(r, "wait", "shmat")
    /\ \/ /\ sems[semid[r]].exists /\ sems[semid[r]].val > 0
          /\ sems' = [sems EXCEPT ![semid[r]].val = @ - 1]
          /\ token' = [token EXCEPT ![r] = TRUE]
       \/ ~ sems[semid[r]].exists /\ UNCHANGED <<sems, token>>
    /\ UNCHANGED <<segments, shmid, semid, mapped, ret>>

(* A signal that stops and continues the process ends its wait: semop is   *)
(* not restarted, returns -1 with EINTR, and nobody looks at the result.   *)
SemopInterrupted(r) ==
    /\ r \in Stoppable
    /\ Goto(r, "wait", "shmat")
    /\ sems[semid[r]].exists /\ sems[semid[r]].val = 0
    /\ UNCHANGED <<objects, shmid, semid, mapped, ret, token>>

ReadString(r) ==
    /\ Goto(r, "read", "shmdt")
    /\ ret' = [ret EXCEPT ![r] = segments[shmid[r]].data]
    /\ UNCHANGED <<objects, shmid, semid, mapped, token>>

RemoveSegment(r) ==
    /\ Goto(r, "rmid_shm", "rmid_sem")
    /\ segments' = [segments EXCEPT ![shmid[r]].linked = FALSE]
    /\ UNCHANGED <<sems, shmid, semid, mapped, ret, token>>

RemoveSem(r) ==
    /\ Goto(r, "rmid_sem", "done")
    /\ sems' = [sems EXCEPT ![semid[r]].exists = FALSE]
    /\ UNCHANGED <<segments, shmid, semid, mapped, ret, token>>

-----------------------------------------------------------------------------
tcp_connect_shm_write(w) ==
    \/ shmget(w) \/ semget(w) \/ SetVal(w) \/ shmat(w)
    \/ StrcpyBegins(w) \/ StrcpyEnds(w) \/ Post(w) \/ shmdt(w)

tcp_connect_shm_read(r) ==
    \/ shmget(r) \/ semget(r) \/ SemWait(r) \/ shmat(r) \/ ReadString(r)
    \/ shmdt(r) \/ RemoveSegment(r) \/ RemoveSem(r)

(* The kernel detaches the segment of a process that it kills.             *)
Kill(p) ==
    /\ p \in Mortal /\ pc[p] \notin {"done", "crashed", "killed"}
    /\ pc' = [pc EXCEPT ![p] = "killed"]
    /\ mapped' = mapped \ {p}
    /\ UNCHANGED <<objects, shmid, semid, ret, token>>

Next ==
    \/ \E w \in Writer : tcp_connect_shm_write(w)
    \/ \E r \in Reader : tcp_connect_shm_read(r) \/ SemopInterrupted(r)
    \/ \E p \in Proc : Kill(p)

(* The scheduler runs every process.                                       *)
Spec ==
    /\ Init /\ [][Next]_vars
    /\ \A w \in Writer : WF_vars(tcp_connect_shm_write(w))
    /\ \A r \in Reader : WF_vars(tcp_connect_shm_read(r))

-----------------------------------------------------------------------------
(* Properties.                                                             *)

ReaderPcs == {"wait", "read", "rmid_shm", "rmid_sem"}
WriterPcs == {"setval", "strcpy", "strcpy_end", "post"}
CommonPcs == {"shmget", "semget", "shmat", "shmdt", "done", "crashed", "killed"}
MappedPcs == {"read", "strcpy", "strcpy_end", "post", "shmdt"}

(* Type correctness; a process has its segment attached exactly while it   *)
(* works on it, and a semaphore is never negative.                         *)
TypeOK ==
    /\ segments \in Seq([linked : BOOLEAN, data : {"empty", "partial", "message"}])
    /\ sems \in Seq([exists : BOOLEAN, val : Nat])
    /\ pc \in [Proc -> CommonPcs \cup ReaderPcs \cup WriterPcs]
    /\ \A r \in Reader : pc[r] \notin WriterPcs
    /\ \A w \in Writer : pc[w] \notin ReaderPcs
    /\ shmid \in [Proc -> 0..Len(segments)] /\ semid \in [Proc -> 0..Len(sems)]
    /\ mapped = {p \in Proc : pc[p] \in MappedPcs}
    /\ ret \in [Reader -> {"none", "empty", "partial", "message"}]
    /\ token \in [Reader -> BOOLEAN]

(* A reader whose wait a signal has ended.                                 *)
WithoutToken(r) == r \in Stoppable /\ ~ token[r]

(* With one reader: it gets the whole string, and its segment is there     *)
(* until it has read it, however many writers race with it and wherever    *)
(* they are killed.  Only a reader whose semop() was interrupted may read  *)
(* something else.  Two readers do not have this (see WaitsForToken).      *)
ReaderGetsMessage ==
    \A r \in Reader :
        /\ pc[r] # "crashed"
        /\ ret[r] \in {"none", "message"} \/ WithoutToken(r)
        /\ pc[r] \in {"rmid_shm", "rmid_sem", "done"} =>
               ret[r] = "message" \/ WithoutToken(r)

(* With one reader and processes that run to their end: the reader         *)
(* returns, although a writer that starts late sets the semaphore to 0 and *)
(* so takes back what an earlier one has posted.                           *)
ReaderReturns ==
    <>((\A r \in Reader : pc[r] = "done") \/ \E p \in Proc : pc[p] = "killed")

(* What the key finds is whole, or somebody has still to do with it: a     *)
(* segment without the complete string belongs to a process that is at     *)
(* work on it or was killed.  When all have ended, the segment that a late *)
(* writer has made after the reader's removal, and that outlives them all, *)
(* has the string for the next reader, although that writer may have lost  *)
(* its semaphore in between; an empty one is left behind only by a kill.   *)
LeftIsWhole ==
    \A i \in Linked :
        \/ segments[i].data = "message"
        \/ \E p \in Proc : shmid[p] = i /\ pc[p] \notin {"done", "crashed"}

(* A reader "waits for the semaphore, and goes on when its value has been  *)
(* decremented" (the comment at shm.c:22).                                 *)
WaitsForToken ==
    \A r \in Reader : pc[r] \in {"shmat", "read", "shmdt", "rmid_shm", "rmid_sem", "done"}
        => token[r]
=============================================================================
