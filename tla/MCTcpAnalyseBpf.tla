-------------------------- MODULE MCTcpAnalyseBpf --------------------------
(***************************************************************************)
(* A small instance of the kernel's side of the client tracer: any subset  *)
(* of the programs is attached and may be detached at any moment, and      *)
(* nobody opens or reads a ring except that "events" may be open from the  *)
(* start, so that the state goes into sockets, map and contexts.           *)
(***************************************************************************)
EXTENDS TcpAnalyseBpf, TLC

CONSTANTS c1, c2, s1, s2, cpu0, p1

MCCpuOf == [c \in Ctx |-> cpu0]

Symm == Permutations(Ctx) \cup Permutations(Sock)

MCInit == KernelInit /\ attached \in SUBSET Probes /\ opened \in {{}, {"events"}}
MCNext == KernelStep \/ DetachAll
MCSpec == MCInit /\ [][MCNext]_bpfVars
=============================================================================
