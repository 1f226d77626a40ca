----------------------------- MODULE PacketFifo -----------------------------
(***************************************************************************)
(* What the packet ring promises the reader of xdp_packet_load.c: packets  *)
(* come out one by one, whole, in the order in which the program reserved  *)
(* space for them, and never more than Size of them wait.                  *)
(***************************************************************************)
EXTENDS Naturals, Sequences

CONSTANTS Packet, Size, None

VARIABLES
    queue,  \* packets that wait
    out     \* the packet handed out last, or None

Init == queue = <<>> /\ out = None

Put(p) ==
    /\ Len(queue) < Size
    /\ queue' = Append(queue, p)
    /\ UNCHANGED out

Get ==
    /\ queue # <<>>
    /\ out' = Head(queue)
    /\ queue' = Tail(queue)

Next == Get \/ \E p \in Packet : Put(p)

Spec == Init /\ [][Next]_<<queue, out>>
=============================================================================
