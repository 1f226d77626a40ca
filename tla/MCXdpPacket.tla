---------------------------- MODULE MCXdpPacket ----------------------------
(* Small instances of the XDP monitor.                                     *)
EXTENDS XdpPacket

CONSTANTS cpu0, cpu1

(* One frame for each way through the parser: dropped, passed, recorded.   *)
MCFrame ==
    {f \in AllFrames : \/ f.parse \in {"short_tcp", "not_tcp"}
                       \/ f.lo /\ f.watched}

-----------------------------------------------------------------------------
(* Traffic that never ends.  When the ring is drained and no program runs, *)
(* nothing refers to an old record or packet any more: the numbers of both *)
(* start again, so that MaxPackets bounds a burst and not the traffic.     *)
StartOver ==
    /\ cons_pos > 0 /\ cons_pos = Len(slots) /\ cons_pos = prod_pos
    /\ \A c \in CPU : cpu[c].at = "idle"
    /\ arrived' = 0 /\ cpu' = [c \in CPU |-> IdleCpu]
    /\ slots' = <<>> /\ cons_pos' = 0 /\ prod_pos' = 0
    /\ UNCHANGED <<got_new_data, out, line, loadVars>>

EndlessSpec ==
    /\ Init /\ [][Next \/ StartOver]_vars
    /\ WF_vars(Loader)
    /\ \A c \in CPU : WF_vars(ProgStep(c))
=============================================================================
