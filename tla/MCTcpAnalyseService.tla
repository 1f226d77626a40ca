------------------------ MODULE MCTcpAnalyseService ------------------------
(* A small instance of the service tracer, from two starts.                *)
EXTENDS TcpAnalyseService

CONSTANTS cpu0, cpu1, t

VARIABLE asleep     \* main() sleeps in its loop for the whole behaviour

(* The tracer at work: everything is attached, main() is in its loop but   *)
(* asleep, so that all events stay in the rings.                           *)
AtWork ==
    /\ clock = 0 /\ established \in BOOLEAN
    /\ lock = None /\ backlog = <<>> /\ segs = 0 /\ reads = 0
    /\ frame = [c \in Ctx |-> IdleFrame]
    /\ attached = Funcs /\ opened = Maps
    /\ rings = [r \in Rings |-> <<>>] /\ lost = [r \in Rings |-> 0]
    /\ main = "while" /\ can = Funcs /\ links = {}
    /\ handler = TRUE /\ exiting = FALSE /\ err = 0 /\ status = None
    /\ polled = "events"

(* Bounds for the behaviours in which main() takes steps too.              *)
FewSegs  == 1
FewReads == 1

MCInit == (Init /\ asleep = FALSE) \/ (AtWork /\ asleep = TRUE)

MCNext ==
    /\ \/ Kernel /\ (asleep \/ (segs' <= FewSegs /\ reads' <= FewReads))
       \/ ~ asleep /\ (Main \/ sig_int \/ SigintKills)
    /\ UNCHANGED asleep

MCSpec == MCInit /\ [][MCNext]_<<vars, asleep>>
=============================================================================
