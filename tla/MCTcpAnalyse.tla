---------------------------- MODULE MCTcpAnalyse ----------------------------
(* Small instances of the client tracer with its kernel half.              *)
EXTENDS TcpAnalyse, TLC

CONSTANTS c1, c2, s1, cpu0, cpu1, p1, p2

(* One context on each processor.                                          *)
MCCpuOf == [c \in Ctx |-> IF c = c1 THEN cpu0 ELSE cpu1]

-----------------------------------------------------------------------------
(* The tracer from two starts: its own, with everything that may happen to *)
(* a socket in FewCalls calls; and at work on a connection that is older   *)
(* than it, with all calls for one ring or the other, enough for a ring to *)
(* overrun and to announce it.                                             *)
VARIABLE working

FewCalls == 2

OpenStates == {TCP_ESTABLISHED, TCP_FIN_WAIT1}

AtWork ==
    /\ clock = 0 /\ calls = 0
    /\ skc_state \in [Sock -> OpenStates] /\ owner \in [Sock -> Pid]
    /\ lock = [s \in Sock |-> None] /\ frame = [c \in Ctx |-> IdleFrame]
    /\ connect = [s \in Sock |-> None] /\ attempt = [s \in Sock |-> Untraced]
    /\ rings = [r \in Maps \X CPU |-> <<>>]
    /\ overrun = [r \in Maps \X CPU |-> 0] /\ emitted = [r \in Maps \X CPU |-> 0]
    /\ attached = Probes /\ opened = Maps
    /\ main = "while" /\ handler = TRUE /\ exiting = FALSE
    /\ err = 0 /\ status = None /\ links = {}
    /\ polled = "events" /\ ready = {} /\ cursor = None /\ out = None
    /\ handled = [r \in Maps \X CPU |-> 0] /\ lostCount = [r \in Maps \X CPU |-> 0]

MCInit == (Init /\ working = FALSE) \/ (AtWork /\ working = TRUE)

MCNext ==
    /\ \/ Kernel /\ IF working THEN skc_state' \in [Sock -> OpenStates]
                               ELSE calls' <= FewCalls
       \/ Main \/ sig_int \/ SigintKills
    /\ UNCHANGED working

MCSpec == MCInit /\ [][MCNext]_<<vars, working>> /\ WF_vars(Main)
=============================================================================
