--------------------------- MODULE MCEpollServer ---------------------------
(* Small instances of the epoll server.                                    *)
EXTENDS EpollServer, TLC

CONSTANTS c1, c2, c3, c4

(* Clients are all the same; used where only an invariant is checked.      *)
ClientSymmetry == Permutations(Client)

(* Where liveness is checked as well, TLC may not use the symmetry: c1 is  *)
(* then the name of the client that is done with connect() first.          *)
C1First == client'[c2] = "connect" \/ client'[c1] # "connect"

MCNext ==
    \/ Main \/ sig_int \/ SigintKills
    \/ \E w \in Worker : WorkerStep(w)
    \/ \E c \in Client : (ClientStep(c) /\ C1First) \/ Deliver(c) \/ Reset(c)

MCSpec ==
    /\ Init /\ [][MCNext]_vars
    /\ WF_vars(Main) /\ \A w \in Worker : WF_vars(WorkerStep(w))
    /\ \A c \in Client : WF_vars(ClientStep(c)) /\ WF_vars(Deliver(c))
=============================================================================
