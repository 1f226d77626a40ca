----------------------------- MODULE ByteStream -----------------------------
(***************************************************************************)
(* What a program that receives byte streams promises for each of them:    *)
(* the bytes come out in the order in which they were sent, each of them   *)
(* once; the program gives a stream up only when its sender has ended it   *)
(* or the network has cut it, and a stream that was ended and not cut only *)
(* when all of it has come out.  The epoll server (from its clients to its *)
(* output) and the proxy (from the origin server to the client) implement  *)
(* it.                                                                     *)
(***************************************************************************)
EXTENDS Naturals, Sequences

CONSTANT Conn

VARIABLES
    phase,  \* [Conn -> "none", "open", "done", "broken" or "stopped"]
    sent,   \* [Conn -> how many bytes the sender has sent, numbered from 1]
    ended,  \* [Conn -> "no", "fin" or "cut"]
    got,    \* [Conn -> the numbers of the bytes that have come out]
    up      \* the program has not begun to end

streamVars == <<phase, sent, ended, got, up>>

Init ==
    /\ phase = [c \in Conn |-> "none"] /\ sent = [c \in Conn |-> 0]
    /\ ended = [c \in Conn |-> "no"] /\ got = [c \in Conn |-> <<>>]
    /\ up = TRUE

Move(c, from, to) == phase[c] = from /\ phase' = [phase EXCEPT ![c] = to]

Open(c) == Move(c, "none", "open") /\ UNCHANGED <<sent, ended, got, up>>

Send(c) ==
    /\ phase[c] # "none" /\ ended[c] # "fin"
    /\ sent'[c] > sent[c] /\ sent' = [sent EXCEPT ![c] = sent'[c]]
    /\ UNCHANGED <<phase, ended, got, up>>

(* The network may have cut it before the program opens it.                *)
End(c) ==
    /\ \/ phase[c] # "none" /\ ended[c] = "no" /\ ended' = [ended EXCEPT ![c] = "fin"]
       \/ ended[c] # "cut" /\ ended' = [ended EXCEPT ![c] = "cut"]
    /\ UNCHANGED <<phase, sent, got, up>>

Get(c) ==
    /\ phase[c] = "open"
    /\ \E n \in (Len(got[c]) + 1)..sent[c] :
           got' = [got EXCEPT ![c] = [i \in 1..n |-> i]]
    /\ UNCHANGED <<phase, sent, ended, up>>

(* All of it is out.                                                       *)
Done(c) ==
    /\ Move(c, "open", "done")
    /\ ended[c] # "no" /\ Len(got[c]) = sent[c]
    /\ UNCHANGED <<sent, ended, got, up>>

(* The network cut it, and some of it may be lost.                         *)
Break(c) ==
    /\ Move(c, "open", "broken") /\ ended[c] = "cut"
    /\ UNCHANGED <<sent, ended, got, up>>

(* The program begins to end, or is ending, and drops some streams.        *)
Stop ==
    /\ up' = FALSE
    /\ \E S \in SUBSET Conn :
           phase' = [c \in Conn |->
               IF c \in S /\ phase[c] = "open" THEN "stopped" ELSE phase[c]]
    /\ UNCHANGED <<sent, ended, got>>

Next ==
    \/ \E c \in Conn : Open(c) \/ Send(c) \/ End(c) \/ Get(c) \/ Done(c) \/ Break(c)
    \/ Stop

Spec == Init /\ [][Next]_streamVars
=============================================================================
