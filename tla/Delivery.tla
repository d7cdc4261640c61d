------------------------------- MODULE Delivery -------------------------------
(***************************************************************************)
(* What a download promises its client, whatever the replicas do: every    *)
(* chunk is forwarded at most once, nothing is forwarded after the final   *)
(* answer, and "done" is answered only when every chunk was forwarded or   *)
(* has been dropped.  A dropped chunk is not forwarded any more.           *)
(***************************************************************************)
EXTENDS Naturals

CONSTANT Chunks

VARIABLES
    sent,     \* sent[c]: how often chunk c was forwarded to the client
    dropped,  \* chunks that will not be forwarded
    answer    \* the final answer, "none" until there is one

Init == sent = [c \in Chunks |-> 0] /\ dropped = {} /\ answer = "none"

Forward(c) ==
    /\ answer = "none"
    /\ sent[c] = 0 /\ c \notin dropped
    /\ sent' = [sent EXCEPT ![c] = 1]
    /\ UNCHANGED <<dropped, answer>>

Drop(c) ==
    /\ answer = "none"
    /\ sent[c] = 0 /\ c \notin dropped
    /\ dropped' = dropped \cup {c}
    /\ UNCHANGED <<sent, answer>>

Complete ==
    /\ answer = "none"
    /\ \A c \in Chunks \ dropped : sent[c] = 1
    /\ answer' = "done"
    /\ UNCHANGED <<sent, dropped>>

Refuse ==
    /\ answer = "none"
    /\ answer' \in {"failed", "cap_reached"}
    /\ UNCHANGED <<sent, dropped>>

Next == (\E c \in Chunks : Forward(c) \/ Drop(c)) \/ Complete \/ Refuse

Spec == Init /\ [][Next]_<<sent, dropped, answer>>
=============================================================================
