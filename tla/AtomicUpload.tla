----------------------------- MODULE AtomicUpload -----------------------------
(***************************************************************************)
(* What the upload of one object promises: it is committed only when every *)
(* chosen node stores all of it, it ends at most once, and no node gives   *)
(* up a copy of a committed object.                                        *)
(***************************************************************************)
CONSTANT Nodes

VARIABLES
    chosen,   \* the nodes the object is uploaded to
    stored,   \* the nodes that store the whole object
    outcome   \* "none", "open", "committed" or "aborted"

Init == chosen = {} /\ stored = {} /\ outcome = "none"

Open ==
    /\ outcome = "none"
    /\ outcome' = "open"
    /\ chosen' \in SUBSET Nodes
    /\ UNCHANGED stored

Store(n) ==
    /\ outcome \in {"open", "aborted"}
    /\ n \in chosen
    /\ stored' = stored \cup {n}
    /\ UNCHANGED <<chosen, outcome>>

Erase(n) ==
    /\ outcome \in {"open", "aborted"}
    /\ stored' = stored \ {n}
    /\ UNCHANGED <<chosen, outcome>>

Commit ==
    /\ outcome = "open"
    /\ chosen \subseteq stored
    /\ outcome' = "committed"
    /\ UNCHANGED <<chosen, stored>>

Abort ==
    /\ outcome = "open"
    /\ outcome' = "aborted"
    /\ UNCHANGED <<chosen, stored>>

Next == Open \/ Commit \/ Abort \/ \E n \in Nodes : Store(n) \/ Erase(n)

Spec == Init /\ [][Next]_<<chosen, stored, outcome>>
=============================================================================
