----------------------------- MODULE PeerBoundary -----------------------------
(***************************************************************************)
(* What the owner of a sidecar is promised about what peers get to see     *)
(* (docs/operator.md, "Peer-visible executor output is projected and       *)
(* scanned before emission. A private receipt is written before the        *)
(* completion status is enqueued."): nothing is shown of a task but one    *)
(* outcome, with a text that was vouched for in private before.            *)
(***************************************************************************)
CONSTANTS
    Tasks,      \* the tasks peers send
    Texts,      \* what a peer could be told
    Safe,       \* the texts that may leave the owner's boundary
    Answers     \* Answers[t]: the texts a completed t may end with

VARIABLES
    vouched,    \* vouched[t]: the texts with a private receipt for t
    shown       \* shown[t]: the outcomes shown for t

pvars == <<vouched, shown>>

Outcome == [state : {"completed", "failed"}, text : Texts]

Init ==
    /\ vouched = [t \in Tasks |-> {}]
    /\ shown = [t \in Tasks |-> {}]

(* A private receipt vouches for a text that is safe to show. *)
Vouch(t, x) ==
    /\ x \in Safe
    /\ vouched' = [vouched EXCEPT ![t] = @ \cup {x}]
    /\ UNCHANGED shown

(* A task has one outcome, and its text was vouched for before. *)
Show(t, o) ==
    /\ shown[t] = {}
    /\ o.text \in vouched[t]
    /\ o.state = "completed" => o.text \in Answers[t]
    /\ shown' = [shown EXCEPT ![t] = {o}]
    /\ UNCHANGED vouched

Next ==
    \E t \in Tasks :
        \/ \E x \in Texts : Vouch(t, x)
        \/ \E o \in Outcome : Show(t, o)

Spec == Init /\ [][Next]_pvars
===============================================================================
