------------------------------- MODULE OneRoster -------------------------------
(***************************************************************************)
(* What a run id is promised (docs/developer.md, "M17b config and sidecar  *)
(* runner": a receipt directory is decided for one roster, and invalid     *)
(* rosters are rejected "before any bind"). Processes, receipts that are   *)
(* torn or overwritten and the editing of rosters are not part of the      *)
(* promise; ValidationRun implements it with them.                         *)
(***************************************************************************)

CONSTANTS
    Servers,     \* processes that serve a roster
    Dirs,        \* receipt directories
    RunDir,      \* the run id's
    Paths,       \* roster files
    Contents,    \* what they can hold
    Valid        \* what may be served

VARIABLES
    decided,     \* decided[d]: the path and sha, one at most, that passed into d
    bound        \* what servers have bound: the path, the sha and what they serve

rvars == <<decided, bound>>

Init == decided = [d \in Dirs |-> {}] /\ bound = {}

(* A validation passes into a directory that none has passed into before. *)
Decide(d, f, c) ==
    /\ decided[d] = {}
    /\ decided' = [decided EXCEPT ![d] = {[path |-> f, sha |-> c]}]
    /\ UNCHANGED bound

(* A server binds what was decided for the run, once, and serves what is valid. *)
Bind(s, f, c, content) ==
    /\ [path |-> f, sha |-> c] \in decided[RunDir]
    /\ \A b \in bound : b.server # s
    /\ bound' = bound \cup {[server |-> s, path |-> f, sha |-> c, content |-> content]}
    /\ UNCHANGED decided

Next == \E f \in Paths, c \in Contents :
           \/ \E d \in Dirs : Decide(d, f, c)
           \/ \E s \in Servers, content \in Valid : Bind(s, f, c, content)

Spec == Init /\ [][Next]_rvars
================================================================================
