------------------------------ MODULE SingleUse ------------------------------
(***************************************************************************)
(* What the operator is promised about approvals (docs/plugin.md, "Approval *)
(* receipts"): an approval that names an operation and an instance lets at *)
(* most one invocation carry out that operation on that instance, ever.     *)
(* Files, markers, clocks and environment gates are not part of the        *)
(* promise; ApprovalGate implements it with them.                          *)
(***************************************************************************)

CONSTANTS
    Procs,       \* command invocations
    Ids,         \* approval ids
    Grants       \* what an approval can name: operation and instance pairs

VARIABLES
    issued,      \* issued[i]: the grants the operator has put under id i so far
    holder,      \* holder[i]: the invocations that hold approval i
    calls        \* the operations carried out so far

svars == <<issued, holder, calls>>

Call == [proc : Procs, id : Ids, grant : Grants]

Init ==
    /\ issued = [i \in Ids |-> {}]
    /\ holder = [i \in Ids |-> {}]
    /\ calls = {}

(* The operator puts a grant under an id. *)
Issue(i, g) ==
    /\ issued' = [issued EXCEPT ![i] = @ \cup {g}]
    /\ UNCHANGED <<holder, calls>>

(* An invocation takes an approval nobody holds; it is never given back. *)
Take(p, i) ==
    /\ holder[i] = {}
    /\ issued[i] # {}
    /\ holder' = [holder EXCEPT ![i] = {p}]
    /\ UNCHANGED <<issued, calls>>

(* The holder carries out the operation, once, on an issued grant. *)
CarryOut(p, i, g) ==
    /\ p \in holder[i]
    /\ g \in issued[i]
    /\ \A c \in calls : c.id # i
    /\ calls' = calls \cup {[proc |-> p, id |-> i, grant |-> g]}
    /\ UNCHANGED <<issued, holder>>

Next ==
    \E i \in Ids :
        \/ \E g \in Grants : Issue(i, g)
        \/ \E p \in Procs : Take(p, i)
        \/ \E p \in Procs, g \in Grants : CarryOut(p, i, g)

Spec == Init /\ [][Next]_svars

(* One approval, at most one operation carried out. *)
AtMostOnce == \A c, d \in calls : c.id = d.id => c = d
=============================================================================
