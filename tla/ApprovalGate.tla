----------------------------- MODULE ApprovalGate -----------------------------
(***************************************************************************)
(* The single-use approval gate of the plugin's command line: any number   *)
(* of `hermes a2a serve|service|task-smoke` invocations, each an operating *)
(* system process of its own, run require_live_gate against the same       *)
(* approvals directory while the operator writes, replaces and removes     *)
(* approval files and time passes.                                         *)
(*                                                                         *)
(* An invocation reads the clock once, then the approval file, then looks  *)
(* for the consumption marker, then creates the marker with O_EXCL, then   *)
(* writes it, then calls its delegate; any of the others may act between   *)
(* two of those steps and any invocation may die there.                    *)
(***************************************************************************)
EXTENDS Integers

CONSTANTS
    Procs,             \* command invocations, one operating system process each
    Ids,               \* normalised UUID4 approval ids
    Paths,             \* the file names an invocation or the operator may use
    ApprovalPaths,     \* those that resolve inside the approvals directory
    CanonicalPath,     \* CanonicalPath[i]: approvals/<i>.yaml
    Instances,         \* instance names
    ServiceInstances,  \* the keys of LOCAL_SERVICE_INSTANCE_UNITS
    SmokeInstances,    \* SUPPORTED_TASK_SMOKE_INSTANCES
    Receipts,          \* the approval files the operator may write
    Requests,          \* the command lines invocations may be started with
    MaxTTL,            \* 24 hours, in ticks of the model's clock
    MaxClock,          \* bound on the model's clock
    NoReceipt,         \* the absence of a file, of a read approval
    NoPath             \* --approval-receipt not given

(* SUPPORTED_OPERATIONS, and the one command these handlers run without a gate *)
SUPPORTED_OPERATIONS ==
    {"serve-live", "service-install", "service-restart", "service-stop", "task-smoke"}
Commands == SUPPORTED_OPERATIONS \cup {"serve-synthetic"}

(* "sound" stands for the checks on a file's own contents: it is a regular  *)
(* file of YAML, a mapping with exactly the known keys, kind approval,      *)
(* schema version 1, an approver, scope single-use, RFC3339 times and a     *)
(* normalised UUID4 id.                                                     *)
Receipt == [id : Ids, operation : Commands, instance : Instances,
            issued_at : 0 .. MaxClock, expires_at : Int, sound : BOOLEAN]

Request == [operation : Commands, instance : Instances, live_enabled : BOOLEAN,
            yes : BOOLEAN, env : BOOLEAN, path : Paths \cup {NoPath}]

ASSUME ReceiptsAssumption == Receipts \subseteq Receipt
ASSUME RequestsAssumption == Requests \subseteq Request
ASSUME PathsAssumption == CanonicalPath \in [Ids -> Paths] /\ ApprovalPaths \subseteq Paths
ASSUME ClockAssumption == MaxClock \in Nat /\ MaxTTL \in Nat
ASSUME AbsentAssumption == NoReceipt \notin Receipt /\ NoPath \notin Paths

VARIABLES
    clock,      \* the wall clock
    file,       \* file[f]: the approval file at path f
    marker,     \* marker[i]: the file approvals/<i>.consumed
    pc,         \* where each invocation is
    alive,      \* whether its process has not been killed
    req,        \* its command line
    now,        \* the time it captured
    seen,       \* the approval it read
    issued      \* history: the approvals ever written with a given id

vars == <<clock, file, marker, pc, alive, req, now, seen, issued>>

(* Invocations that created a marker, at whatever point they are since. *)
HoldingPoints == {"stamping", "burned", "allowed", "called"}
Points == HoldingPoints \cup
          {"idle", "reading", "looking", "consuming", "refused", "refused_consumed", "ungated"}

TypeOK ==
    /\ clock \in 0 .. MaxClock
    /\ file \in [Paths -> Receipts \cup {NoReceipt}]
    /\ marker \in [Ids -> {"absent", "empty", "written"}]
    /\ pc \in [Procs -> Points]
    /\ alive \in [Procs -> BOOLEAN]
    /\ req \in [Procs -> Requests]
    /\ now \in [Procs -> 0 .. MaxClock]
    /\ seen \in [Procs -> Receipts \cup {NoReceipt}]
    /\ issued \in [Ids -> SUBSET Receipts]

-----------------------------------------------------------------------------
(* Guards of the command line.                                              *)

Gated(r) == r.operation \in SUPPORTED_OPERATIONS

(* The command has somewhere to go: refused before any gate otherwise. *)
Supported(r) ==
    CASE r.operation \in {"service-install", "service-restart", "service-stop"} ->
            r.instance \in ServiceInstances
      [] r.operation = "task-smoke" -> r.instance \in SmokeInstances
      [] OTHER -> TRUE

(* The gates that need no file: flags, a path, the operation's environment variable. *)
OptedIn(r) == r.live_enabled /\ r.yes /\ r.path # NoPath /\ r.env

(* Faulty variants, for the checks of the checks: a verification that takes  *)
(* an approval for another instance ...                                      *)
VerifiedAnyInstance(f, r, t) ==
    /\ f \in ApprovalPaths
    /\ file[f] # NoReceipt
    /\ file[f].sound
    /\ file[f].operation = r.operation
    /\ file[f].issued_at <= t
    /\ t < file[f].expires_at
    /\ file[f].expires_at - file[f].issued_at <= MaxTTL
    /\ f = CanonicalPath[file[f].id]

(* ... and one that still takes it at the instant it expires. *)
VerifiedAtExpiry(f, r, t) ==
    /\ f \in ApprovalPaths
    /\ file[f] # NoReceipt
    /\ file[f].sound
    /\ file[f].operation = r.operation
    /\ file[f].instance = r.instance
    /\ file[f].issued_at <= t
    /\ t <= file[f].expires_at
    /\ file[f].expires_at - file[f].issued_at <= MaxTTL
    /\ f = CanonicalPath[file[f].id]

(* _verify_receipt up to the marker, on the file f holds, at captured time t. *)
Verified(f, r, t) ==
    /\ f \in ApprovalPaths
    /\ file[f] # NoReceipt
    /\ file[f].sound
    /\ file[f].operation \in SUPPORTED_OPERATIONS
    /\ file[f].operation = r.operation
    /\ file[f].instance = r.instance
    /\ file[f].issued_at <= t
    /\ t < file[f].expires_at
    /\ file[f].expires_at - file[f].issued_at <= MaxTTL
    /\ f = CanonicalPath[file[f].id]

-----------------------------------------------------------------------------
(* Steps of an invocation.                                                  *)

At(p, point) == alive[p] /\ pc[p] = point
Goto(p, point) == pc' = [pc EXCEPT ![p] = point]

(* serve with the synthetic executor: no gate at all *)
StartUngated(p) ==
    /\ At(p, "idle")
    /\ ~Gated(req[p])
    /\ Goto(p, "ungated")
    /\ UNCHANGED <<clock, file, marker, alive, req, now, seen, issued>>

(* an unsupported instance, or a gate that needs no file is shut *)
StartRefused(p) ==
    /\ At(p, "idle")
    /\ Gated(req[p])
    /\ ~Supported(req[p]) \/ ~OptedIn(req[p])
    /\ Goto(p, "refused")
    /\ UNCHANGED <<clock, file, marker, alive, req, now, seen, issued>>

(* faulty variant: the captured time is rounded up *)
StartGateRoundingUp(p) ==
    /\ At(p, "idle")
    /\ Gated(req[p]) /\ Supported(req[p]) /\ OptedIn(req[p])
    /\ Goto(p, "reading")
    /\ now' = [now EXCEPT ![p] = clock + 1]
    /\ UNCHANGED <<clock, file, marker, alive, req, seen, issued>>

(* the clock is read before the approval file is *)
StartGate(p) ==
    /\ At(p, "idle")
    /\ Gated(req[p]) /\ Supported(req[p]) /\ OptedIn(req[p])
    /\ Goto(p, "reading")
    /\ now' = [now EXCEPT ![p] = clock]
    /\ UNCHANGED <<clock, file, marker, alive, req, seen, issued>>

ReadReceipt(p) ==
    /\ At(p, "reading")
    /\ \/ /\ Verified(req[p].path, req[p], now[p])
          /\ seen' = [seen EXCEPT ![p] = file[req[p].path]]
          /\ Goto(p, "looking")
       \/ /\ ~Verified(req[p].path, req[p], now[p])
          /\ Goto(p, "refused")
          /\ UNCHANGED seen
    /\ UNCHANGED <<clock, file, marker, alive, req, now, issued>>

LookForMarker(p) ==
    /\ At(p, "looking")
    /\ Goto(p, IF marker[seen[p].id] = "absent" THEN "consuming" ELSE "refused_consumed")
    /\ UNCHANGED <<clock, file, marker, alive, req, now, seen, issued>>

(* faulty variant: the marker is opened without O_EXCL *)
CreateMarkerShared(p) ==
    /\ At(p, "consuming")
    /\ marker' = [marker EXCEPT ![seen[p].id] = "empty"]
    /\ Goto(p, "stamping")
    /\ UNCHANGED <<clock, file, alive, req, now, seen, issued>>

(* os.open(marker, O_CREAT | O_EXCL) succeeds for whoever comes first *)
CreateMarker(p) ==
    /\ At(p, "consuming")
    /\ marker[seen[p].id] = "absent"
    /\ marker' = [marker EXCEPT ![seen[p].id] = "empty"]
    /\ Goto(p, "stamping")
    /\ UNCHANGED <<clock, file, alive, req, now, seen, issued>>

(* faulty variant: the FileExistsError is taken for an earlier attempt's *)
MarkerExistsIgnored(p) ==
    /\ At(p, "consuming")
    /\ marker[seen[p].id] # "absent"
    /\ Goto(p, "allowed")
    /\ UNCHANGED <<clock, file, marker, alive, req, now, seen, issued>>

MarkerExists(p) ==
    /\ At(p, "consuming")
    /\ marker[seen[p].id] # "absent"
    /\ Goto(p, "refused_consumed")
    /\ UNCHANGED <<clock, file, marker, alive, req, now, seen, issued>>

(* faulty variant: every OSError is reported as a consumed approval *)
CreateFailsAsConsumed(p) ==
    /\ At(p, "consuming")
    /\ Goto(p, "refused_consumed")
    /\ UNCHANGED <<clock, file, marker, alive, req, now, seen, issued>>

(* another OSError: the directory is gone or not writable *)
CreateFails(p) ==
    /\ At(p, "consuming")
    /\ Goto(p, "refused")
    /\ UNCHANGED <<clock, file, marker, alive, req, now, seen, issued>>

StampMarker(p) ==
    /\ At(p, "stamping")
    /\ marker' = [marker EXCEPT ![seen[p].id] = "written"]
    /\ Goto(p, "allowed")
    /\ UNCHANGED <<clock, file, alive, req, now, seen, issued>>

(* faulty variant: a marker that could not be written is removed again *)
StampFailsAndUnlinks(p) ==
    /\ At(p, "stamping")
    /\ marker' = [marker EXCEPT ![seen[p].id] = "absent"]
    /\ Goto(p, "burned")
    /\ UNCHANGED <<clock, file, alive, req, now, seen, issued>>

(* the write or the close fails: refused, but the marker stays *)
StampFails(p) ==
    /\ At(p, "stamping")
    /\ Goto(p, "burned")
    /\ UNCHANGED <<clock, file, marker, alive, req, now, seen, issued>>

CallDelegate(p) ==
    /\ At(p, "allowed")
    /\ Goto(p, "called")
    /\ UNCHANGED <<clock, file, marker, alive, req, now, seen, issued>>

(* killed between two of its steps; before the first or after the last one  *)
(* it would make no difference to anything here                             *)
Die(p) ==
    /\ alive[p]
    /\ pc[p] \in {"reading", "looking", "consuming", "stamping", "allowed"}
    /\ alive' = [alive EXCEPT ![p] = FALSE]
    /\ UNCHANGED <<clock, file, marker, pc, req, now, seen, issued>>

-----------------------------------------------------------------------------
(* The operator and the clock.                                              *)

WriteReceipt(f, r) ==
    /\ file' = [file EXCEPT ![f] = r]
    /\ issued' = [issued EXCEPT ![r.id] = @ \cup {r}]
    /\ UNCHANGED <<clock, marker, pc, alive, req, now, seen>>

RemoveReceipt(f) ==
    /\ file' = [file EXCEPT ![f] = NoReceipt]
    /\ UNCHANGED <<clock, marker, pc, alive, req, now, seen, issued>>

Tick ==
    /\ clock < MaxClock
    /\ clock' = clock + 1
    /\ UNCHANGED <<file, marker, pc, alive, req, now, seen, issued>>

Init ==
    /\ clock = 0
    /\ file = [f \in Paths |-> NoReceipt]
    /\ marker = [i \in Ids |-> "absent"]
    /\ pc = [p \in Procs |-> "idle"]
    /\ alive = [p \in Procs |-> TRUE]
    /\ req \in [Procs -> Requests]
    /\ now = [p \in Procs |-> 0]
    /\ seen = [p \in Procs |-> NoReceipt]
    /\ issued = [i \in Ids |-> {}]

Invocation(p) ==
    \/ StartUngated(p) \/ StartRefused(p) \/ StartGate(p)
    \/ ReadReceipt(p) \/ LookForMarker(p)
    \/ CreateMarker(p) \/ MarkerExists(p) \/ CreateFails(p)
    \/ StampMarker(p) \/ StampFails(p) \/ CallDelegate(p)

Operator ==
    \/ \E f \in Paths, r \in Receipts : WriteReceipt(f, r)
    \/ \E f \in Paths : RemoveReceipt(f)

Next ==
    \/ \E p \in Procs : Invocation(p) \/ Die(p)
    \/ Operator
    \/ Tick

Spec == Init /\ [][Next]_vars
-----------------------------------------------------------------------------
(* Properties.                                                              *)

Holding(p) == pc[p] \in HoldingPoints

(* However invocations race, die or meet a rewritten approval file, at most *)
(* one of them ever gets past the marker of an approval, so at most one     *)
(* delegate call is made under it (gates.py, os.open with O_EXCL).          *)
AtMostOneHolder ==
    \A p, q \in Procs :
        Holding(p) /\ Holding(q) /\ seen[p].id = seen[q].id => p = q

(* An approval is only ever spent on a command that could use it: one that  *)
(* was opted in, whose instance has units or a smoke, and that names what   *)
(* an approval with that very id named when the operator wrote it, even if  *)
(* the file was replaced or removed before the marker was created.          *)
SpentOnlyAsIssued ==
    \A p \in Procs : Holding(p) =>
        /\ marker[seen[p].id] # "absent"
        /\ Supported(req[p]) /\ OptedIn(req[p])
        /\ \E r \in issued[seen[p].id] :
                r.operation = req[p].operation /\ r.instance = req[p].instance

(* Whatever the invocation waited on, the approval it spends was inside its *)
(* window, and no more than 24 hours old, at the time the gate captured.    *)
SpentInsideWindow ==
    \A p \in Procs : Holding(p) =>
        /\ seen[p].issued_at <= now[p] /\ now[p] < seen[p].expires_at
        /\ now[p] < seen[p].issued_at + MaxTTL

(* "Already consumed" is never reported of an approval no invocation took.  *)
ConsumedMeansTaken ==
    \A p \in Procs : pc[p] = "refused_consumed" =>
        \E q \in Procs : Holding(q) /\ q # p /\ seen[q].id = seen[p].id

(* A marker, once there, stays: no later step, refusal or death undoes it,  *)
(* and rewriting the approval file does not revive the approval.            *)
MarkersStay ==
    [][\A i \in Ids : marker[i] # "absent" => marker'[i] # "absent"]_vars

(* The gate implements the promise of SingleUse: holders are the invocations *)
(* past the marker, calls are the delegate calls made, issued is what the    *)
(* operator's files granted.                                                 *)
Grant(r) == <<r.operation, r.instance>>
GrantsIssued == [i \in Ids |-> {Grant(r) : r \in issued[i]}]
Holders == [i \in Ids |-> {p \in Procs : Holding(p) /\ seen[p].id = i}]
CallsMade == {[proc |-> p, id |-> seen[p].id, grant |-> Grant(req[p])] :
                  p \in {q \in Procs : pc[q] = "called"}}

Promise == INSTANCE SingleUse WITH
    Grants <- Commands \X Instances,
    issued <- GrantsIssued, holder <- Holders, calls <- CallsMade

ImplementsSingleUse == Promise!Spec
=============================================================================
