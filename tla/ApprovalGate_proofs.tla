-------------------------- MODULE ApprovalGate_proofs --------------------------
(***************************************************************************)
(* Proofs about ApprovalGate, for any number of invocations, approvals,    *)
(* files and command lines.                                                *)
(***************************************************************************)
EXTENDS ApprovalGate, TLAPS

(* Points at which an invocation has read and verified an approval. *)
VerifiedPoints == HoldingPoints \cup {"looking", "consuming", "refused_consumed"}

(* What an invocation past the verification knows of the approval it read. *)
KnowsApproval(p) ==
    /\ Supported(req[p]) /\ OptedIn(req[p])
    /\ seen[p] \in issued[seen[p].id]
    /\ seen[p].operation = req[p].operation
    /\ seen[p].instance = req[p].instance
    /\ seen[p].issued_at <= now[p]
    /\ now[p] < seen[p].expires_at
    /\ seen[p].expires_at - seen[p].issued_at <= MaxTTL

(* The inductive invariant. A marker exists exactly when somebody holds the *)
(* approval, and then one invocation does: O_EXCL is what keeps the second  *)
(* one out, so the argument needs nothing about who looked first.           *)
FilesIssued ==
    \A f \in Paths : file[f] # NoReceipt => file[f] \in issued[file[f].id]
InvocationsVerified ==
    \A p \in Procs :
        /\ pc[p] = "reading" => Supported(req[p]) /\ OptedIn(req[p])
        /\ pc[p] \in VerifiedPoints => seen[p] \in Receipts /\ KnowsApproval(p)
MarkersHeld ==
    \A i \in Ids :
        marker[i] # "absent" <=> \E p \in Procs : Holding(p) /\ seen[p].id = i
RefusedAfterHolder ==
    \A p \in Procs : pc[p] = "refused_consumed" => marker[seen[p].id] # "absent"

IInv ==
    /\ TypeOK
    /\ FilesIssued
    /\ InvocationsVerified
    /\ MarkersHeld
    /\ RefusedAfterHolder
    /\ AtMostOneHolder

-----------------------------------------------------------------------------
(* Types.                                                                   *)

(* What the proofs use of a receipt of the model: the types of its fields.  *)
LEMMA ReceiptFields ==
    ASSUME NEW r \in Receipts
    PROVE  /\ r \in Receipt
           /\ r # NoReceipt
           /\ r.id \in Ids
           /\ r.operation \in Commands
           /\ r.instance \in Instances
           /\ r.issued_at \in 0 .. MaxClock
           /\ r.expires_at \in Int
BY ReceiptsAssumption, AbsentAssumption DEF Receipt

(* What the proofs use of a command line of the model: the types of its fields. *)
LEMMA RequestFields ==
    ASSUME NEW r \in Requests
    PROVE  /\ r.operation \in Commands
           /\ r.instance \in Instances
           /\ r.path \in Paths \cup {NoPath}
           /\ OptedIn(r) => r.path \in Paths
<1>1. r \in Request
  BY RequestsAssumption
<1>2. QED
  BY <1>1, AbsentAssumption DEF Request, OptedIn

(* A verified file is one of the operator's receipts, at a path of its own. *)
LEMMA VerifiedFile ==
    ASSUME TypeOK, NEW f \in Paths, NEW r, NEW t, Verified(f, r, t)
    PROVE  file[f] \in Receipts
BY DEF TypeOK, Verified

(* The gate starts well typed.                                              *)
LEMMA TypeInit == Init => TypeOK
BY ClockAssumption DEF Init, TypeOK, Points, HoldingPoints

(* Every step of the gate keeps it well typed.                              *)
LEMMA TypeStep == TypeOK /\ [Next]_vars => TypeOK'
<1> SUFFICES ASSUME TypeOK, [Next]_vars PROVE TypeOK'
  OBVIOUS
<1> USE DEF TypeOK, Points, HoldingPoints, At, Goto
<1>1. ASSUME NEW p \in Procs, StartUngated(p) PROVE TypeOK'
  BY <1>1 DEF StartUngated
<1>2. ASSUME NEW p \in Procs, StartRefused(p) PROVE TypeOK'
  BY <1>2 DEF StartRefused
<1>3. ASSUME NEW p \in Procs, StartGate(p) PROVE TypeOK'
  BY <1>3 DEF StartGate
<1>4. ASSUME NEW p \in Procs, ReadReceipt(p) PROVE TypeOK'
  <2>1. CASE Verified(req[p].path, req[p], now[p])
    <3>1. req[p].path \in Paths
      BY <2>1, PathsAssumption DEF Verified
    <3>2. file[req[p].path] \in Receipts
      BY <2>1, <3>1, VerifiedFile
    <3>3. QED
      BY <1>4, <2>1, <3>2 DEF ReadReceipt
  <2>2. CASE ~Verified(req[p].path, req[p], now[p])
    BY <1>4, <2>2 DEF ReadReceipt
  <2>3. QED
    BY <2>1, <2>2
<1>5. ASSUME NEW p \in Procs, LookForMarker(p) PROVE TypeOK'
  BY <1>5 DEF LookForMarker
<1>6. ASSUME NEW p \in Procs, CreateMarker(p) PROVE TypeOK'
  BY <1>6 DEF CreateMarker
<1>7. ASSUME NEW p \in Procs, MarkerExists(p) PROVE TypeOK'
  BY <1>7 DEF MarkerExists
<1>8. ASSUME NEW p \in Procs, CreateFails(p) PROVE TypeOK'
  BY <1>8 DEF CreateFails
<1>9. ASSUME NEW p \in Procs, StampMarker(p) PROVE TypeOK'
  BY <1>9 DEF StampMarker
<1>10. ASSUME NEW p \in Procs, StampFails(p) PROVE TypeOK'
  BY <1>10 DEF StampFails
<1>11. ASSUME NEW p \in Procs, CallDelegate(p) PROVE TypeOK'
  BY <1>11 DEF CallDelegate
<1>12. ASSUME NEW p \in Procs, Die(p) PROVE TypeOK'
  BY <1>12 DEF Die
<1>13. ASSUME NEW f \in Paths, NEW r \in Receipts, WriteReceipt(f, r) PROVE TypeOK'
  <2>1. r.id \in Ids
    BY ReceiptFields
  <2>2. QED
    BY <1>13, <2>1 DEF WriteReceipt
<1>14. ASSUME NEW f \in Paths, RemoveReceipt(f) PROVE TypeOK'
  BY <1>14 DEF RemoveReceipt
<1>15. CASE Tick
  BY <1>15, ClockAssumption DEF Tick
<1>16. CASE UNCHANGED vars
  BY <1>16 DEF vars
<1>17. QED
  BY <1>1, <1>2, <1>3, <1>4, <1>5, <1>6, <1>7, <1>8, <1>9, <1>10, <1>11,
     <1>12, <1>13, <1>14, <1>15, <1>16 DEF Next, Invocation, Operator

(* Every reachable state is well typed: files and read approvals are ones   *)
(* the operator wrote, markers are absent, empty or written.                *)
THEOREM TypeCorrect == Spec => []TypeOK
<1>1. QED
  BY TypeInit, TypeStep, PTL DEF Spec

-----------------------------------------------------------------------------
(* The inductive invariant.                                                 *)

(* The invariant holds before any invocation has begun.                     *)
LEMMA InvInit == Init => IInv
<1> SUFFICES ASSUME Init PROVE IInv
  OBVIOUS
<1>1. TypeOK
  BY TypeInit
<1>2. \A p \in Procs : pc[p] = "idle"
  BY DEF Init
<1>3. FilesIssued
  BY DEF Init, FilesIssued
<1>4. QED
  BY <1>1, <1>2, <1>3 DEF Init, IInv, InvocationsVerified, MarkersHeld,
     RefusedAfterHolder, AtMostOneHolder, Holding, HoldingPoints, VerifiedPoints

(* A step that moves no invocation and forgets no approval. *)
LEMMA FrameStep ==
    ASSUME IInv, TypeOK', FilesIssued',
           UNCHANGED <<marker, pc, req, now, seen>>,
           \A i \in Ids : issued[i] \subseteq issued'[i]
    PROVE  IInv'
<1>1. ASSUME NEW p \in Procs, pc[p] \in VerifiedPoints
      PROVE  seen[p] \in Receipts /\ KnowsApproval(p)'
  <2>1. seen[p] \in Receipts /\ KnowsApproval(p)
    BY <1>1 DEF IInv, InvocationsVerified
  <2>2. seen[p].id \in Ids
    BY <2>1, ReceiptFields
  <2>3. QED
    BY <2>1, <2>2 DEF KnowsApproval
<1>2. InvocationsVerified'
  BY <1>1 DEF IInv, InvocationsVerified
<1>3. MarkersHeld' /\ RefusedAfterHolder' /\ AtMostOneHolder'
  BY DEF IInv, MarkersHeld, RefusedAfterHolder, AtMostOneHolder, Holding
<1>4. QED
  BY <1>2, <1>3 DEF IInv

(* A step of one invocation that reads no approval, touches no marker and   *)
(* neither starts nor stops holding: only where it stands changes.          *)
LEMMA MoveStep ==
    ASSUME IInv, TypeOK', NEW p \in Procs, NEW to \in Points,
           pc' = [pc EXCEPT ![p] = to],
           UNCHANGED <<file, req, seen, issued>>,
           UNCHANGED now \/ (pc[p] = "idle" /\ \A q \in Procs : q # p => now'[q] = now[q]),
           \A i \in Ids : marker'[i] # "absent" <=> marker[i] # "absent",
           pc[p] \in HoldingPoints <=> to \in HoldingPoints,
           to \in VerifiedPoints => pc[p] \in VerifiedPoints,
           to = "reading" => Supported(req[p]) /\ OptedIn(req[p]),
           to = "refused_consumed" => marker[seen[p].id] # "absent"
    PROVE  IInv'
<1> USE DEF IInv, TypeOK
<1>1. FilesIssued'
  BY DEF FilesIssued
<1>2. pc' \in [Procs -> Points] /\ \A q \in Procs : pc'[q] = IF q = p THEN to ELSE pc[q]
  OBVIOUS
<1>3. pc[p] = "idle" => pc[p] \notin VerifiedPoints
  BY DEF VerifiedPoints, HoldingPoints
<1>4. InvocationsVerified'
  <2> SUFFICES ASSUME NEW q \in Procs
               PROVE /\ pc'[q] = "reading" => Supported(req[q]) /\ OptedIn(req[q])
                     /\ pc'[q] \in VerifiedPoints => seen[q] \in Receipts /\ KnowsApproval(q)'
    BY DEF InvocationsVerified
  <2>1. CASE pc'[q] \in VerifiedPoints
    <3>1. pc[q] \in VerifiedPoints
      BY <1>2, <2>1
    <3>2. seen[q] \in Receipts /\ KnowsApproval(q)
      BY <3>1 DEF InvocationsVerified
    <3>3. now'[q] = now[q]
      BY <1>3, <3>1
    <3>4. pc'[q] # "reading"
      BY <2>1 DEF VerifiedPoints, HoldingPoints
    <3>5. QED
      BY <3>2, <3>3, <3>4 DEF KnowsApproval
  <2>2. CASE pc'[q] \notin VerifiedPoints
    BY <1>2, <2>2 DEF InvocationsVerified
  <2>3. QED
    BY <2>1, <2>2
<1>5. \A q \in Procs : Holding(q)' <=> Holding(q)
  BY <1>2 DEF Holding
<1>6. MarkersHeld' /\ AtMostOneHolder'
  BY <1>5 DEF MarkersHeld, AtMostOneHolder
<1>7. RefusedAfterHolder'
  <2> SUFFICES ASSUME NEW q \in Procs, pc'[q] = "refused_consumed"
               PROVE  marker'[seen[q].id] # "absent"
    BY DEF RefusedAfterHolder
  <2>1. pc[q] \in VerifiedPoints /\ marker[seen[q].id] # "absent"
    BY <1>2 DEF RefusedAfterHolder, VerifiedPoints
  <2>2. seen[q].id \in Ids
    BY <2>1, ReceiptFields DEF InvocationsVerified
  <2>3. QED
    BY <2>1, <2>2
<1>8. QED
  BY <1>1, <1>4, <1>6, <1>7

(* Reading the approval: what is verified is what is then known. *)
LEMMA ReadStep ==
    ASSUME IInv, TypeOK', NEW p \in Procs, ReadReceipt(p)
    PROVE  IInv'
<1> USE DEF IInv, TypeOK
<1>1. CASE ~Verified(req[p].path, req[p], now[p])
  BY <1>1, MoveStep DEF ReadReceipt, At, Goto, Points, HoldingPoints, VerifiedPoints
<1>2. CASE Verified(req[p].path, req[p], now[p])
  <2> DEFINE f == req[p].path
  <2>1. f \in Paths /\ file[f] \in Receipts
    BY <1>2, PathsAssumption, VerifiedFile DEF Verified
  <2>2. /\ pc[p] = "reading"
        /\ pc' = [pc EXCEPT ![p] = "looking"]
        /\ seen' = [seen EXCEPT ![p] = file[f]]
        /\ UNCHANGED <<file, marker, req, now, issued>>
    BY <1>2 DEF ReadReceipt, At, Goto
  <2>3. KnowsApproval(p)'
    <3>1. Supported(req[p]) /\ OptedIn(req[p])
      BY <2>2 DEF InvocationsVerified
    <3>2. file[f] \in issued[file[f].id]
      BY <2>1, ReceiptFields DEF FilesIssued
    <3>3. seen'[p] = file[f]
      BY <2>2
    <3>4. QED
      BY <1>2, <2>2, <3>1, <3>2, <3>3 DEF KnowsApproval, Verified
  <2>4. InvocationsVerified'
    <3> SUFFICES ASSUME NEW q \in Procs
                 PROVE /\ pc'[q] = "reading" => Supported(req[q]) /\ OptedIn(req[q])
                       /\ pc'[q] \in VerifiedPoints =>
                              seen'[q] \in Receipts /\ KnowsApproval(q)'
      BY <2>2 DEF InvocationsVerified
    <3>1. CASE q = p
      BY <3>1, <2>1, <2>2, <2>3
    <3>2. CASE q # p
      BY <3>2, <2>2 DEF InvocationsVerified, KnowsApproval
    <3>3. QED
      BY <3>1, <3>2
  <2>5. \A q \in Procs : /\ Holding(q)' <=> Holding(q)
                         /\ pc'[q] \in VerifiedPoints /\ q # p => seen'[q] = seen[q]
                         /\ Holding(q) => q # p
                         /\ pc'[q] = "refused_consumed" => q # p /\ pc[q] = "refused_consumed"
    BY <2>2 DEF Holding, HoldingPoints
  <2>6. MarkersHeld' /\ AtMostOneHolder' /\ RefusedAfterHolder'
    BY <2>2, <2>5 DEF MarkersHeld, AtMostOneHolder, RefusedAfterHolder, Holding, VerifiedPoints
  <2>7. FilesIssued'
    BY <2>2 DEF FilesIssued
  <2>8. QED
    BY <2>4, <2>6, <2>7
<1>3. QED
  BY <1>1, <1>2

(* Creating the marker: nobody held the approval, now this invocation does. *)
LEMMA CreateStep ==
    ASSUME IInv, TypeOK', NEW p \in Procs, CreateMarker(p)
    PROVE  IInv'
<1> USE DEF IInv, TypeOK
<1> DEFINE i == seen[p].id
<1>1. /\ pc[p] = "consuming"
      /\ pc' = [pc EXCEPT ![p] = "stamping"]
      /\ marker' = [marker EXCEPT ![i] = "empty"]
      /\ marker[i] = "absent"
      /\ UNCHANGED <<file, req, now, seen, issued>>
  BY DEF CreateMarker, At, Goto
<1>2. i \in Ids
  BY <1>1, ReceiptFields DEF InvocationsVerified, VerifiedPoints
<1>3. \A q \in Procs : Holding(q) => seen[q].id # i
  BY <1>1, <1>2 DEF MarkersHeld
<1>4. \A q \in Procs : Holding(q)' <=> Holding(q) \/ q = p
  BY <1>1 DEF Holding, HoldingPoints
<1>5. \A j \in Ids : marker'[j] # "absent" <=> marker[j] # "absent" \/ j = i
  BY <1>1, <1>2
<1>6. MarkersHeld'
  BY <1>1, <1>2, <1>3, <1>4, <1>5 DEF MarkersHeld
<1>7. AtMostOneHolder'
  BY <1>1, <1>3, <1>4 DEF AtMostOneHolder
<1>8. RefusedAfterHolder'
  <2> SUFFICES ASSUME NEW q \in Procs, pc'[q] = "refused_consumed"
               PROVE  marker'[seen[q].id] # "absent"
    BY <1>1 DEF RefusedAfterHolder
  <2>1. pc[q] = "refused_consumed"
    BY <1>1
  <2>2. seen[q].id \in Ids
    BY <2>1, ReceiptFields DEF InvocationsVerified, VerifiedPoints
  <2>3. QED
    BY <1>5, <2>1, <2>2 DEF RefusedAfterHolder
<1>9. InvocationsVerified'
  BY <1>1 DEF InvocationsVerified, VerifiedPoints, HoldingPoints, KnowsApproval
<1>10. FilesIssued'
  BY <1>1 DEF FilesIssued
<1>11. QED
  BY <1>6, <1>7, <1>8, <1>9, <1>10

(* Every step of an invocation, the operator or the clock keeps it.         *)
LEMMA InvStep == IInv /\ [Next]_vars => IInv'
<1> SUFFICES ASSUME IInv, [Next]_vars PROVE IInv'
  OBVIOUS
<1>0. TypeOK'
  BY TypeStep DEF IInv
<1> DEFINE Frame == UNCHANGED <<marker, pc, req, now, seen>>
<1>1. ASSUME NEW p \in Procs, StartUngated(p) PROVE IInv'
  BY <1>0, <1>1, MoveStep DEF StartUngated, At, Goto, Points, HoldingPoints, VerifiedPoints
<1>2. ASSUME NEW p \in Procs, StartRefused(p) PROVE IInv'
  BY <1>0, <1>2, MoveStep DEF StartRefused, At, Goto, Points, HoldingPoints, VerifiedPoints
<1>3. ASSUME NEW p \in Procs, StartGate(p) PROVE IInv'
  <2>1. \A q \in Procs : q # p => now'[q] = now[q]
    BY <1>3 DEF StartGate, IInv, TypeOK
  <2>2. QED
    BY <1>0, <1>3, <2>1, MoveStep DEF StartGate, At, Goto, Points, HoldingPoints, VerifiedPoints
<1>4. ASSUME NEW p \in Procs, ReadReceipt(p) PROVE IInv'
  BY <1>0, <1>4, ReadStep
<1>5. ASSUME NEW p \in Procs, LookForMarker(p) PROVE IInv'
  <2> DEFINE to == IF marker[seen[p].id] = "absent" THEN "consuming" ELSE "refused_consumed"
  <2>1. /\ pc[p] = "looking"
        /\ pc' = [pc EXCEPT ![p] = to]
        /\ UNCHANGED <<file, marker, req, now, seen, issued>>
    BY <1>5 DEF LookForMarker, At, Goto
  <2>2. to \in Points
    BY DEF Points, HoldingPoints
  <2>3. pc[p] \in VerifiedPoints /\ pc[p] \notin HoldingPoints /\ to \notin HoldingPoints
    BY <2>1 DEF VerifiedPoints, HoldingPoints
  <2>4. to # "reading" /\ (to = "refused_consumed" => marker[seen[p].id] # "absent")
    OBVIOUS
  <2> HIDE DEF to
  <2>5. QED
    BY <1>0, <2>1, <2>2, <2>3, <2>4, MoveStep
<1>6. ASSUME NEW p \in Procs, CreateMarker(p) PROVE IInv'
  BY <1>0, <1>6, CreateStep
<1>7. ASSUME NEW p \in Procs, MarkerExists(p) PROVE IInv'
  BY <1>0, <1>7, MoveStep DEF MarkerExists, At, Goto, Points, HoldingPoints, VerifiedPoints
<1>8. ASSUME NEW p \in Procs, CreateFails(p) PROVE IInv'
  BY <1>0, <1>8, MoveStep DEF CreateFails, At, Goto, Points, HoldingPoints, VerifiedPoints
<1>9. ASSUME NEW p \in Procs, StampMarker(p) PROVE IInv'
  <2>1. /\ pc[p] = "stamping"
        /\ pc' = [pc EXCEPT ![p] = "allowed"]
        /\ marker' = [marker EXCEPT ![seen[p].id] = "written"]
        /\ UNCHANGED <<file, req, now, seen, issued>>
    BY <1>9 DEF StampMarker, At, Goto
  <2>2. marker[seen[p].id] # "absent"
    <3>1. Holding(p) /\ seen[p].id \in Ids
      BY <2>1, ReceiptFields DEF IInv, InvocationsVerified, Holding, HoldingPoints, VerifiedPoints
    <3>2. QED
      BY <3>1 DEF IInv, MarkersHeld
  <2>3. \A i \in Ids : marker'[i] # "absent" <=> marker[i] # "absent"
    BY <2>1, <2>2 DEF IInv, TypeOK
  <2>4. QED
    BY <1>0, <2>1, <2>3, MoveStep DEF Points, HoldingPoints, VerifiedPoints
<1>10. ASSUME NEW p \in Procs, StampFails(p) PROVE IInv'
  BY <1>0, <1>10, MoveStep DEF StampFails, At, Goto, Points, HoldingPoints, VerifiedPoints
<1>11. ASSUME NEW p \in Procs, CallDelegate(p) PROVE IInv'
  BY <1>0, <1>11, MoveStep DEF CallDelegate, At, Goto, Points, HoldingPoints, VerifiedPoints
<1>12. ASSUME NEW p \in Procs, Die(p) PROVE IInv'
  BY <1>0, <1>12, FrameStep DEF Die, IInv, FilesIssued
<1>13. ASSUME NEW f \in Paths, NEW r \in Receipts, WriteReceipt(f, r) PROVE IInv'
  <2>1. r.id \in Ids
    BY ReceiptFields
  <2>2. /\ issued' = [issued EXCEPT ![r.id] = @ \cup {r}]
        /\ file' = [file EXCEPT ![f] = r]
        /\ Frame
    BY <1>13 DEF WriteReceipt
  <2>3. \A i \in Ids : issued[i] \subseteq issued'[i]
    BY <2>1, <2>2 DEF IInv, TypeOK
  <2>4. FilesIssued'
    <3> SUFFICES ASSUME NEW g \in Paths, file'[g] # NoReceipt
                 PROVE  file'[g] \in issued'[file'[g].id]
      BY DEF FilesIssued
    <3>1. CASE g = f
      BY <2>1, <2>2, <3>1 DEF IInv, TypeOK
    <3>2. CASE g # f
      <4>1. file'[g] = file[g] /\ file[g] \in Receipts
        BY <2>2, <3>2 DEF IInv, TypeOK
      <4>2. file[g] \in issued[file[g].id] /\ file[g].id \in Ids
        BY <4>1, ReceiptFields DEF IInv, FilesIssued
      <4>3. QED
        BY <2>3, <4>1, <4>2
    <3>3. QED
      BY <3>1, <3>2
  <2>5. QED
    BY <1>0, <2>2, <2>3, <2>4, FrameStep
<1>14. ASSUME NEW f \in Paths, RemoveReceipt(f) PROVE IInv'
  <2>1. FilesIssued'
    BY <1>14 DEF RemoveReceipt, IInv, TypeOK, FilesIssued
  <2>2. QED
    BY <1>0, <1>14, <2>1, FrameStep DEF RemoveReceipt
<1>15. CASE Tick
  BY <1>0, <1>15, FrameStep DEF Tick, IInv, FilesIssued
<1>16. CASE UNCHANGED vars
  BY <1>0, <1>16, FrameStep DEF vars, IInv, FilesIssued
<1>17. QED
  BY <1>1, <1>2, <1>3, <1>4, <1>5, <1>6, <1>7, <1>8, <1>9, <1>10, <1>11,
     <1>12, <1>13, <1>14, <1>15, <1>16 DEF Next, Invocation, Operator

(* So it holds of every reachable state.                                    *)
LEMMA Invariance == Spec => []IInv
BY InvInit, InvStep, PTL DEF Spec

-----------------------------------------------------------------------------
(* What follows for every instance.                                         *)

(* An approval is held by at most one invocation, whatever the interleaving *)
(* of reads, marker looks and marker creations, deaths and rewritten files: *)
(* gates.py's O_CREAT | O_EXCL alone makes an approval single-use.          *)
THEOREM OneHolder == Spec => []AtMostOneHolder
<1>1. IInv => AtMostOneHolder
  BY DEF IInv
<1>2. QED
  BY <1>1, Invariance, PTL

(* An approval is spent only on the command and instance the operator wrote *)
(* into a file with its id, by a command that was opted in and supported.   *)
THEOREM AsIssued == Spec => []SpentOnlyAsIssued
<1>1. IInv => SpentOnlyAsIssued
  <2> SUFFICES ASSUME IInv, NEW p \in Procs, Holding(p)
               PROVE  /\ marker[seen[p].id] # "absent"
                      /\ Supported(req[p]) /\ OptedIn(req[p])
                      /\ \E r \in issued[seen[p].id] :
                              r.operation = req[p].operation /\ r.instance = req[p].instance
    BY DEF SpentOnlyAsIssued
  <2>1. seen[p] \in Receipts /\ KnowsApproval(p)
    BY DEF IInv, InvocationsVerified, Holding, VerifiedPoints
  <2>2. seen[p].id \in Ids
    BY <2>1, ReceiptFields
  <2>3. QED
    BY <2>1, <2>2 DEF IInv, MarkersHeld, KnowsApproval
<1>2. QED
  BY <1>1, Invariance, PTL

(* Whatever happened since, a spent approval was inside its window, and at  *)
(* most 24 hours old, at the time its invocation captured.                  *)
THEOREM InsideWindow == Spec => []SpentInsideWindow
<1>1. IInv => SpentInsideWindow
  <2> SUFFICES ASSUME IInv, NEW p \in Procs, Holding(p)
               PROVE  /\ seen[p].issued_at <= now[p] /\ now[p] < seen[p].expires_at
                      /\ now[p] < seen[p].issued_at + MaxTTL
    BY DEF SpentInsideWindow
  <2>1. seen[p] \in Receipts /\ KnowsApproval(p)
    BY DEF IInv, InvocationsVerified, Holding, VerifiedPoints
  <2>2. seen[p].issued_at \in Int /\ seen[p].expires_at \in Int /\ now[p] \in Int /\ MaxTTL \in Int
    BY <2>1, ReceiptFields, ClockAssumption DEF IInv, TypeOK
  <2>3. QED
    BY <2>1, <2>2 DEF KnowsApproval
<1>2. QED
  BY <1>1, Invariance, PTL

(* "Already consumed" is reported only of an approval another invocation took. *)
THEOREM ConsumedIsTaken == Spec => []ConsumedMeansTaken
<1>1. IInv => ConsumedMeansTaken
  <2> SUFFICES ASSUME IInv, NEW p \in Procs, pc[p] = "refused_consumed"
               PROVE  \E q \in Procs : Holding(q) /\ q # p /\ seen[q].id = seen[p].id
    BY DEF ConsumedMeansTaken
  <2>1. seen[p].id \in Ids
    BY ReceiptFields DEF IInv, InvocationsVerified, VerifiedPoints
  <2>2. marker[seen[p].id] # "absent"
    BY DEF IInv, RefusedAfterHolder
  <2>3. PICK q \in Procs : Holding(q) /\ seen[q].id = seen[p].id
    BY <2>1, <2>2 DEF IInv, MarkersHeld
  <2>4. q # p
    BY <2>3 DEF Holding, HoldingPoints
  <2>5. QED
    BY <2>3, <2>4
<1>2. QED
  BY <1>1, Invariance, PTL

(* No step removes a marker: a spent approval stays spent. *)
THEOREM Permanent == Spec => MarkersStay
<1>1. ASSUME IInv, [Next]_vars
      PROVE  [\A i \in Ids : marker[i] # "absent" => marker'[i] # "absent"]_vars
  <2> USE DEF IInv, TypeOK
  <2>1. ASSUME NEW p \in Procs, CreateMarker(p) \/ StampMarker(p)
        PROVE  \A i \in Ids : marker[i] # "absent" => marker'[i] # "absent"
    BY <1>1, <2>1 DEF CreateMarker, StampMarker
  <2>2. ASSUME UNCHANGED marker
        PROVE  \A i \in Ids : marker[i] # "absent" => marker'[i] # "absent"
    BY <2>2
  <2>3. (\E p \in Procs : CreateMarker(p) \/ StampMarker(p)) \/ UNCHANGED marker
    BY <1>1 DEF Next, Invocation, Operator, Tick, Die, WriteReceipt, RemoveReceipt, vars,
       StartUngated, StartRefused, StartGate, ReadReceipt, LookForMarker,
       MarkerExists, CreateFails, StampFails, CallDelegate
  <2>4. QED
    BY <2>1, <2>2, <2>3
<1>2. QED
  BY <1>1, Invariance, PTL DEF Spec, MarkersStay

-----------------------------------------------------------------------------
(* The gate implements the promise of SingleUse.                            *)

(* Holders and calls depend on these variables of holding invocations only. *)
LEMMA SameHoldersAndCalls ==
    ASSUME \A q \in Procs : pc'[q] \in HoldingPoints <=> pc[q] \in HoldingPoints,
           \A q \in Procs : pc'[q] = "called" <=> pc[q] = "called",
           \A q \in Procs : pc[q] \in HoldingPoints => seen'[q] = seen[q] /\ req'[q] = req[q]
    PROVE  UNCHANGED <<Holders, CallsMade>>
<1>1. \A i \in Ids : {p \in Procs : Holding(p) /\ seen[p].id = i}
                   = {p \in Procs : Holding(p)' /\ seen'[p].id = i}
  BY DEF Holding
<1>2. UNCHANGED Holders
  BY <1>1 DEF Holders
<1>3. \A q \in Procs : pc[q] = "called" => seen'[q] = seen[q] /\ req'[q] = req[q]
  BY DEF HoldingPoints
<1>4. UNCHANGED CallsMade
  BY <1>3 DEF CallsMade, Grant
<1>5. QED
  BY <1>2, <1>4

(* The gate starts where the promise does: nothing issued, nothing taken.   *)
LEMMA PromiseInit == Init => Promise!Init
<1> SUFFICES ASSUME Init PROVE Promise!Init
  OBVIOUS
<1>1. \A p \in Procs : pc[p] = "idle"
  BY DEF Init
<1>2. GrantsIssued = [i \in Ids |-> {}]
  BY DEF Init, GrantsIssued
<1>3. Holders = [i \in Ids |-> {}]
  BY <1>1 DEF Holders, Holding, HoldingPoints
<1>4. CallsMade = {}
  BY <1>1 DEF CallsMade
<1>5. QED
  BY <1>2, <1>3, <1>4 DEF Promise!Init

(* Every step of the gate is a step of the promise, or none.                *)
LEMMA PromiseStep == IInv /\ [Next]_vars => [Promise!Next]_(Promise!svars)
<1> SUFFICES ASSUME IInv, [Next]_vars PROVE [Promise!Next]_(Promise!svars)
  OBVIOUS
<1> USE DEF IInv, TypeOK
<1>1. ASSUME NEW p \in Procs, CreateMarker(p) PROVE Promise!Next
  <2> DEFINE i == seen[p].id
  <2>1. /\ pc[p] = "consuming"
        /\ pc' = [pc EXCEPT ![p] = "stamping"]
        /\ marker[i] = "absent"
        /\ UNCHANGED <<req, seen, issued>>
    BY <1>1 DEF CreateMarker, At, Goto
  <2>2. seen[p] \in Receipts /\ KnowsApproval(p) /\ i \in Ids
    BY <2>1, ReceiptFields DEF InvocationsVerified, VerifiedPoints
  <2>3. \A q \in Procs : Holding(q) => seen[q].id # i
    BY <2>1, <2>2 DEF MarkersHeld
  <2>4. Holders[i] = {}
    BY <2>2, <2>3 DEF Holders
  <2>5. Grant(seen[p]) \in GrantsIssued[i]
    BY <2>2 DEF KnowsApproval, GrantsIssued
  <2>6. Holders' = [Holders EXCEPT ![i] = {p}]
    <3>1. \A q \in Procs : Holding(q)' <=> Holding(q) \/ q = p
      BY <2>1 DEF Holding, HoldingPoints
    <3>2. \A j \in Ids : Holders'[j] = IF j = i THEN {p} ELSE Holders[j]
      BY <2>1, <2>2, <2>3, <3>1 DEF Holders
    <3>3. QED
      BY <3>2 DEF Holders
  <2>7. UNCHANGED <<GrantsIssued, CallsMade>>
    <3>1. \A q \in Procs : pc'[q] = "called" <=> pc[q] = "called"
      BY <2>1
    <3>2. QED
      BY <2>1, <3>1 DEF GrantsIssued, CallsMade, Grant
  <2>8. Promise!Take(p, i)
    BY <2>4, <2>5, <2>6, <2>7 DEF Promise!Take
  <2>9. QED
    BY <2>2, <2>8 DEF Promise!Next
<1>2. ASSUME NEW p \in Procs, CallDelegate(p) PROVE Promise!Next
  <2> DEFINE i == seen[p].id
             g == Grant(req[p])
  <2>1. /\ pc[p] = "allowed"
        /\ pc' = [pc EXCEPT ![p] = "called"]
        /\ UNCHANGED <<req, seen, issued>>
    BY <1>2 DEF CallDelegate, At, Goto
  <2>2. seen[p] \in Receipts /\ KnowsApproval(p) /\ i \in Ids /\ Holding(p)
    BY <2>1, ReceiptFields DEF InvocationsVerified, VerifiedPoints, HoldingPoints, Holding
  <2>3. g \in GrantsIssued[i]
    BY <2>2 DEF KnowsApproval, GrantsIssued, Grant
  <2>4. g \in Commands \X Instances
    BY RequestFields DEF Grant
  <2>5. p \in Holders[i]
    BY <2>2 DEF Holders
  <2>6. \A c \in CallsMade : c.id # i
    <3> SUFFICES ASSUME NEW q \in Procs, pc[q] = "called", seen[q].id = i PROVE FALSE
      BY DEF CallsMade
    <3>1. Holding(q)
      BY DEF Holding, HoldingPoints
    <3>2. q = p
      BY <2>2, <3>1 DEF AtMostOneHolder
    <3>3. QED
      BY <2>1, <3>2
  <2>7. CallsMade' = CallsMade \cup {[proc |-> p, id |-> i, grant |-> g]}
    <3>1. {q \in Procs : pc'[q] = "called"} = {q \in Procs : pc[q] = "called"} \cup {p}
      BY <2>1
    <3>2. QED
      BY <2>1, <3>1 DEF CallsMade, Grant
  <2>8. UNCHANGED <<GrantsIssued, Holders>>
    <3>1. \A q \in Procs : Holding(q)' <=> Holding(q)
      BY <2>1 DEF Holding, HoldingPoints
    <3>2. QED
      BY <2>1, <3>1 DEF GrantsIssued, Holders
  <2>9. Promise!CarryOut(p, i, g)
    BY <2>3, <2>5, <2>6, <2>7, <2>8 DEF Promise!CarryOut
  <2>10. QED
    BY <2>2, <2>4, <2>9 DEF Promise!Next
<1>3. ASSUME NEW f \in Paths, NEW r \in Receipts, WriteReceipt(f, r) PROVE Promise!Next
  <2>1. r.id \in Ids /\ Grant(r) \in Commands \X Instances
    BY ReceiptFields DEF Grant
  <2>2. issued' = [issued EXCEPT ![r.id] = @ \cup {r}] /\ UNCHANGED <<pc, seen, req>>
    BY <1>3 DEF WriteReceipt
  <2>3. \A i \in Ids : issued'[i] = IF i = r.id THEN issued[i] \cup {r} ELSE issued[i]
    BY <2>2
  <2>4. \A i \in Ids : GrantsIssued'[i] = IF i = r.id THEN GrantsIssued[i] \cup {Grant(r)}
                                                      ELSE GrantsIssued[i]
    <3> TAKE i \in Ids
    <3>1. GrantsIssued[i] = {Grant(x) : x \in issued[i]}
      BY DEF GrantsIssued
    <3>2. GrantsIssued'[i] = {Grant(x) : x \in issued'[i]}
      BY DEF GrantsIssued, Grant
    <3>3. {Grant(x) : x \in issued[i] \cup {r}} = {Grant(x) : x \in issued[i]} \cup {Grant(r)}
      OBVIOUS
    <3>4. QED
      BY <2>3, <3>1, <3>2, <3>3
  <2>5. GrantsIssued' = [GrantsIssued EXCEPT ![r.id] = @ \cup {Grant(r)}]
    BY <2>4 DEF GrantsIssued
  <2>6. UNCHANGED <<Holders, CallsMade>>
    BY <2>2, SameHoldersAndCalls
  <2>7. Promise!Issue(r.id, Grant(r))
    BY <2>5, <2>6 DEF Promise!Issue
  <2>8. QED
    BY <2>1, <2>7 DEF Promise!Next
<1>4. ASSUME NEW p \in Procs, ReadReceipt(p) PROVE UNCHANGED Promise!svars
  <2>1. /\ pc[p] = "reading"
        /\ \/ pc' = [pc EXCEPT ![p] = "looking"]
           \/ pc' = [pc EXCEPT ![p] = "refused"]
        /\ \A q \in Procs : q # p => seen'[q] = seen[q]
        /\ UNCHANGED <<req, issued>>
    BY <1>4 DEF ReadReceipt, At, Goto
  <2>2. UNCHANGED <<Holders, CallsMade>>
    BY <2>1, SameHoldersAndCalls DEF HoldingPoints
  <2>3. QED
    BY <2>1, <2>2 DEF Promise!svars, GrantsIssued
<1>5. ASSUME NEW p \in Procs,
             \/ StartUngated(p) \/ StartRefused(p) \/ StartGate(p) \/ LookForMarker(p)
             \/ MarkerExists(p) \/ CreateFails(p) \/ StampMarker(p) \/ StampFails(p)
      PROVE UNCHANGED Promise!svars
  <2>1. /\ UNCHANGED <<req, seen, issued>>
        /\ \A q \in Procs : /\ pc'[q] \in HoldingPoints <=> pc[q] \in HoldingPoints
                            /\ pc'[q] = "called" <=> pc[q] = "called"
    BY <1>5 DEF StartUngated, StartRefused, StartGate, LookForMarker, MarkerExists,
       CreateFails, StampMarker, StampFails, At, Goto, HoldingPoints
  <2>2. UNCHANGED <<Holders, CallsMade>>
    BY <2>1, SameHoldersAndCalls
  <2>3. QED
    BY <2>1, <2>2 DEF Promise!svars, GrantsIssued
<1>6. ASSUME UNCHANGED <<pc, seen, req, issued>> PROVE UNCHANGED Promise!svars
  <2>1. UNCHANGED <<Holders, CallsMade>>
    BY <1>6, SameHoldersAndCalls
  <2>2. QED
    BY <1>6, <2>1 DEF Promise!svars, GrantsIssued
<1>7. ASSUME (\E p \in Procs : Die(p)) \/ (\E f \in Paths : RemoveReceipt(f)) \/ Tick
             \/ UNCHANGED vars
      PROVE UNCHANGED Promise!svars
  BY <1>6, <1>7 DEF Die, RemoveReceipt, Tick, vars
<1>8. QED
  BY <1>1, <1>2, <1>3, <1>4, <1>5, <1>7 DEF Next, Invocation, Operator

(* Invocations, files and markers together keep the operator's promise: an  *)
(* approval lets at most one invocation carry out what it names, once.      *)
THEOREM Refinement == Spec => ImplementsSingleUse
<1>1. QED
  BY PromiseInit, PromiseStep, Invariance, PTL DEF Spec, ImplementsSingleUse, Promise!Spec
=============================================================================
