-------------------------- MODULE PilotEvidence_proofs --------------------------
(***************************************************************************)
(* Proofs about PilotEvidence, for any number of runs, ids and kinds.      *)
(***************************************************************************)
EXTENDS PilotEvidence, TLAPS

Active(r) == pc[r] \notin {"idle", "over"}
Dir(r) == <<kind[r], id[r]>>
Own(r) == receipt[kind[r]][id[r]]

(* The points before a run has opened its receipt, and after it is whole. *)
Early == {"exercise", "negative", "negative_open", "receipt"}
Late == {"synthesis", "synthesis_open", "hash", "readback", "passed"}
Judged == {"negative", "negative_open", "receipt", "receipt_open"} \cup Late

(* A run has a directory, which no other active run has; where there is no   *)
(* directory nothing was written yet.                                        *)
HasDir(r) == Active(r) => Dir(r) \in dirs
Alone == \A r, q \in Runs : r # q /\ Active(r) /\ Active(q) => Dir(r) # Dir(q)
Untouched ==
    \A k \in Kinds, i \in Ids : <<k, i>> \notin dirs =>
        receipt[k][i] = NoReceipt /\ (k = "lan" => negative[i] = "none")

(* Its receipt is what it wrote so far. *)
WritesReceipt(r) ==
    /\ pc[r] \in Early => Own(r) = NoReceipt
    /\ pc[r] = "receipt_open" => Own(r) = Torn
    /\ pc[r] \in Late => Own(r) = [status |-> Status(r), held |-> held[r]]
    /\ pc[r] = "passed" => Status(r) = "passed"

(* So is a LAN pilot's negative receipt, on which its status rests; only a   *)
(* LAN pilot probes.                                                         *)
WritesNegative(r) ==
    /\ pc[r] \in {"negative", "negative_open"} => kind[r] = "lan"
    /\ kind[r] = "lan" /\ pc[r] \in {"exercise", "negative"} => negative[id[r]] = "none"
    /\ pc[r] = "negative_open" => negative[id[r]] = "torn"
    /\ kind[r] = "lan" /\ pc[r] \in Judged =>
          ("unreachable" \in held[r] <=> probe[r] = "proven" \/ supplied[r])
    /\ kind[r] = "lan" /\ pc[r] \in Judged \ {"negative", "negative_open"}
          /\ probe[r] = "proven" => negative[id[r]] = "passed"

RunInv(r) == HasDir(r) /\ WritesReceipt(r) /\ WritesNegative(r)

(* The inductive invariant. *)
IInv == TypeOK /\ Alone /\ Untouched /\ \A r \in Runs : RunInv(r)

-----------------------------------------------------------------------------
(* The pilots' state is well typed (PilotEvidence's actions). *)
THEOREM TypeCorrect == Spec => []TypeOK
<1>1. Init => TypeOK
  BY NoIdAssumption DEF Init, TypeOK, Points, Over, Verdicts, Files, Probes, Text, Nothing,
     Empty, Mixed, NoReceipt
<1>2. TypeOK /\ [Next]_vars => TypeOK'
  <2> SUFFICES ASSUME TypeOK, [Next]_vars PROVE TypeOK'
    OBVIOUS
  <2> USE DEF TypeOK, evidence, asked, Goto, Points, Over, Verdicts
  <2>1. ASSUME NEW r \in Runs, MakeDir(r) PROVE TypeOK'
    BY <2>1 DEF MakeDir
  <2>2. ASSUME NEW r \in Runs, Exercise(r) PROVE TypeOK'
    BY <2>2 DEF Exercise, Assertions
  <2>3. ASSUME NEW r \in Runs, ExerciseLan(r) PROVE TypeOK'
    <3>1. PICK h \in SUBSET {"exercised"}, found \in Probes :
              /\ probe' = [probe EXCEPT ![r] = found]
              /\ held' = [held EXCEPT ![r] = h \cup {a \in {"unreachable"} : NegativeProof(r, found)}]
              /\ Goto(r, IF found = "none" THEN "receipt" ELSE "negative")
      BY <2>3 DEF ExerciseLan
    <3>2. h \cup {a \in {"unreachable"} : NegativeProof(r, found)} \subseteq Assertions
      BY DEF Assertions
    <3> QED
      BY <2>3, <3>1, <3>2 DEF ExerciseLan
  <2>4. ASSUME NEW r \in Runs, OpenNegative(r) \/ FillNegative(r) PROVE TypeOK'
    BY <2>4 DEF OpenNegative, FillNegative, Files
  <2>5. ASSUME NEW r \in Runs, OpenReceipt(r) \/ FillReceipt(r) PROVE TypeOK'
    <3>1. Torn \in Receipts \cup {NoReceipt, Torn} /\ [status |-> Status(r), held |-> held[r]] \in Receipts
      BY DEF Status, Receipts
    <3>2. PICK f \in Receipts \cup {NoReceipt, Torn} : receipt' = [receipt EXCEPT ![kind[r]][id[r]] = f]
      BY <2>5, <3>1 DEF OpenReceipt, FillReceipt
    <3>3. receipt' \in [Kinds -> [Ids -> Receipts \cup {NoReceipt, Torn}]]
      BY <3>2
    <3> QED
      BY <2>5, <3>3 DEF OpenReceipt, FillReceipt
  <2>6. ASSUME NEW r \in Runs, OpenSynthesis(r) PROVE TypeOK'
    BY <2>6 DEF OpenSynthesis
  <2>7. ASSUME NEW r \in Runs, FillSynthesis(r) PROVE TypeOK'
    <3>1. [id |-> id[r], says |-> Says(r), proven |-> Proven(r)] \in Text
      BY DEF Says, Status, Proven, Text, Assertions
    <3>2. PICK t \in Text \cup {Mixed} : synthesis' = [synthesis EXCEPT ![kind[r]] = t]
      BY <2>7, <3>1 DEF FillSynthesis
    <3>3. synthesis' \in [Kinds -> Text \cup {Nothing, Empty, Mixed}]
      BY <3>2
    <3> QED
      BY <2>7, <3>3 DEF FillSynthesis
  <2>8. ASSUME NEW r \in Runs, Hash(r) PROVE TypeOK'
    BY <2>8 DEF Hash
  <2>9. ASSUME NEW r \in Runs, ReadBack(r) \/ Stops(r) PROVE TypeOK'
    BY <2>9 DEF ReadBack, Stops, Status
  <2>10. CASE UNCHANGED vars
    BY <2>10 DEF vars
  <2> QED
    BY <2>1, <2>2, <2>3, <2>4, <2>5, <2>6, <2>7, <2>8, <2>9, <2>10 DEF Next, Run
<1> QED
  BY <1>1, <1>2, PTL DEF Spec

-----------------------------------------------------------------------------
(* The invariant is inductive. *)

(* A run writes no receipt but its own. *)
WritesOwn(r) ==
    /\ \A k \in Kinds, i \in Ids : <<k, i>> # Dir(r) => receipt'[k][i] = receipt[k][i]
    /\ \A i \in Ids : ~(kind[r] = "lan" /\ id[r] = i) => negative'[i] = negative[i]

(* The others' part of the invariant, and what is shared, outlive its step. *)
LEMMA OthersUnmoved ==
    ASSUME IInv, TypeOK', NEW r \in Runs, Active(r), WritesOwn(r),
           UNCHANGED <<dirs, asked>>,
           \A q \in Runs \ {r} :
              pc'[q] = pc[q] /\ probe'[q] = probe[q] /\ held'[q] = held[q]
    PROVE  Alone' /\ Untouched' /\ \A q \in Runs \ {r} : RunInv(q)'
<1> USE DEF IInv, asked
<1>1. Alone'
  BY DEF Alone, Active, Dir
<1>2. Dir(r) \in dirs /\ kind[r] \in Kinds /\ id[r] \in Ids
  BY DEF RunInv, HasDir, TypeOK
<1>3. Untouched'
  BY <1>2 DEF Untouched, WritesOwn, Dir
<1>4. ASSUME NEW q \in Runs \ {r} PROVE RunInv(q)'
  <2>1. CASE ~Active(q)
    BY <2>1, <1>4 DEF Active, RunInv, HasDir, WritesReceipt, WritesNegative, Early, Late, Judged
  <2>2. CASE Active(q)
    <3>1. Dir(q) # Dir(r) /\ kind[q] \in Kinds /\ id[q] \in Ids
      BY <1>4, <2>2 DEF Alone, TypeOK
    <3>2. Own(q)' = Own(q)
      BY <3>1 DEF Own, Dir, WritesOwn
    <3>3. kind[q] = "lan" => negative'[id[q]] = negative[id[q]]
      BY <3>1 DEF Dir, WritesOwn
    <3>4. HasDir(q)'
      BY <1>4 DEF RunInv, HasDir, Active, Dir
    <3>5. WritesReceipt(q)'
      BY <1>4, <3>2 DEF RunInv, WritesReceipt, Own, Status
    <3>6. WritesNegative(q)'
      BY <1>4, <3>3 DEF RunInv, WritesNegative
    <3> QED
      BY <3>4, <3>5, <3>6 DEF RunInv
  <2> QED
    BY <2>1, <2>2
<1> QED
  BY <1>1, <1>3, <1>4

(* Overwriting an entry of a function of functions writes that entry. *)
LEMMA Overwritten ==
    ASSUME NEW K, NEW I, NEW F, NEW g \in [K -> [I -> F]], NEW k \in K, NEW i \in I, NEW f \in F
    PROVE  [g EXCEPT ![k][i] = f][k][i] = f
  OBVIOUS

(* Every step of PilotEvidence preserves the invariant. *)
LEMMA Inductive == IInv /\ TypeOK' /\ [Next]_vars => IInv'
<1> SUFFICES ASSUME IInv, TypeOK', [Next]_vars PROVE IInv'
  OBVIOUS
<1> USE DEF Goto, evidence, asked
<1>1. ASSUME NEW r \in Runs, MakeDir(r) PROVE IInv'
  <2>1. ~Active(r) /\ Dir(r) \notin dirs /\ Dir(r) \in dirs' /\ dirs \subseteq dirs'
    BY <1>1 DEF MakeDir, Active, Dir
  <2>2. Alone'
    BY <1>1, <2>1 DEF MakeDir, IInv, TypeOK, Alone, Active, Dir, RunInv, HasDir
  <2>3. Untouched'
    BY <1>1, <2>1 DEF MakeDir, IInv, Untouched
  <2>4. RunInv(r)'
    <3>1. Own(r) = NoReceipt /\ (kind[r] = "lan" => negative[id[r]] = "none")
      BY <2>1 DEF IInv, TypeOK, Untouched, Dir, Own
    <3>2. pc'[r] = "exercise"
      BY <1>1 DEF MakeDir, IInv, TypeOK
    <3>3. HasDir(r)'
      BY <1>1, <2>1 DEF MakeDir, HasDir, Dir
    <3>4. WritesReceipt(r)'
      BY <1>1, <3>1, <3>2 DEF MakeDir, WritesReceipt, Own, Late
    <3>5. WritesNegative(r)'
      BY <1>1, <3>1, <3>2 DEF MakeDir, WritesNegative, Judged, Late
    <3> QED
      BY <3>3, <3>4, <3>5 DEF RunInv
  <2>5. ASSUME NEW q \in Runs \ {r} PROVE RunInv(q)'
    <3>1. pc'[q] = pc[q] /\ UNCHANGED <<receipt, negative, kind, id, supplied, probe, held>>
      BY <1>1, <2>5 DEF MakeDir, IInv, TypeOK
    <3>2. HasDir(q)' /\ WritesReceipt(q)' /\ WritesNegative(q)'
      BY <2>1, <2>5, <3>1 DEF IInv, RunInv, HasDir, Active, Dir, WritesReceipt, Own, Status, WritesNegative
    <3> QED
      BY <3>2 DEF RunInv
  <2> QED
    BY <2>2, <2>3, <2>4, <2>5 DEF IInv
<1>2. ASSUME NEW r \in Runs, Active(r), Run(r) PROVE IInv'
  <2>1. /\ UNCHANGED <<dirs, asked>>
        /\ \A q \in Runs \ {r} :
               pc'[q] = pc[q] /\ probe'[q] = probe[q] /\ held'[q] = held[q]
    BY <1>2 DEF IInv, TypeOK, Run, Active, MakeDir, Exercise, ExerciseLan, OpenNegative,
       FillNegative, OpenReceipt, FillReceipt, OpenSynthesis, FillSynthesis, Hash, ReadBack, Stops
  <2>2. pc[r] \in {"negative", "negative_open"} => kind[r] = "lan"
    BY <1>2 DEF IInv, RunInv, WritesNegative
  <2>3. WritesOwn(r)
    BY <1>2, <2>2 DEF IInv, TypeOK, WritesOwn, Dir, Run, Active, MakeDir, Exercise, ExerciseLan,
       OpenNegative, FillNegative, OpenReceipt, FillReceipt, OpenSynthesis, FillSynthesis, Hash,
       ReadBack, Stops
  <2>4. HasDir(r)'
    BY <1>2, <2>1 DEF IInv, RunInv, HasDir, Dir
  <2>5. WritesReceipt(r)' /\ WritesNegative(r)'
    <3> USE DEF IInv, TypeOK, RunInv, WritesReceipt, WritesNegative, Own, Early, Late, Judged
    <3>1. CASE Exercise(r)
      <4>1. /\ pc[r] = "exercise" /\ pc'[r] = "receipt" /\ kind[r] # "lan"
            /\ UNCHANGED <<receipt, negative, kind, id>>
        BY <3>1 DEF Exercise
      <4> QED
        BY <4>1
    <3>2. CASE ExerciseLan(r)
      <4>1. PICK h \in SUBSET {"exercised"}, found \in Probes :
                /\ probe' = [probe EXCEPT ![r] = found]
                /\ held' = [held EXCEPT ![r] = h \cup {a \in {"unreachable"} : NegativeProof(r, found)}]
                /\ Goto(r, IF found = "none" THEN "receipt" ELSE "negative")
        BY <3>2 DEF ExerciseLan
      <4>2. pc[r] = "exercise" /\ kind[r] = "lan" /\ UNCHANGED <<receipt, negative, kind, id, supplied>>
        BY <3>2 DEF ExerciseLan
      <4>3. "unreachable" \in held'[r] <=> probe'[r] = "proven" \/ supplied[r]
        BY <4>1 DEF NegativeProof
      <4>4. pc'[r] = IF probe'[r] = "none" THEN "receipt" ELSE "negative"
        BY <4>1
      <4> QED
        BY <4>2, <4>3, <4>4
    <3>3. CASE OpenNegative(r) \/ FillNegative(r)
      <4>1. /\ \/ pc[r] = "negative" /\ pc'[r] = "negative_open" /\ negative'[id[r]] = "torn"
               \/ /\ pc[r] = "negative_open" /\ pc'[r] = "receipt"
                  /\ negative'[id[r]] = IF probe[r] = "proven" THEN "passed" ELSE "failed"
            /\ UNCHANGED <<receipt, kind, id, supplied, probe, held>>
        BY <3>3 DEF OpenNegative, FillNegative
      <4> QED
        BY <4>1
    <3>4. CASE OpenReceipt(r) \/ FillReceipt(r)
      <4> DEFINE f == IF pc[r] = "receipt" THEN Torn ELSE [status |-> Status(r), held |-> held[r]]
      <4>1. f \in Receipts \cup {NoReceipt, Torn} /\ receipt' = [receipt EXCEPT ![kind[r]][id[r]] = f]
        BY <3>4 DEF OpenReceipt, FillReceipt, Receipts, Status, Verdicts
      <4>2. receipt'[kind[r]][id[r]] = f
        BY <4>1, Overwritten
      <4>3. /\ UNCHANGED <<negative, kind, id, supplied, probe, held>>
            /\ \/ pc[r] = "receipt" /\ pc'[r] = "receipt_open"
               \/ pc[r] = "receipt_open" /\ pc'[r] = "synthesis"
        BY <3>4 DEF OpenReceipt, FillReceipt
      <4>4. WritesReceipt(r)'
        BY <4>1, <4>2, <4>3 DEF Status
      <4>5. WritesNegative(r)'
        BY <4>3
      <4> QED
        BY <4>4, <4>5
    <3>5. CASE OpenSynthesis(r) \/ FillSynthesis(r) \/ Hash(r)
      <4>1. /\ pc[r] \in Late /\ pc'[r] \in Late \ {"passed"}
            /\ UNCHANGED <<receipt, negative, kind, id, supplied, probe, held>>
        BY <3>5 DEF OpenSynthesis, FillSynthesis, Hash
      <4> QED
        BY <4>1 DEF Status
    <3>6. CASE ReadBack(r)
      <4>1. /\ pc[r] = "readback" /\ pc'[r] \in {Status(r), "failed"} /\ Status(r)' = Status(r)
            /\ UNCHANGED <<receipt, negative, kind, id, supplied, probe, held>>
        BY <3>6 DEF ReadBack, Status
      <4>2. pc'[r] \in {"passed", "failed", "blocked"}
        BY <4>1 DEF Status
      <4> QED
        BY <4>1, <4>2
    <3>7. CASE Stops(r)
      BY <1>2, <3>7 DEF Stops
    <3> QED
      BY <1>2, <3>1, <3>2, <3>3, <3>4, <3>5, <3>6, <3>7 DEF Run, MakeDir, Active
  <2> QED
    BY <1>2, <2>1, <2>3, <2>4, <2>5, OthersUnmoved DEF IInv, RunInv
<1>3. ASSUME NEW r \in Runs, ~Active(r), Stops(r) PROVE IInv'
  <2>1. UNCHANGED <<evidence, asked, probe, held>>
    BY <1>3 DEF Stops
  <2>2. pc'[r] = "over" /\ \A q \in Runs \ {r} : pc'[q] = pc[q]
    BY <1>3 DEF Stops, IInv, TypeOK
  <2>3. Alone' /\ Untouched'
    BY <2>1, <2>2 DEF IInv, Alone, Active, Dir, Untouched
  <2>4. ASSUME NEW q \in Runs PROVE RunInv(q)'
    BY <2>1, <2>2, <2>4 DEF IInv, RunInv, HasDir, Active, Dir, WritesReceipt, Own,
       Status, WritesNegative, Early, Late, Judged
  <2> QED
    BY <2>3, <2>4 DEF IInv
<1>4. CASE UNCHANGED vars
  BY <1>4 DEF vars, IInv, Alone, Active, Dir, Untouched, RunInv, HasDir, WritesReceipt, Own,
     Status, WritesNegative
<1> QED
  BY <1>1, <1>2, <1>3, <1>4 DEF Next, Run, Active, Exercise, ExerciseLan, OpenNegative,
     FillNegative, OpenReceipt, FillReceipt, OpenSynthesis, FillSynthesis, Hash, ReadBack

(* The invariant holds of every reachable state. *)
THEOREM Invariant == Spec => []IInv
<1>1. Init => Alone /\ Untouched /\ \A r \in Runs : RunInv(r)
  BY DEF Init, Alone, Active, Untouched, RunInv, HasDir, WritesReceipt, WritesNegative, Early,
     Late, Judged
<1>2. Init /\ TypeOK => IInv
  BY <1>1 DEF IInv
<1> QED
  BY <1>2, TypeCorrect, Inductive, PTL DEF Spec

-----------------------------------------------------------------------------
(* What follows. *)

(* A passed verdict is backed by a receipt of its own run, and a LAN pilot's *)
(* by a proof of unreachability: PassedIsBacked.                             *)
THEOREM Backed == Spec => []PassedIsBacked
<1>1. IInv => PassedIsBacked
  <2> SUFFICES ASSUME IInv, NEW r \in Runs, pc[r] = "passed"
               PROVE  /\ receipt[kind[r]][id[r]].status = "passed"
                      /\ \A q \in Runs \ {r} : <<kind[q], id[q]>> = <<kind[r], id[r]>> =>
                             pc[q] \in {"idle", "over"}
                      /\ kind[r] = "lan" /\ ~supplied[r] => negative[id[r]] = "passed"
    BY DEF PassedIsBacked
  <2>1. Status(r) = "passed" /\ receipt[kind[r]][id[r]].status = "passed"
    <3>1. Status(r) = "passed" /\ Own(r) = [status |-> Status(r), held |-> held[r]]
      BY DEF IInv, RunInv, WritesReceipt, Late
    <3> QED
      BY <3>1 DEF Own
  <2>2. ASSUME NEW q \in Runs \ {r}, <<kind[q], id[q]>> = <<kind[r], id[r]>>
        PROVE  pc[q] \in {"idle", "over"}
    BY <2>2 DEF IInv, Alone, Active, Dir
  <2>3. kind[r] = "lan" /\ ~supplied[r] => negative[id[r]] = "passed"
    BY <2>1 DEF IInv, RunInv, WritesNegative, Judged, Late, Status, Assertions
  <2> QED
    BY <2>1, <2>2, <2>3
<1> QED
  BY <1>1, Invariant, PTL

(* How far InconclusiveIsBlocked is wrong: a LAN pilot whose own probe did   *)
(* not prove unreachability passes only with a supplied receipt, whose       *)
(* existence is all that is looked at (run_pilot of the LAN pilot).         *)
THEOREM OnlyTheSuppliedExcuses ==
    Spec => [](\A r \in Runs : kind[r] = "lan" /\ pc[r] = "passed" => probe[r] = "proven" \/ supplied[r])
<1>1. IInv => \A r \in Runs : kind[r] = "lan" /\ pc[r] = "passed" => probe[r] = "proven" \/ supplied[r]
  BY DEF IInv, RunInv, WritesReceipt, WritesNegative, TypeOK, Judged, Late, Status, Assertions
<1> QED
  BY <1>1, Invariant, PTL

(* No step changes a complete receipt: it would be its own run's, which has *)
(* not written one yet.                                                     *)
LEMMA WholeStays ==
    ASSUME IInv, TypeOK', [Next]_vars
    PROVE  /\ \A k \in Kinds, i \in Ids :
                 receipt[k][i] \in Receipts => receipt'[k][i] = receipt[k][i]
           /\ \A i \in Ids : negative[i] \in Verdicts => negative'[i] = negative[i]
<1> USE DEF Goto, evidence
<1>1. ASSUME NEW r \in Runs, OpenReceipt(r) \/ FillReceipt(r)
      PROVE  \A k \in Kinds, i \in Ids :
                 receipt[k][i] \in Receipts => receipt'[k][i] = receipt[k][i]
  <2>1. Own(r) \notin Receipts
    BY <1>1 DEF IInv, RunInv, WritesReceipt, Early, OpenReceipt, FillReceipt, Receipts, NoReceipt, Torn, Verdicts
  <2>2. \A k \in Kinds, i \in Ids : <<k, i>> # Dir(r) => receipt'[k][i] = receipt[k][i]
    BY <1>1 DEF IInv, TypeOK, Dir, OpenReceipt, FillReceipt
  <2> QED
    BY <2>1, <2>2 DEF Own, Dir
<1>2. ASSUME NEW r \in Runs, OpenNegative(r) \/ FillNegative(r)
      PROVE  \A i \in Ids : negative[i] \in Verdicts => negative'[i] = negative[i]
  <2>1. negative[id[r]] \notin Verdicts
    BY <1>2 DEF IInv, RunInv, WritesNegative, OpenNegative, FillNegative, Verdicts
  <2> QED
    BY <1>2, <2>1 DEF IInv, TypeOK, OpenNegative, FillNegative
<1>3. CASE UNCHANGED vars
  BY <1>3 DEF vars
<1>4. ASSUME NEW r \in Runs, Run(r),
             ~(OpenReceipt(r) \/ FillReceipt(r) \/ OpenNegative(r) \/ FillNegative(r))
      PROVE  UNCHANGED <<receipt, negative>>
  BY <1>4 DEF Run, MakeDir, Exercise, ExerciseLan, OpenSynthesis, FillSynthesis, Hash, ReadBack,
     Stops
<1>5. ASSUME NEW r \in Runs, OpenReceipt(r) \/ FillReceipt(r) PROVE UNCHANGED negative
  BY <1>5 DEF OpenReceipt, FillReceipt
<1>6. ASSUME NEW r \in Runs, OpenNegative(r) \/ FillNegative(r) PROVE UNCHANGED receipt
  BY <1>6 DEF OpenNegative, FillNegative
<1>7. CASE Next
  <2>1. PICK r \in Runs : Run(r)
    BY <1>7 DEF Next
  <2>2. CASE OpenReceipt(r) \/ FillReceipt(r)
    BY <1>1, <1>5, <2>2
  <2>3. CASE OpenNegative(r) \/ FillNegative(r)
    BY <1>2, <1>6, <2>3
  <2> QED
    BY <1>4, <2>1, <2>2, <2>3
<1> QED
  BY <1>3, <1>7

(* No complete receipt is touched again: ReceiptsAreFinal. *)
THEOREM Final == Spec => ReceiptsAreFinal
<1>1. IInv /\ TypeOK' /\ [Next]_vars =>
        [/\ \A k \in Kinds, i \in Ids :
              receipt[k][i] \in Receipts => receipt'[k][i] = receipt[k][i]
         /\ \A i \in Ids : negative[i] \in Verdicts => negative'[i] = negative[i]]_vars
  BY WholeStays
<1> QED
  BY <1>1, Invariant, TypeCorrect, PTL DEF Spec, ReceiptsAreFinal

(* How a whole synthesis and the receipt of the run it names agree.          *)
Agrees(k) ==
    LET text == synthesis[k]
        told == receipt[k][text.id]
    IN  /\ told \in Receipts
        /\ told.status = text.says \/ (k = "triad" /\ told.status = "failed" /\ text.says = "passed")
        /\ text.proven \subseteq told.held \cup {"exercised"} /\ "exercised" \in text.proven
        /\ told.status = "passed" => text.proven \subseteq told.held

AllAgree == \A k \in Kinds : synthesis[k] \in Text => Agrees(k)

LEMMA AgreesStep ==
    ASSUME IInv, TypeOK', AllAgree, [Next]_vars
    PROVE  AllAgree'
<1> SUFFICES ASSUME NEW k \in Kinds, synthesis'[k] \in Text PROVE Agrees(k)'
  BY DEF AllAgree
<1> USE DEF Goto, evidence, asked
<1>1. CASE synthesis'[k] = synthesis[k]
  <2>1. synthesis[k].id \in Ids /\ Agrees(k)
    BY <1>1 DEF Text, AllAgree
  <2>2. receipt'[k][synthesis[k].id] = receipt[k][synthesis[k].id]
    BY <2>1, WholeStays DEF Agrees
  <2> QED
    BY <1>1, <2>1, <2>2 DEF Agrees
<1>2. CASE synthesis'[k] # synthesis[k]
  <2>1. PICK r \in Runs : OpenSynthesis(r) \/ FillSynthesis(r)
    BY <1>2 DEF Next, Run, vars, MakeDir, Exercise, ExerciseLan, OpenNegative, FillNegative,
       OpenReceipt, FillReceipt, Hash, ReadBack, Stops
  <2>2. k = kind[r]
    BY <1>2, <2>1 DEF IInv, TypeOK, OpenSynthesis, FillSynthesis
  <2>3. Empty \notin Text /\ Mixed \notin Text
    BY NoIdAssumption DEF Empty, Mixed, Text
  <2>4. FillSynthesis(r) /\ synthesis'[k] = [id |-> id[r], says |-> Says(r), proven |-> Proven(r)]
    BY <2>1, <2>2, <2>3 DEF IInv, TypeOK, OpenSynthesis, FillSynthesis
  <2>5. receipt'[k][id[r]] = [status |-> Status(r), held |-> held[r]]
    BY <2>2, <2>4 DEF IInv, RunInv, WritesReceipt, Own, Late, FillSynthesis
  <2>6. [status |-> Status(r), held |-> held[r]] \in Receipts
    BY DEF IInv, TypeOK, Receipts, Status, Verdicts
  <2>7. "exercised" \in Proven(r) /\ Proven(r) \subseteq held[r] \cup {"exercised"}
    BY <2>4 DEF IInv, RunInv, WritesNegative, Judged, Late, FillSynthesis, Proven
  <2>8. Status(r) = "passed" => Proven(r) \subseteq held[r]
    BY <2>7 DEF Status, Assertions
  <2>9. Status(r) = Says(r) \/ (k = "triad" /\ Status(r) = "failed" /\ Says(r) = "passed")
    BY <2>2 DEF Status, Says
  <2> QED
    BY <2>4, <2>5, <2>6, <2>7, <2>8, <2>9 DEF Agrees
<1> QED
  BY <1>1, <1>2

LEMMA AllAgreeHolds == Spec => []AllAgree
<1>1. Init => AllAgree
  BY NoIdAssumption DEF Init, AllAgree, Text, Nothing
<1> QED
  BY <1>1, AgreesStep, Invariant, TypeCorrect, PTL DEF Spec

(* How far SynthesisIsReceipted is wrong, whatever runs there are: of the    *)
(* run it names a whole synthesis gives another status than its receipt in   *)
(* one case, a triad's that failed; and it lists as proven what the receipt  *)
(* does not bear out exactly where what the run exercised did not hold,      *)
(* whichever pilot it is (the constant lines under "Proven").                *)
THEOREM HowSynthesesDiffer ==
    Spec => [](\A k \in Kinds : synthesis[k] \in Text =>
                  LET text == synthesis[k]
                      told == receipt[k][text.id]
                  IN  /\ \/ told.status = text.says
                         \/ k = "triad" /\ told.status = "failed" /\ text.says = "passed"
                      /\ text.proven \subseteq told.held <=> "exercised" \in told.held)
<1>1. AllAgree => (\A k \in Kinds : synthesis[k] \in Text =>
                  LET text == synthesis[k]
                      told == receipt[k][text.id]
                  IN  /\ \/ told.status = text.says
                         \/ k = "triad" /\ told.status = "failed" /\ text.says = "passed"
                      /\ text.proven \subseteq told.held <=> "exercised" \in told.held)
  BY DEF AllAgree, Agrees
<1> QED
  BY <1>1, AllAgreeHolds, PTL

(* So where no triad runs, the receipt of a run has the status that the      *)
(* synthesis gives it, and bears out what it says of the reachability and of *)
(* a run that passed: StatusIsReceipted.                                     *)
THEOREM Receipted ==
    ASSUME "triad" \notin Kinds
    PROVE  Spec => []StatusIsReceipted
<1>1. AllAgree => StatusIsReceipted
  BY DEF AllAgree, Agrees, StatusIsReceipted
<1> QED
  BY <1>1, AllAgreeHolds, PTL
================================================================================
