-------------------------- MODULE ValidationRun_proofs --------------------------
(***************************************************************************)
(* Proofs about ValidationRun, for any number of validators, servers,      *)
(* rosters and receipt directories.                                        *)
(***************************************************************************)
EXTENDS ValidationRun, PilotRoster, TLAPS

(* Points of a validator that made its receipt's directory itself. *)
OwnerPoints == {"made", "opened", "passed"}
Owns(v) == v \in Validators /\ pc[v] \in OwnerPoints

(* The inductive invariant. Whoever is past MakeDir found the directory      *)
(* missing and left it there, so there is one such validator per directory;  *)
(* a passed receipt is its, whatever was written over it in between.         *)
OwnersMadeDir == \A v \in Validators : Owns(v) => dir[into[v]]
OneOwner == \A v, w \in Validators : Owns(v) /\ Owns(w) /\ into[v] = into[w] => v = w
ParsedValid ==
    \A p \in Procs : pc[p] \in {"parsed", "bound"} \cup OwnerPoints => read[p] \in Valid
WriterOf(d, v) ==
    /\ pc[v] = "passed" /\ into[v] = d /\ read[v] \in Valid
    /\ path[v] = receipt[d].path /\ sha[v] = receipt[d].sha
PassedHasWriter ==
    \A d \in Dirs : receipt[d].status = "passed" => \E v \in Validators : WriterOf(d, v)
HashedSha == \A p \in Procs : pc[p] \in {"hashed", "parsed"} \cup OwnerPoints => sha[p] \in Contents

IInv == /\ TypeOK /\ OwnersMadeDir /\ OneOwner /\ ParsedValid
        /\ PassedHasWriter /\ HashedSha /\ BoundUnderReceipt

USE DEF Procs

(* A run starts well typed.                                                 *)
LEMMA InitTyped == Init => TypeOK
  BY ProcsAssumption, ContentsAssumption, DirsAssumption
  DEF Init, TypeOK, Absent, Points

(* Every step keeps it well typed; a receipt needs what was hashed for that. *)
LEMMA NextTyped == TypeOK /\ HashedSha /\ [Next]_vars => TypeOK'
<1> SUFFICES ASSUME TypeOK, HashedSha, [Next]_vars PROVE TypeOK'
    OBVIOUS
<1> USE ProcsAssumption, ContentsAssumption, DirsAssumption DEF TypeOK, Points, Goto
<1>1. CASE UNCHANGED vars
  BY <1>1 DEF vars
<1>2. ASSUME NEW p \in Procs, Load(p) PROVE TypeOK'
  BY <1>2 DEF Load, Hash, NothingToHash, Parse, NothingToParse
<1>3. ASSUME NEW p \in Procs, Die(p) PROVE TypeOK'
  BY <1>3 DEF Die
<1>4. ASSUME NEW v \in Validators, Validate(v) PROVE TypeOK'
  <2>1. CASE MakeDir(v) \/ DirExists(v) \/ MarkFailure(v) \/ FailSilently(v)
    BY <2>1 DEF MakeDir, DirExists, MarkFailure, FailSilently
  <2>2. CASE OpenReceipt(v)
    BY <2>2 DEF OpenReceipt, NotJson
  <2>3. CASE WritePassed(v)
    <3>1. sha[v] \in Contents
      BY <2>3 DEF WritePassed, HashedSha, OwnerPoints
    <3>2. [status |-> "passed", path |-> path[v], sha |-> sha[v]] \in Passed
      BY <3>1 DEF Passed
    <3>3. PICK r \in Passed \cup {NotJson} : receipt' = [receipt EXCEPT ![into[v]] = r]
      BY <2>3, <3>2 DEF WritePassed, Written
    <3>4. QED
      BY <2>3, <3>3 DEF WritePassed
  <2>4. CASE WriteFailed(v)
    <3>2. [status |-> "failed", path |-> path[v], sha |-> NoFile] \in Failed
      BY DEF Failed
    <3>3. PICK r \in Failed \cup {NotJson} : receipt' = [receipt EXCEPT ![into[v]] = r]
      BY <2>4, <3>2 DEF WriteFailed, Written
    <3>4. QED
      BY <2>4, <3>3 DEF WriteFailed
  <2>5. QED
    BY <1>4, <2>1, <2>2, <2>3, <2>4 DEF Validate
<1>5. ASSUME NEW s \in Servers, Serve(s) PROVE TypeOK'
  BY <1>5 DEF Serve, Bind, Refuse
<1>6. ASSUME NEW f \in Paths, NEW c \in Contents \cup {NoFile}, Save(f, c) PROVE TypeOK'
  BY <1>6 DEF Save
<1>7. QED
  BY <1>1, <1>2, <1>3, <1>4, <1>5, <1>6 DEF Next

(* One step at a time: which of the parts of the invariant it can disturb.   *)
LEMMA LoadKeeps ==
    ASSUME IInv, NEW p \in Procs, Load(p) PROVE IInv'
<1> USE ProcsAssumption, ContentsAssumption, DirsAssumption
    DEF Goto, TypeOK, Points, OwnerPoints, Owns
<1>0. TypeOK'
  BY NextTyped DEF IInv, Next
<1>1. OwnersMadeDir' /\ OneOwner'
  BY DEF IInv, Load, Hash, NothingToHash, Parse, NothingToParse, OwnersMadeDir, OneOwner
<1>2. ParsedValid' /\ HashedSha'
  BY DEF IInv, Load, Hash, NothingToHash, Parse, NothingToParse, ParsedValid, HashedSha
<1>3. /\ UNCHANGED <<receipt, dir, into, path>>
      /\ pc[p] \in {"idle", "hashed"} /\ pc'[p] \in {"hashed", "parsed", "invalid", "raised"}
      /\ \A q \in Procs \ {p} : pc'[q] = pc[q] /\ sha'[q] = sha[q] /\ read'[q] = read[q]
  BY DEF IInv, Load, Hash, NothingToHash, Parse, NothingToParse
<1>4. PassedHasWriter'
  BY <1>3 DEF IInv, PassedHasWriter, WriterOf
<1>5. BoundUnderReceipt'
  BY <1>3 DEF IInv, BoundUnderReceipt
<1>6. QED
  BY <1>0, <1>1, <1>2, <1>4, <1>5 DEF IInv

(* Death, a refusal, a save or a step of the failure path: nobody becomes an *)
(* owner, a reader or a writer, and no receipt is made to say passed.        *)
Quiet ==
    /\ UNCHANGED <<path, into, sha, read>>
    /\ \A d \in Dirs : dir[d] => dir'[d]
    /\ \A d \in Dirs : receipt'[d] = receipt[d] \/ receipt'[d].status # "passed"
    /\ \A q \in Procs :
          \/ pc'[q] = pc[q]
          \/ /\ pc[q] # "passed"
             /\ pc'[q] \notin OwnerPoints \cup {"hashed", "parsed", "bound"}

(* Loading, dying and editing a roster keep the invariant.                  *)
LEMMA QuietStepKeeps ==
    ASSUME IInv, TypeOK', Quiet PROVE IInv'
<1> USE ProcsAssumption DEF Owns, OwnerPoints, Quiet
<1>1. OwnersMadeDir' /\ OneOwner'
  BY DEF IInv, OwnersMadeDir, OneOwner, TypeOK
<1>2. ParsedValid' /\ HashedSha'
  BY DEF IInv, ParsedValid, HashedSha
<1>3. PassedHasWriter'
  BY DEF IInv, PassedHasWriter, WriterOf
<1>4. BoundUnderReceipt'
  BY DEF IInv, BoundUnderReceipt
<1>5. QED
  BY <1>1, <1>2, <1>3, <1>4 DEF IInv

(* So does every step of a validator.                                       *)
LEMMA ValidateKeeps ==
    ASSUME IInv, NEW v \in Validators, Validate(v) PROVE IInv'
<1> USE ProcsAssumption, ContentsAssumption, DirsAssumption
    DEF Goto, TypeOK, Points, OwnerPoints, Owns
<1>0. TypeOK'
  BY NextTyped DEF IInv, Next
<1>1. CASE MakeDir(v)
  <2>1. OwnersMadeDir' /\ OneOwner'
    BY <1>1 DEF IInv, MakeDir, OwnersMadeDir, OneOwner
  <2>2. ParsedValid' /\ HashedSha'
    BY <1>1 DEF IInv, MakeDir, ParsedValid, HashedSha
  <2>3. PassedHasWriter' /\ BoundUnderReceipt'
    BY <1>1 DEF IInv, MakeDir, PassedHasWriter, WriterOf, BoundUnderReceipt
  <2>4. QED
    BY <1>0, <2>1, <2>2, <2>3 DEF IInv
<1>2. CASE DirExists(v) \/ MarkFailure(v) \/ FailSilently(v)
  <2>1. Quiet
    BY <1>2 DEF DirExists, MarkFailure, FailSilently, IInv, Quiet
  <2>2. QED
    BY <1>0, <2>1, QuietStepKeeps
<1>3. CASE OpenReceipt(v)
  <2>1. OwnersMadeDir' /\ OneOwner'
    BY <1>3 DEF IInv, OpenReceipt, OwnersMadeDir, OneOwner
  <2>2. ParsedValid' /\ HashedSha'
    BY <1>3 DEF IInv, OpenReceipt, ParsedValid, HashedSha
  <2>3. PassedHasWriter' /\ BoundUnderReceipt'
    BY <1>3 DEF IInv, OpenReceipt, NotJson, PassedHasWriter, WriterOf, BoundUnderReceipt
  <2>4. QED
    BY <1>0, <2>1, <2>2, <2>3 DEF IInv
<1>4. CASE WritePassed(v)
  <2>1. OwnersMadeDir' /\ OneOwner'
    BY <1>4 DEF IInv, WritePassed, OwnersMadeDir, OneOwner
  <2>2. ParsedValid' /\ HashedSha'
    BY <1>4 DEF IInv, WritePassed, ParsedValid, HashedSha
  <2>3. PICK r \in {[status |-> "passed", path |-> path[v], sha |-> sha[v]], NotJson} :
            receipt' = [receipt EXCEPT ![into[v]] = r]
    BY <1>4 DEF WritePassed, Written
  <2>4. WriterOf(into[v], v)' \/ receipt'[into[v]].status # "passed"
    BY <1>4, <2>3 DEF IInv, WritePassed, WriterOf, NotJson, ParsedValid
  <2>5. PassedHasWriter'
    BY <1>4, <2>3, <2>4 DEF IInv, WritePassed, PassedHasWriter, WriterOf
  <2>6. BoundUnderReceipt'
    BY <1>4 DEF IInv, WritePassed, BoundUnderReceipt
  <2>7. QED
    BY <1>0, <2>1, <2>2, <2>5, <2>6 DEF IInv
<1>5. CASE WriteFailed(v)
  <2>1. PICK r \in {[status |-> "failed", path |-> path[v], sha |-> NoFile], NotJson} :
            receipt' = [receipt EXCEPT ![into[v]] = r]
    BY <1>5 DEF WriteFailed, Written
  <2>2. \A d \in Dirs : receipt'[d] = receipt[d] \/ receipt'[d].status # "passed"
    BY <2>1 DEF NotJson, IInv
  <2>3. QED
    <3>1. Quiet
      BY <1>5, <2>2 DEF WriteFailed, IInv, Quiet
    <3>2. QED
      BY <1>0, <3>1, QuietStepKeeps
<1>6. QED
  BY <1>1, <1>2, <1>3, <1>4, <1>5 DEF Validate

(* So does every step of a server.                                          *)
LEMMA ServeKeeps ==
    ASSUME IInv, NEW s \in Servers, Serve(s) PROVE IInv'
<1> USE ProcsAssumption, ContentsAssumption, DirsAssumption
    DEF Goto, TypeOK, Points, OwnerPoints, Owns
<1>0. TypeOK'
  BY NextTyped DEF IInv, Next
<1>1. CASE Bind(s)
  <2>1. OwnersMadeDir' /\ OneOwner' /\ ParsedValid' /\ HashedSha'
    BY <1>1 DEF IInv, Bind, OwnersMadeDir, OneOwner, ParsedValid, HashedSha
  <2>2. PICK v \in Validators : WriterOf(RunDir, v)
    BY <1>1 DEF IInv, Bind, Accepts, PassedHasWriter
  <2>3. /\ pc'[v] = "passed" /\ into'[v] = RunDir /\ read'[v] \in Valid
        /\ path'[v] = path'[s] /\ sha'[v] = sha'[s] /\ read'[s] \in Valid
    BY <1>1, <2>2 DEF IInv, Bind, Accepts, WriterOf, ParsedValid
  <2>4. BoundUnderReceipt'
    BY <1>1, <2>3 DEF IInv, Bind, BoundUnderReceipt
  <2>5. PassedHasWriter'
    BY <1>1 DEF IInv, Bind, PassedHasWriter, WriterOf
  <2>6. QED
    BY <1>0, <2>1, <2>4, <2>5 DEF IInv
<1>2. CASE Refuse(s)
  <2>1. Quiet
    BY <1>2 DEF Refuse, IInv, Quiet
  <2>2. QED
    BY <1>0, <2>1, QuietStepKeeps
<1>3. QED
  BY <1>1, <1>2 DEF Serve

(* The invariant is inductive.                                              *)
LEMMA Inductive == IInv /\ [Next]_vars => IInv'
<1> SUFFICES ASSUME IInv, [Next]_vars PROVE IInv'
    OBVIOUS
<1>0. TypeOK'
  BY NextTyped DEF IInv
<1>1. CASE UNCHANGED vars
  <2>1. Quiet
    BY <1>1 DEF vars, Quiet
  <2>2. QED
    BY <1>0, <2>1, QuietStepKeeps
<1>2. ASSUME NEW p \in Procs, Die(p) PROVE IInv'
  <2>1. Quiet
    BY <1>2 DEF Die, Goto, OwnerPoints, IInv, TypeOK, Quiet
  <2>2. QED
    BY <1>0, <2>1, QuietStepKeeps
<1>3. ASSUME NEW f \in Paths, NEW c \in Contents \cup {NoFile}, Save(f, c) PROVE IInv'
  <2>1. Quiet
    BY <1>3 DEF Save, Quiet
  <2>2. QED
    BY <1>0, <2>1, QuietStepKeeps
<1>4. QED
  BY <1>1, <1>2, <1>3, LoadKeeps, ValidateKeeps, ServeKeeps DEF Next

(* It holds before any process has begun.                                   *)
LEMMA Initially == Init => IInv
<1> SUFFICES ASSUME Init PROVE IInv
    OBVIOUS
<1>1. OwnersMadeDir /\ OneOwner /\ ParsedValid /\ HashedSha
  BY DEF Init, OwnersMadeDir, OneOwner, ParsedValid, HashedSha, Owns, OwnerPoints
<1>2. PassedHasWriter /\ BoundUnderReceipt
  BY ProcsAssumption DEF Init, PassedHasWriter, BoundUnderReceipt, Absent
<1>3. QED
  BY <1>1, <1>2, InitTyped DEF IInv

(* The inductive invariant holds throughout. *)
THEOREM Invariance == Spec => []IInv
  BY Initially, Inductive, PTL DEF Spec

(* Every reachable state is well typed: a receipt is a passed one of a roster *)
(* path and a sha, a failed one, torn or absent.                              *)
THEOREM TypeCorrect == Spec => []TypeOK
<1>1. IInv => TypeOK
  BY DEF IInv
<1>2. QED
  BY <1>1, Invariance, PTL

(* Two validators never both report that they passed with a receipt in the   *)
(* same directory: mkdir(exist_ok=False) in write_validation_receipt decides. *)
THEOREM OnePasses == Spec => []OnlyOnePasses
<1>1. IInv => OnlyOnePasses
  BY DEF IInv, OnlyOnePasses, OneOwner, Owns, OwnerPoints
<1>2. QED
  BY <1>1, Invariance, PTL

(* Whatever a server binds parsed as valid, under a receipt a validator wrote *)
(* for that run, path and sha after it had found a valid roster there.        *)
THEOREM BoundIsReceipted == Spec => []BoundUnderReceipt
<1>1. IInv => BoundUnderReceipt
  BY DEF IInv
<1>2. QED
  BY <1>1, Invariance, PTL

(* All servers of a run bind the same roster path with the same sha, because *)
(* their receipts are of the one validator that passed.                      *)
THEOREM ServersAgree == Spec => []BoundServersAgree
<1>1. IInv => BoundServersAgree
  BY DEF IInv, BoundUnderReceipt, BoundServersAgree, OneOwner, Owns, OwnerPoints
<1>2. QED
  BY <1>1, Invariance, PTL

UsedUp(d) == dir[d] /\ ~Writing(d) /\ receipt[d].status # "passed"

(* No step writes a passed receipt into a used-up directory, or begins to.  *)
LEMMA UsedUpKeeps ==
    ASSUME IInv, [Next]_vars, NEW d \in Dirs, UsedUp(d)
    PROVE  ~Writing(d)' /\ receipt'[d].status # "passed"
<1> USE ProcsAssumption, ContentsAssumption, DirsAssumption
    DEF Goto, TypeOK, IInv, UsedUp, Writing
<1>1. CASE UNCHANGED vars
  BY <1>1 DEF vars
<1>2. ASSUME NEW p \in Procs, Load(p) \/ Die(p)
      PROVE ~Writing(d)' /\ receipt'[d].status # "passed"
  BY <1>2 DEF Load, Hash, NothingToHash, Parse, NothingToParse, Die, Points
<1>3. ASSUME NEW v \in Validators, Validate(v)
      PROVE ~Writing(d)' /\ receipt'[d].status # "passed"
  <2>1. CASE MakeDir(v) \/ DirExists(v) \/ MarkFailure(v) \/ FailSilently(v)
    BY <2>1 DEF MakeDir, DirExists, MarkFailure, FailSilently
  <2>2. CASE OpenReceipt(v)
    BY <2>2 DEF OpenReceipt, NotJson
  <2>3. CASE WritePassed(v)
    BY <2>3 DEF WritePassed
  <2>4. CASE WriteFailed(v)
    <3>1. PICK r \in {[status |-> "failed", path |-> path[v], sha |-> NoFile], NotJson} :
              receipt' = [receipt EXCEPT ![into[v]] = r]
      BY <2>4 DEF WriteFailed, Written
    <3>2. QED
      BY <2>4, <3>1 DEF WriteFailed, NotJson
  <2>5. QED
    BY <1>3, <2>1, <2>2, <2>3, <2>4 DEF Validate
<1>4. ASSUME NEW s \in Servers, Serve(s)
      PROVE ~Writing(d)' /\ receipt'[d].status # "passed"
  BY <1>4 DEF Serve, Bind, Refuse
<1>5. ASSUME NEW f \in Paths, NEW c \in Contents \cup {NoFile}, Save(f, c)
      PROVE ~Writing(d)' /\ receipt'[d].status # "passed"
  BY <1>5 DEF Save
<1>6. QED
  BY <1>1, <1>2, <1>3, <1>4, <1>5 DEF Next

(* A run directory that holds no passed receipt, and that nobody is writing  *)
(* one into, never does: validators find the directory taken.                *)
THEOREM UsedUpForever == Spec => UsedUpStaysUsedUp
<1>1. IInv /\ [Next]_vars =>
        (\A d \in Dirs :
            dir[d] /\ ~Writing(d) /\ receipt[d].status # "passed"
                => ~Writing(d)' /\ receipt'[d].status # "passed")
  BY UsedUpKeeps DEF UsedUp
<1>2. QED
  BY <1>1, Invariance, PTL DEF Spec, UsedUpStaysUsedUp

-----------------------------------------------------------------------------
(* The rules on rosters, one by one, are enough for the runtimes. *)
LEMMA AcceptedServable ==
    ASSUME NEW roster, Accepted(roster)
    PROVE  Servable(roster)
<1> DEFINE rows == DOMAIN roster.instances
           row(i) == roster.instances[i]
<1>1. ASSUME NEW i \in rows, NEW j \in rows, i # j
      PROVE  row(i).id # row(j).id /\ row(i).receipt_root # row(j).receipt_root
  BY <1>1 DEF Accepted, DistinctRows
<1>2. \A id \in ExpectedIds : \E i \in rows : \A j \in rows : row(j).id = id <=> j = i
  <2> SUFFICES ASSUME NEW id \in ExpectedIds
               PROVE  \E i \in rows : \A j \in rows : row(j).id = id <=> j = i
    OBVIOUS
  <2>1. PICK i \in rows : row(i).id = id
    BY DEF Accepted
  <2> QED
    BY <1>1, <2>1
<1>3. ASSUME NEW i \in rows
      PROVE  /\ row(i).base_url = [host |-> Loopback, port |-> row(i).http_port]
             /\ row(i).http_port # NoPort /\ row(i).grpc_port # NoPort
             /\ row(i).receipt_root # ReceiptBase /\ IsPrefix(ReceiptBase, row(i).receipt_root)
  BY DEF Accepted, ServesLocally, Contained
<1>4. ASSUME NEW l \in {"http", "grpc"} \X rows
      PROVE  l \in Listeners(roster)
  <2>1. PICK b \in {"http", "grpc"}, i \in rows : l = <<b, i>>
    BY <1>4
  <2>2. PortAt(roster, l) # NoPort
    BY <1>3, <2>1 DEF PortAt
  <2> QED
    BY <1>4, <2>2 DEF Listeners
<1>5. \A l, m \in {"http", "grpc"} \X rows : PortAt(roster, l) = PortAt(roster, m) => l = m
  BY <1>4 DEF Accepted, DistinctPorts
<1>6. roster.receipt_base = ReceiptBase
  BY DEF Accepted
<1>7. \A i, j \in rows : row(i).receipt_root = row(j).receipt_root => i = j
  BY <1>1
<1>8. \A i \in rows : /\ row(i).base_url.port = row(i).http_port
                      /\ row(i).receipt_root # roster.receipt_base
                      /\ IsPrefix(roster.receipt_base, row(i).receipt_root)
  <2> SUFFICES ASSUME NEW i \in rows
               PROVE  /\ row(i).base_url.port = row(i).http_port
                      /\ row(i).receipt_root # roster.receipt_base
                      /\ IsPrefix(roster.receipt_base, row(i).receipt_root)
    OBVIOUS
  <2>1. row(i).base_url.port = row(i).http_port
    <3>1. row(i).base_url = [host |-> Loopback, port |-> row(i).http_port]
      BY <1>3
    <3> HIDE DEF row
    <3> QED
      BY <3>1
  <2>2. IsPrefix(ReceiptBase, row(i).receipt_root) /\ row(i).receipt_root # ReceiptBase
    BY <1>3
  <2>3. IsPrefix(roster.receipt_base, row(i).receipt_root) /\ row(i).receipt_root # roster.receipt_base
    BY <1>6, <2>2
  <2> QED
    BY <2>1, <2>3
<1> QED
  BY <1>2, <1>4, <1>5, <1>7, <1>8 DEF Servable

(* Whatever roster a server binds, its runtimes can serve it as they take   *)
(* for granted (load_instances_config, then SidecarRuntime).                *)
THEOREM BoundServable == Spec => []BoundIsServable
<1>1. BoundUnderReceipt => BoundIsServable
  BY AcceptedServable DEF BoundUnderReceipt, BoundIsServable, Valid
<1> QED
  BY <1>1, BoundIsReceipted, PTL

-----------------------------------------------------------------------------
(* The triad pilot's own roster. *)

(* The rows are the three expected ones, each with its own ports and receipts. *)
LEMMA RowsFacts ==
    ASSUME NEW Port \in SUBSET Nat, NEW ports \in Reserved(Port)
    PROVE  /\ DOMAIN Rows(ports) = 1..3 /\ Len(Rows(ports)) = 3
           /\ \A i \in 1..3 : Rows(ports)[i].http_port = ports[i] /\ Rows(ports)[i].grpc_port = ports[i + 3]
           /\ {Rows(ports)[i].id : i \in 1..3} = ExpectedIds
           /\ DistinctRows(DefaultRoster(ports))
BY DEF Rows, Row, ExpectedIds, LocalIds, WorkIds, Reserved, DistinctRows, DefaultRoster

(* Each keeps the rules on what it serves and claims to be, *)
LEMMA RowsServe ==
    ASSUME NEW Port \in SUBSET Nat, NEW ports \in Reserved(Port), NEW i \in 1..3
    PROVE  ServesLocally(Rows(ports)[i]) /\ StaysSynthetic(Rows(ports)[i])
<1> USE DEF Rows, Row, Reserved, LocalIds, WorkIds, ExpectedIds, AgentIds, InForce
<1>1. CASE i = 1
  BY <1>1 DEF ServesLocally, StaysSynthetic
<1>2. CASE i = 2
  BY <1>2 DEF ServesLocally, StaysSynthetic
<1>3. CASE i = 3
  BY <1>3 DEF ServesLocally, StaysSynthetic
<1> QED
  BY <1>1, <1>2, <1>3

(* and the rules on where its receipts go. *)
LEMMA RowsContained ==
    ASSUME NEW Port \in SUBSET Nat, NEW ports \in Reserved(Port), NEW i \in 1..3
    PROVE  Contained(Rows(ports)[i])
<1>1. \A slug : IsPrefix(<<"receipts">>, <<"receipts", slug>>) /\ <<"receipts", slug>> # <<"receipts">>
  BY DEF IsPrefix
<1> QED
  BY <1>1 DEF Rows, Row, Contained, ReceiptBase

(* The roster that the pilot writes (default_config_data) is accepted, for    *)
(* whatever six ports the operating system reserved for it.                   *)
THEOREM DefaultAccepted ==
    ASSUME NEW Port \in SUBSET Nat, NEW ports \in Reserved(Port)
    PROVE  Accepted(DefaultRoster(ports))
<1> DEFINE roster == DefaultRoster(ports)
           rows == Rows(ports)
<1>1. /\ roster.typed /\ ~ roster.secret_like
      /\ roster.schema_version = 1 /\ roster.config_status = "validated"
      /\ roster.receipt_base = ReceiptBase /\ ~ roster.symlinked
      /\ roster.instances = rows
  BY DEF DefaultRoster
<1>2. \A l \in Listeners(roster) :
          /\ l[1] \in {"http", "grpc"} /\ l[2] \in 1..3
          /\ PortAt(roster, l) = ports[IF l[1] = "http" THEN l[2] ELSE l[2] + 3]
          /\ l = <<l[1], l[2]>>
  BY <1>1, RowsFacts DEF Listeners, PortAt
<1>3. DistinctPorts(roster)
  <2> SUFFICES ASSUME NEW l \in Listeners(roster), NEW m \in Listeners(roster),
                      PortAt(roster, l) = PortAt(roster, m)
               PROVE  l = m
    BY DEF DistinctPorts
  <2> HIDE DEF roster
  <2> DEFINE at(k) == IF k[1] = "http" THEN k[2] ELSE k[2] + 3
  <2>1. at(l) \in 1..6 /\ at(m) \in 1..6 /\ ports[at(l)] = ports[at(m)]
    BY <1>2
  <2>2. at(l) = at(m)
    <3> HIDE DEF at
    <3> QED
      BY <2>1 DEF Reserved
  <2> QED
    BY <1>2, <2>2
<1> QED
  BY <1>1, <1>3, RowsFacts, RowsServe, RowsContained DEF Accepted

(* Each fault that negative_validation_evidence puts into it is denied, for   *)
(* whatever ports; that assertion of the pilot cannot fail.                   *)
THEOREM VariantsDenied ==
    ASSUME NEW Port \in SUBSET Nat, NEW ports \in Reserved(Port), NEW variant \in Variants(DefaultRoster(ports))
    PROVE  ~ Accepted(variant)
<1> DEFINE roster == DefaultRoster(ports)
<1>0. /\ roster.instances = Rows(ports) /\ Rows(ports) = <<Rows(ports)[1], Rows(ports)[2], Rows(ports)[3]>>
      /\ \A i \in 1..3 : Rows(ports)[i].http_port = ports[i]
  BY RowsFacts DEF DefaultRoster, Rows
<1>1. ASSUME NEW host \in {"0.0.0.0", "::", "::1", "192.168.1.55"},
             variant = [roster EXCEPT !.instances[1].host = host]
      PROVE  ~ Accepted(variant)
  <2>1. 1 \in DOMAIN variant.instances /\ variant.instances[1].host = host
    BY <1>1 DEF DefaultRoster, Rows, Row
  <2>2. host # Loopback
    BY DEF Loopback
  <2> QED
    BY <2>1, <2>2 DEF Accepted, ServesLocally
<1>2. ASSUME variant = [roster EXCEPT !.instances[2].http_port = roster.instances[1].http_port]
      PROVE  ~ DistinctPorts(variant) /\ ~ ServesLocally(variant.instances[2]) /\ 2 \in DOMAIN variant.instances
  <2>1. /\ {1, 2} \subseteq DOMAIN variant.instances
        /\ variant.instances[1].http_port = ports[1] /\ variant.instances[2].http_port = ports[1]
        /\ variant.instances[2].base_url = [host |-> Loopback, port |-> ports[2]]
    BY <1>2 DEF DefaultRoster, Rows, Row
  <2>2. ports[1] # NoPort /\ ports[1] # ports[2]
    BY DEF Reserved
  <2>3. /\ <<"http", 1>> \in Listeners(variant) /\ <<"http", 2>> \in Listeners(variant)
        /\ PortAt(variant, <<"http", 1>>) = PortAt(variant, <<"http", 2>>)
    BY <2>1, <2>2 DEF Listeners, PortAt
  <2>4. ~ DistinctPorts(variant)
    BY <2>3 DEF DistinctPorts
  <2>5. [host |-> Loopback, port |-> ports[2]] # [host |-> Loopback, port |-> ports[1]]
    <3>1. [host |-> Loopback, port |-> ports[2]].port # [host |-> Loopback, port |-> ports[1]].port
      BY <2>2
    <3> QED
      BY <3>1
  <2> QED
    BY <2>1, <2>4, <2>5 DEF ServesLocally
<1>3. ASSUME variant = [roster EXCEPT !.instances[1].receipt_root = <<"tmp", "hermes-a2a-outside-receipts">>]
      PROVE  ~ Accepted(variant)
  <2>1. /\ 1 \in DOMAIN variant.instances
        /\ variant.instances[1].receipt_root = <<"tmp", "hermes-a2a-outside-receipts">>
    BY <1>3 DEF DefaultRoster, Rows, Row
  <2>2. ~ IsPrefix(ReceiptBase, <<"tmp", "hermes-a2a-outside-receipts">>)
    BY DEF IsPrefix, ReceiptBase
  <2> QED
    BY <2>1, <2>2 DEF Accepted, Contained
<1>4. ASSUME \/ variant = [roster EXCEPT !.instances[1].auth_mode = "none"]
             \/ variant = [roster EXCEPT !.instances[1].live_execution_enabled = TRUE]
      PROVE  ~ Accepted(variant)
  <2>1. /\ 1 \in DOMAIN variant.instances
        /\ variant.instances[1].auth_mode = "none" \/ variant.instances[1].live_execution_enabled
    BY <1>4 DEF DefaultRoster, Rows, Row
  <2>2. ~ ServesLocally(variant.instances[1]) \/ ~ StaysSynthetic(variant.instances[1])
    BY <2>1, "none" # "test_ephemeral" DEF ServesLocally, StaysSynthetic
  <2> QED
    BY <2>1, <2>2 DEF Accepted
<1>5. ASSUME variant = [roster EXCEPT !.secret_like = TRUE]
      PROVE  ~ Accepted(variant)
  BY <1>5 DEF Accepted, DefaultRoster
<1> QED
  BY <1>1, <1>2, <1>3, <1>4, <1>5 DEF Variants, Accepted

-----------------------------------------------------------------------------
(* The promise of OneRoster. *)

(* What decides and what binds, and nothing else, shows in the promise. *)
Undecided ==
    /\ UNCHANGED <<path, into>>
    /\ \A p \in Procs :
          \/ pc'[p] = pc[p] /\ sha'[p] = sha[p] /\ read'[p] = read[p]
          \/ pc[p] \notin {"passed", "bound"} /\ pc'[p] \notin {"passed", "bound"}

(* A step of neither kind is none of the promise's. *)
LEMMA NothingDecided ==
    ASSUME Undecided
    PROVE  UNCHANGED Promise!rvars
<1> USE DEF Undecided
<1>1. ASSUME NEW d \in Dirs
      PROVE  {[path |-> path[v], sha |-> sha[v]] : v \in {w \in Validators : pc[w] = "passed" /\ into[w] = d}}
             = {[path |-> path'[v], sha |-> sha'[v]] : v \in {w \in Validators : pc'[w] = "passed" /\ into'[w] = d}}
  OBVIOUS
<1>2. BoundRosters' = BoundRosters
  BY DEF BoundRosters
<1> QED
  BY <1>1, <1>2 DEF Promise!rvars, DecidedRosters

(* No validator has passed and no server has bound before any has begun. *)
LEMMA PromiseInit == Init => Promise!Init
  BY DEF Init, Promise!Init, DecidedRosters, BoundRosters

(* The validator that passes decides for its directory. *)
LEMMA PassingDecides ==
    ASSUME IInv, NEW v \in Validators, WritePassed(v)
    PROVE  Promise!Decide(into[v], path[v], sha[v])
<1> DEFINE one == [path |-> path[v], sha |-> sha[v]]
<1>1. /\ pc[v] = "opened" /\ pc' = [pc EXCEPT ![v] = "passed"]
      /\ UNCHANGED <<path, into, sha, read>>
  BY DEF WritePassed, Goto
<1>2. \A w \in Validators : pc[w] = "passed" => into[w] # into[v]
  BY <1>1 DEF IInv, OneOwner, Owns, OwnerPoints
<1>3. /\ into[v] \in Dirs /\ pc \in [Procs -> Points]
      /\ \A w \in Validators : pc'[w] = IF w = v THEN "passed" ELSE pc[w]
  BY <1>1 DEF IInv, TypeOK
<1>4. DecidedRosters[into[v]] = {}
  BY <1>2, <1>3 DEF DecidedRosters
<1>5. DecidedRosters' = [DecidedRosters EXCEPT ![into[v]] = {one}]
  <2>1. ASSUME NEW d \in Dirs
        PROVE  {[path |-> path'[w], sha |-> sha'[w]] : w \in {u \in Validators : pc'[u] = "passed" /\ into'[u] = d}}
               = IF d = into[v] THEN {one} ELSE DecidedRosters[d]
    BY <1>1, <1>2, <1>3 DEF DecidedRosters
  <2> QED
    BY <1>3, <2>1 DEF DecidedRosters
<1>6. BoundRosters' = BoundRosters
  <2>1. \A s \in Servers : pc'[s] = pc[s]
    BY <1>1, <1>3, ProcsAssumption
  <2> QED
    BY <1>1, <2>1 DEF BoundRosters
<1> QED
  BY <1>4, <1>5, <1>6 DEF Promise!Decide

(* The server that binds binds what was decided for the run. *)
LEMMA BindingBinds ==
    ASSUME IInv, NEW s \in Servers, Bind(s)
    PROVE  Promise!Bind(s, path[s], sha[s], read[s])
<1> DEFINE one == [server |-> s, path |-> path[s], sha |-> sha[s], content |-> read[s]]
<1>1. /\ pc[s] = "parsed" /\ pc' = [pc EXCEPT ![s] = "bound"]
      /\ UNCHANGED <<path, into, sha, read>>
      /\ receipt[RunDir].status = "passed"
      /\ receipt[RunDir].sha = sha[s] /\ receipt[RunDir].path = path[s]
  BY DEF Bind, Accepts, Goto
<1>2. \A p \in Procs : pc'[p] = IF p = s THEN "bound" ELSE pc[p]
  BY <1>1 DEF IInv, TypeOK
<1>3. PICK v \in Validators : WriterOf(RunDir, v)
  BY <1>1, DirsAssumption DEF IInv, PassedHasWriter
<1>4. [path |-> path[s], sha |-> sha[s]] \in DecidedRosters[RunDir]
  BY <1>1, <1>3, DirsAssumption DEF WriterOf, DecidedRosters
<1>5. \A b \in BoundRosters : b.server # s
  BY <1>1 DEF BoundRosters
<1>6. BoundRosters' = BoundRosters \cup {one}
  <2>1. {z \in Servers : pc'[z] = "bound"} = {z \in Servers : pc[z] = "bound"} \cup {s}
    BY <1>2
  <2> QED
    BY <1>1, <2>1 DEF BoundRosters
<1>7. DecidedRosters' = DecidedRosters
  <2>1. \A v_1 \in Validators : pc'[v_1] = pc[v_1]
    BY <1>2, ProcsAssumption
  <2> QED
    BY <1>1, <2>1 DEF DecidedRosters
<1> QED
  BY <1>4, <1>5, <1>6, <1>7 DEF Promise!Bind

(* Every step is a step of the promise, or none. *)
LEMMA PromiseStep == IInv /\ [Next]_vars => [Promise!Next]_(Promise!rvars)
<1> SUFFICES ASSUME IInv, [Next]_vars PROVE [Promise!Next]_(Promise!rvars)
    OBVIOUS
<1>0. /\ pc \in [Procs -> Points] /\ path \in [Procs -> Paths] /\ into \in [Procs -> Dirs]
      /\ sha \in [Procs -> Contents \cup {NoFile}] /\ read \in [Procs -> Contents \cup {NoFile}]
  BY DEF IInv, TypeOK
<1>1. ASSUME NEW v \in Validators, WritePassed(v) PROVE Promise!Next
  <2>1. path[v] \in Paths /\ into[v] \in Dirs /\ sha[v] \in Contents
    BY <1>0, <1>1 DEF WritePassed, IInv, HashedSha, OwnerPoints
  <2> QED
    BY <1>1, <2>1, PassingDecides DEF Promise!Next
<1>2. ASSUME NEW s \in Servers, Bind(s) PROVE Promise!Next
  <2>1. path[s] \in Paths /\ sha[s] \in Contents /\ read[s] \in Valid
    BY <1>0, <1>2 DEF Bind, IInv, HashedSha, ParsedValid
  <2> QED
    BY <1>2, <2>1, BindingBinds DEF Promise!Next
<1>3. ASSUME NEW p \in Procs, Load(p) \/ Die(p) PROVE UNCHANGED Promise!rvars
  <2>1. Undecided
    BY <1>0, <1>3 DEF Load, Hash, NothingToHash, Parse, NothingToParse, Die, Goto, Undecided
  <2> QED
    BY <2>1, NothingDecided
<1>4. ASSUME NEW v \in Validators, Validate(v), ~ WritePassed(v) PROVE UNCHANGED Promise!rvars
  <2>1. Undecided
    BY <1>0, <1>4 DEF Validate, MakeDir, DirExists, MarkFailure, FailSilently, OpenReceipt, WriteFailed, Goto, Undecided
  <2> QED
    BY <2>1, NothingDecided
<1>5. ASSUME NEW s \in Servers, Refuse(s) PROVE UNCHANGED Promise!rvars
  <2>1. Undecided
    BY <1>0, <1>5 DEF Refuse, Goto, Undecided
  <2> QED
    BY <2>1, NothingDecided
<1>6. ASSUME (\E f \in Paths, c \in Contents \cup {NoFile} : Save(f, c)) \/ UNCHANGED vars
      PROVE  UNCHANGED Promise!rvars
  <2>1. Undecided
    BY <1>6 DEF Save, vars, Undecided
  <2> QED
    BY <2>1, NothingDecided
<1> QED
  BY <1>1, <1>2, <1>3, <1>4, <1>5, <1>6 DEF Next, Serve

(* However its validators and servers race, die and find the roster edited   *)
(* or the receipt torn, a run id keeps the promise of OneRoster              *)
(* (write_validation_receipt, _validate_existing_receipt).                   *)
THEOREM Refinement == Spec => ImplementsOneRoster
  BY PromiseInit, PromiseStep, Invariance, PTL DEF Spec, ImplementsOneRoster, Promise!Spec
================================================================================
