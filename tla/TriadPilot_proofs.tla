---------------------------- MODULE TriadPilot_proofs ----------------------------
(***************************************************************************)
(* Proofs about TriadPilot, for any number of sidecars and whatever other  *)
(* processes do. The group that the pilot drives keeps its invariant IInv  *)
(* (SidecarGroup_proofs), which the pilot's own invariants build on.       *)
(***************************************************************************)
EXTENDS TriadPilot, SidecarGroup_proofs

(* The places at which the sidecar r is asked. *)
HttpPlace(r, k) == 4 * (r - 1) + k
GrpcPlace(r, k) == 4 * N + 2 * (r - 1) + k

Places(r) ==
    {HttpPlace(r, 1), HttpPlace(r, 2), HttpPlace(r, 3), HttpPlace(r, 4), GrpcPlace(r, 1), GrpcPlace(r, 2)}

LEMMA LengthIs == HttpAsks = 4 * N /\ Length = 6 * N
<1>1. Len(HttpKinds) = 4 /\ Len(GrpcKinds) = 2
  BY DEF HttpKinds, GrpcKinds
<1> QED
  BY <1>1, NAssumption DEF HttpAsks, Length

LEMMA ScriptIs ==
    ASSUME NEW r \in Runtimes
    PROVE  /\ Places(r) \subseteq 1 .. Length
           /\ Script[HttpPlace(r, 1)] = <<r, "card">>
           /\ Script[HttpPlace(r, 2)] = <<r, "jsonrpc">>
           /\ Script[HttpPlace(r, 3)] = <<r, "rest">>
           /\ Script[HttpPlace(r, 4)] = <<r, "denied">>
           /\ Script[GrpcPlace(r, 1)] = <<r, "send">>
           /\ Script[GrpcPlace(r, 2)] = <<r, "get">>
<1>1. Places(r) \subseteq 1 .. Length
  BY LengthIs, NAssumption DEF Places, HttpPlace, GrpcPlace, Runtimes
<1>2. Len(HttpKinds) = 4 /\ Len(GrpcKinds) = 2
  BY DEF HttpKinds, GrpcKinds
<1>3. ASSUME NEW k \in 1 .. 4 PROVE Script[HttpPlace(r, k)] = <<r, HttpKinds[k]>>
  <2>1. HttpPlace(r, k) \in 1 .. Length /\ HttpPlace(r, k) <= HttpAsks
    BY LengthIs, NAssumption DEF HttpPlace, Runtimes
  <2>2. (HttpPlace(r, k) - 1) \div 4 = r - 1 /\ (HttpPlace(r, k) - 1) % 4 = k - 1
    BY DEF HttpPlace, Runtimes
  <2> QED
    BY <1>2, <2>1, <2>2 DEF Script, InTurn, Runtimes
<1>4. ASSUME NEW k \in 1 .. 2 PROVE Script[GrpcPlace(r, k)] = <<r, GrpcKinds[k]>>
  <2>1. GrpcPlace(r, k) \in 1 .. Length /\ ~ (GrpcPlace(r, k) <= HttpAsks)
    BY LengthIs, NAssumption DEF GrpcPlace, Runtimes
  <2>2. (GrpcPlace(r, k) - 4 * N - 1) \div 2 = r - 1 /\ (GrpcPlace(r, k) - 4 * N - 1) % 2 = k - 1
    BY NAssumption DEF GrpcPlace, Runtimes
  <2> QED
    BY <1>2, <2>1, <2>2, LengthIs DEF Script, InTurn, Runtimes
<1> QED
  BY <1>1, <1>3, <1>4 DEF HttpKinds, GrpcKinds

(* There are no other places. *)
LEMMA EveryPlace ==
    ASSUME NEW i \in 1 .. Length
    PROVE  \E r \in Runtimes : i \in Places(r)
<1>1. CASE i <= 4 * N
  <2> DEFINE r == ((i - 1) \div 4) + 1
  <2>1. r \in Runtimes /\ 4 * (r - 1) <= i - 1 /\ i - 1 < 4 * (r - 1) + 4
    BY <1>1, LengthIs, NAssumption DEF Runtimes
  <2>2. i \in Places(r)
    BY <2>1 DEF Places, HttpPlace, Runtimes
  <2> QED
    BY <2>1, <2>2
<1>2. CASE i > 4 * N
  <2> DEFINE r == ((i - 4 * N - 1) \div 2) + 1
  <2>1. r \in Runtimes /\ 2 * (r - 1) <= i - 4 * N - 1 /\ i - 4 * N - 1 < 2 * (r - 1) + 2
    BY <1>2, LengthIs, NAssumption DEF Runtimes
  <2>2. i \in Places(r)
    BY <2>1, NAssumption DEF Places, GrpcPlace, Runtimes
  <2> QED
    BY <2>1, <2>2
<1> QED
  BY <1>1, <1>2, LengthIs, NAssumption

LEMMA KindsAre ==
    /\ ToSet(HttpKinds) = {"card", "jsonrpc", "rest", "denied"} /\ HttpKinds[1] = "card"
    /\ ToSet(GrpcKinds) = {"send", "get"}
  BY DEF ToSet, HttpKinds, GrpcKinds

(* What is asked after what, of the same sidecar; nothing is asked twice. *)
LEMMA Order ==
    ASSUME NEW i \in 1 .. Length
    PROVE  /\ Script[i] \in Asks /\ Script[i] = <<Script[i][1], Script[i][2]>>
           /\ i = 1 => Script[i][2] = "card"
           /\ Script[i][2] = "jsonrpc" => i > 1 /\ Script[i - 1] = <<Script[i][1], "card">>
           /\ Script[i][2] = "rest" => i > 1 /\ Script[i - 1] = <<Script[i][1], "jsonrpc">>
           /\ Script[i][2] = "denied" => i > 1 /\ Script[i - 1] = <<Script[i][1], "rest">>
           /\ Script[i][2] = "get" => i > 1 /\ Script[i - 1] = <<Script[i][1], "send">>
<1>1. PICK r \in Runtimes : i \in Places(r)
  BY EveryPlace
<1>2. /\ HttpPlace(r, 2) - 1 = HttpPlace(r, 1) /\ HttpPlace(r, 3) - 1 = HttpPlace(r, 2)
      /\ HttpPlace(r, 4) - 1 = HttpPlace(r, 3) /\ GrpcPlace(r, 2) - 1 = GrpcPlace(r, 1)
      /\ HttpPlace(r, 2) > 1 /\ HttpPlace(r, 3) > 1 /\ HttpPlace(r, 4) > 1
      /\ GrpcPlace(r, 1) > 1 /\ GrpcPlace(r, 2) > 1
  BY NAssumption DEF HttpPlace, GrpcPlace, Runtimes
<1> QED
  BY <1>1, <1>2, ScriptIs, KindsAre DEF Places, Asks

LEMMA OnceEach ==
    ASSUME NEW i \in 1 .. Length, NEW j \in 1 .. Length, Script[i] = Script[j]
    PROVE  i = j
<1>1. PICK r \in Runtimes : i \in Places(r)
  BY EveryPlace
<1>2. PICK q \in Runtimes : j \in Places(q)
  BY EveryPlace
<1>3. r = q
  BY <1>1, <1>2, ScriptIs DEF Places
<1> QED
  BY <1>1, <1>2, <1>3, ScriptIs DEF Places

-----------------------------------------------------------------------------
(* The pilot and the group.                                                 *)

LEMMA StepsOfGroup ==
    ASSUME [PilotNext]_tvars
    PROVE  [Next]_vars \/ (Exit /\ ProcessDies)
<1> USE DEF Next, Start, Stop, Uvicorn
<1>1. CASE UNCHANGED tvars
  BY <1>1 DEF tvars, vars
<1>2. CASE SeeDuring \/ Ask \/ Judge
  BY <1>2 DEF SeeDuring, Ask, AskOther, AskHttp, AskHttpFails, AskGrpcSend, AskGrpcGet, AskRaises, Judge
<1>3. CASE LeaveBlock \/ Exit
  BY <1>3 DEF LeaveBlock, Exit
<1>4. CASE PilotNext /\ ~ (SeeDuring \/ Ask \/ Judge \/ LeaveBlock \/ Exit)
  BY <1>4 DEF PilotNext, Ask
<1> QED
  BY <1>1, <1>2, <1>3, <1>4

LEMMA GroupStep ==
    ASSUME IInv, [PilotNext]_tvars
    PROVE  IInv'
<1>1. CASE [Next]_vars
  BY <1>1, Inductive
<1>2. CASE ProcessDies
  BY <1>2 DEF ProcessDies, IInv, TypeOK, StartOrder, ServeAll, StopOrder, Starting, Stopping, Ending
<1> QED
  BY <1>1, <1>2, StepsOfGroup

LEMMA GroupInvariance == PilotSpec => []IInv
<1>1. PilotInit => IInv
  BY Initial DEF PilotInit
<1> QED
  BY <1>1, GroupStep, PTL DEF PilotSpec

(* The group that the pilot enters, asks and leaves keeps its promises, also *)
(* when the pilot's process ends in the middle (SidecarGroup's entry, exit).  *)
THEOREM PilotGroup == PilotSpec => [](StoppedMeansClosed /\ ServesOnOwnListeners)
  BY InvCloses, InvServes, GroupInvariance, PTL

(* All that the pilot does to its group are steps of SidecarGroup, from one *)
(* of its initial states, except that it ends the process (run_pilot's use  *)
(* of the group, and asyncio.run's end).                                    *)
THEOREM DrivesTheGroup == PilotSpec => Init /\ [][Next \/ ProcessDies]_vars
<1>1. PilotInit => Init
  BY DEF PilotInit
<1>2. [PilotNext]_tvars => [Next \/ ProcessDies]_vars
  BY StepsOfGroup
<1> QED
  BY <1>1, <1>2, PTL DEF PilotSpec

(* What PilotEnds says of the end, without that it comes: nothing listens   *)
(* for a pilot whose process has ended, and nothing of it happens any more. *)
Ended == pc = "dead" => \A p \in Ports : port[p] # "ours"

LEMMA NothingAfterTheEnd ==
    ASSUME pc = "dead", [PilotNext]_tvars
    PROVE  UNCHANGED tvars
<1> USE DEF Waiting, Starting, Stopping
<1>1. ~ (Launch \/ LaunchRefused \/ HttpAnswers \/ GrpcBind \/ GrpcBindFails \/ GrpcStarted \/ GrpcAnswers \/ StartInterrupted)
  BY DEF Launch, LaunchRefused, HttpAnswers, GrpcBind, GrpcBindFails, GrpcStarted, GrpcAnswers, StartInterrupted
<1>2. ~ (SeeDuring \/ AskOther \/ AskHttp \/ AskHttpFails \/ AskGrpcSend \/ AskGrpcGet \/ AskRaises \/ Judge \/ Exit)
  BY DEF SeeDuring, Asking, AskOther, AskHttp, AskHttpFails, AskGrpcSend, AskGrpcGet, AskRaises, Judge, Exit
<1>3. ~ (LeaveBlock \/ StopGrpc \/ StopHttp \/ HttpReturned \/ StopHttpTimesOut \/ StopCancelled \/ Stopped)
  BY DEF LeaveBlock, Leave, StopGrpc, StopHttp, HttpReturned, StopHttpTimesOut, StopCancelled, Stopped
<1>4. \A r \in Runtimes : ~ UvicornBinds(r) /\ ~ UvicornCannotBind(r)
  BY DEF UvicornBinds, UvicornCannotBind
<1> QED
  BY <1>1, <1>2, <1>3, <1>4 DEF PilotNext

(* Whenever the pilot's process has ended, its listeners are closed, and    *)
(* neither the pilot nor its group takes a step again (Exit, uvicorn's own  *)
(* exit): together with PilotEnds, it ends once and for all.                *)
THEOREM EndIsFinal == PilotSpec => [](pc = "dead" => \A p \in Ports : port[p] # "ours") /\ [][pc # "dead"]_tvars
<1>1. PilotInit => Ended
  BY DEF PilotInit, Init, Ended
<1>2. IInv /\ Ended /\ [PilotNext]_tvars => Ended'
  <2> SUFFICES ASSUME IInv, Ended, [PilotNext]_tvars, pc' = "dead", NEW p \in Ports PROVE port'[p] # "ours"
    BY DEF Ended
  <2>1. CASE pc = "dead"
    BY <2>1, NothingAfterTheEnd DEF Ended, tvars, vars
  <2>2. CASE pc # "dead"
    <3>1. ProcessDies
      <4>1. CASE [Next]_vars
        <5>1. ~ (Launch \/ LaunchRefused \/ HttpAnswers \/ GrpcBind \/ GrpcBindFails \/ GrpcStarted \/ GrpcAnswers \/ StartInterrupted)
          BY <2>2 DEF Launch, LaunchRefused, HttpAnswers, GrpcBind, GrpcBindFails, GrpcStarted, GrpcAnswers,
             StartInterrupted, StartFails, StartNext
        <5>2. ~ (Leave \/ StopGrpc \/ StopHttp \/ HttpReturned \/ StopHttpTimesOut \/ StopCancelled \/ Stopped)
          BY <2>2 DEF Leave, StopGrpc, StopHttp, HttpReturned, StopHttpTimesOut, StopCancelled, Stopped, StopNext, Over
        <5>3. /\ \A r \in Runtimes : ~ UvicornBinds(r)
              /\ \A q \in Ports : ~ (ForeignTakes(q) \/ ForeignReleases(q))
          BY <2>2 DEF UvicornBinds, ForeignTakes, ForeignReleases
        <5>4. Next
          BY <2>2, <4>1 DEF vars
        <5>5. \E r \in Runtimes : UvicornCannotBind(r)
          BY <5>1, <5>2, <5>3, <5>4, Zenon DEF Next, Start, Stop, Uvicorn
        <5> QED
          BY <5>5 DEF UvicornCannotBind
      <4> QED
        BY <4>1, StepsOfGroup
    <3> QED
      BY <3>1 DEF ProcessDies
  <2> QED
    BY <2>1, <2>2
<1>3. [PilotNext]_tvars => [pc # "dead"]_tvars
  BY NothingAfterTheEnd
<1>4. Ended <=> (pc = "dead" => \A p \in Ports : port[p] # "ours")
  BY DEF Ended
<1> QED
  BY <1>1, <1>2, <1>3, <1>4, GroupInvariance, PTL DEF PilotSpec

-----------------------------------------------------------------------------
(* Types.                                                                   *)

PilotVarsOK ==
    /\ turn \in 0 .. Length + 1
    /\ conn \in {"none", "ours", "foreign"}
    /\ answer \in [Asks -> {"none", "ours", "foreign", "wrong"}]
    /\ tasks \in [Runtimes \X {"http", "grpc"} -> SUBSET {"jsonrpc", "rest", "denied", "send"}]
    /\ during \in BOOLEAN /\ raised \in BOOLEAN /\ disturbed \in BOOLEAN
    /\ verdict \in {"none", "passed", "failed"}

(* A group step leaves the pilot's own state as it is, disturbed apart. *)
LEMMA PilotOrGroup ==
    ASSUME [PilotNext]_tvars
    PROVE  \/ SeeDuring \/ Ask \/ Judge
           \/ UNCHANGED pilot /\ disturbed' \in {disturbed, TRUE}
<1> USE DEF Quiet, Disturb, LeaveBlock, Exit
<1> QED
  BY DEF PilotNext, tvars, Ask

LEMMA Target ==
    ASSUME Asking
    PROVE  /\ turn \in 1 .. Length
           /\ Asked \in Runtimes
           /\ Kind \in {"card", "jsonrpc", "rest", "denied", "send", "get"}
           /\ <<Asked, Kind>> = Script[turn] /\ <<Asked, Kind>> \in Asks
  BY Order, KindsAre DEF Asking, Asked, Kind, Asks

LEMMA PilotTypes ==
    ASSUME PilotVarsOK, [PilotNext]_tvars
    PROVE  PilotVarsOK'
<1> USE DEF PilotVarsOK
<1>1. Length \in Nat
  BY LengthIs, NAssumption
<1>2. CASE SeeDuring \/ Judge
  <2>1. SeeDuring => during' \in BOOLEAN
    BY Zenon DEF SeeDuring
  <2>2. CASE SeeDuring
    BY <1>1, <2>1, <2>2 DEF SeeDuring
  <2>3. CASE Judge
    BY <2>3 DEF Judge
  <2> QED
    BY <1>2, <2>2, <2>3
<1>3. CASE Ask
  <2>1. Asking
    BY <1>3 DEF Ask, AskOther, AskHttp, AskHttpFails, AskGrpcSend, AskGrpcGet, AskRaises
  <2>2. turn + 1 \in 0 .. Length + 1
    BY <1>1, <2>1, Target
  <2>3. \A a \in {"none", "ours", "foreign", "wrong"} :
            Answered(a) => answer' \in [Asks -> {"none", "ours", "foreign", "wrong"}]
    BY <2>1, Target DEF Answered
  <2>4. \A b \in {"http", "grpc"} : Keep(b) /\ Kind \in {"jsonrpc", "rest", "denied", "send"} =>
            tasks' \in [Runtimes \X {"http", "grpc"} -> SUBSET {"jsonrpc", "rest", "denied", "send"}]
    BY <2>1, Target DEF Keep
  <2>5. CASE AskOther \/ AskHttpFails
    BY <2>2, <2>3, <2>5 DEF AskOther, AskHttpFails
  <2>6. CASE AskHttp
    BY <2>2, <2>3, <2>4, <2>6 DEF AskHttp, Executes, HttpSends
  <2>7. CASE AskGrpcSend
    BY <2>2, <2>3, <2>4, <2>7 DEF AskGrpcSend
  <2>8. Raise => /\ answer' \in [Asks -> {"none", "ours", "foreign", "wrong"}]
                 /\ turn' \in 0 .. Length + 1 /\ raised' \in BOOLEAN
    BY <1>1 DEF Raise
  <2>9. CASE AskRaises
    BY <2>8, <2>9 DEF AskRaises
  <2>10. CASE AskGrpcGet
    BY <2>2, <2>3, <2>8, <2>10 DEF AskGrpcGet
  <2> QED
    BY <1>3, <2>5, <2>6, <2>7, <2>9, <2>10 DEF Ask
<1>4. CASE UNCHANGED pilot /\ disturbed' \in {disturbed, TRUE}
  BY <1>4 DEF pilot
<1> QED
  BY <1>2, <1>3, <1>4, PilotOrGroup

LEMMA PilotTypesHold == PilotSpec => []PilotVarsOK
<1>1. PilotInit => PilotVarsOK
  <2>1. 0 \in 0 .. Length + 1
    BY LengthIs, NAssumption
  <2> QED
    BY <2>1 DEF PilotInit, PilotVarsOK
<1> QED
  BY <1>1, PilotTypes, PTL DEF PilotSpec

(* The pilot's and its group's state is well typed (run_pilot). *)
THEOREM PilotTypeCorrect == PilotSpec => []PilotTypeOK
<1>1. IInv /\ PilotVarsOK => PilotTypeOK
  BY DEF IInv, PilotVarsOK, PilotTypeOK
<1> QED
  BY <1>1, PilotTypesHold, GroupInvariance, PTL

-----------------------------------------------------------------------------
(* Who answered. Nothing is asked before the group serves, and only what is *)
(* at hand is answered.                                                     *)

AfterServing == {"serving", "leaving", "leaving_http", "left", "dead"}
Served == turn # 0 => pc \in AfterServing
NotYet == \A i \in 1 .. Length : turn <= i => answer[Script[i]] = "none"

(* The client that asks a sidecar after its card holds a connection to it   *)
(* only if its server has bound, and keeps it while that server answers.    *)
Late == {"jsonrpc", "rest", "denied"}
ConnIsServed == pc = "serving" /\ turn \in 1 .. Length /\ Kind \in Late /\ conn = "ours" => http[Asked] = "serving"
ConnIsKept ==
    pc = "serving" /\ turn \in 1 .. Length /\ Kind = "denied" /\ answer[<<Asked, "rest">>] = "ours" => conn = "ours"

(* Another process completes no task, and refuses no peer where the sidecar *)
(* completed one.                                                           *)
OthersAnswer == \A q \in Asks : answer[q] = "foreign" => q[2] \in {"card", "denied"}
OneAnswerer == \A r \in Runtimes : answer[<<r, "rest">>] = "ours" => answer[<<r, "denied">>] # "foreign"
Passed == verdict = "passed" => pc \in {"left", "dead"} /\ \A q \in Asks : answer[q] \in {"ours", "foreign"}

AskInv ==
    Served /\ NotYet /\ ConnIsServed /\ ConnIsKept /\ OthersAnswer /\ OneAnswerer /\ Passed

LEMMA GroupMoves ==
    ASSUME IInv, [Next]_vars \/ ProcessDies
    PROVE  /\ pc' = "serving" /\ pc # "serving" => pc \in Starting
           /\ pc' = "serving" /\ pc = "serving" => \A r \in Runtimes : http[r] = "serving" => http'[r] = "serving"
           /\ pc \in AfterServing => pc' \in AfterServing
           /\ pc \in {"left", "dead"} => pc' \in {"left", "dead"}
<1> USE DEF IInv, TypeOK, Starting, Stopping, AfterServing
<1>1. CASE Launch \/ LaunchRefused \/ GrpcBind \/ GrpcBindFails \/ GrpcStarted \/ StartInterrupted
  BY <1>1 DEF Launch, LaunchRefused, GrpcBind, GrpcBindFails, GrpcStarted, StartInterrupted, StartFails
<1>2. CASE HttpAnswers \/ GrpcAnswers
  BY <1>2 DEF HttpAnswers, GrpcAnswers, StartNext
<1>3. CASE Leave \/ Stop
  BY <1>3 DEF Leave, Stop, StopGrpc, StopHttp, HttpReturned, StopHttpTimesOut, StopCancelled, HttpTaskCancelled, StopNext, Stopped, Over
<1>4. CASE \E r \in Runtimes : Uvicorn(r)
  BY <1>4 DEF Uvicorn, UvicornBinds, UvicornCannotBind, ProcessDies, Waiting
<1>5. CASE \E p \in Ports : ForeignTakes(p) \/ ForeignReleases(p)
  BY <1>5 DEF ForeignTakes, ForeignReleases
<1>6. CASE ProcessDies \/ UNCHANGED vars
  BY <1>6 DEF ProcessDies, vars
<1> QED
  BY <1>1, <1>2, <1>3, <1>4, <1>5, <1>6 DEF Next, Start

LEMMA AskInitial == PilotInit => AskInv
  BY Order, KindsAre DEF PilotInit, Init, AskInv, Served, NotYet, ConnIsServed, ConnIsKept, OthersAnswer,
     OneAnswerer, Passed, Asks

(* Steps of the group, and the process's end. *)
LEMMA AskGroupStep ==
    ASSUME IInv, PilotVarsOK, AskInv, UNCHANGED pilot, [PilotNext]_tvars
    PROVE  AskInv'
<1> USE DEF pilot, AskInv
<1>1. [Next]_vars \/ ProcessDies
  BY StepsOfGroup
<1>2. Served' /\ Passed'
  BY <1>1, GroupMoves DEF Served, Passed
<1>3. ASSUME pc' = "serving", turn # 0
      PROVE  pc = "serving" /\ \A r \in Runtimes : http[r] = "serving" => http'[r] = "serving"
  BY <1>1, <1>3, GroupMoves DEF Served, AfterServing, Starting
<1>4. Asked' = Asked /\ Kind' = Kind
  BY DEF Asked, Kind
<1>5. turn \in 1 .. Length => Asked \in Runtimes /\ turn # 0
  BY Order, LengthIs, NAssumption DEF Asked, Asks
<1>6. ConnIsServed'
  BY <1>3, <1>4, <1>5 DEF ConnIsServed
<1>7. ConnIsKept'
  BY <1>3, <1>4, <1>5 DEF ConnIsKept
<1>8. NotYet' /\ OthersAnswer' /\ OneAnswerer'
  BY DEF NotYet, OthersAnswer, OneAnswerer
<1> QED
  BY <1>2, <1>6, <1>7, <1>8

(* While the group serves, a server that is bound has its port. *)
LEMMA ServingPorts ==
    ASSUME IInv, pc = "serving", NEW r \in Runtimes
    PROVE  port[HttpPort(r)] = "ours" <=> http[r] = "serving"
  BY DEF IInv, ServeAll, Up, Listens

(* Steps that record an answer: what it takes of them. *)
LEMMA AnswerStep ==
    ASSUME IInv, PilotVarsOK, AskInv, Asking, UNCHANGED <<vars, during, raised, verdict>>,
           turn' = turn + 1,
           NEW a \in {"ours", "foreign", "wrong"}, Answered(a),
           a = "foreign" => Kind \in {"card", "denied"} /\ "foreign" \in Reached,
           Kind \in {"card", "jsonrpc", "rest"} /\ conn' = "ours" => http[Asked] = "serving",
           Kind = "rest" /\ a = "ours" => conn' = "ours"
    PROVE  AskInv'
<1> USE DEF AskInv
<1>1. /\ turn \in 1 .. Length /\ Asked \in Runtimes /\ <<Asked, Kind>> = Script[turn]
      /\ <<Asked, Kind>> \in Asks
      /\ pc = "serving" /\ pc' = "serving" /\ http' = http /\ verdict' = verdict
  BY Target DEF Asking, vars
<1>2. \A q \in Asks : answer'[q] = IF q = Script[turn] THEN a ELSE answer[q]
  BY <1>1 DEF Answered, PilotVarsOK
<1>3. Served' /\ Passed'
  BY <1>1 DEF Served, Passed, AfterServing
<1>4. NotYet'
  <2> SUFFICES ASSUME NEW i \in 1 .. Length, turn + 1 <= i PROVE answer'[Script[i]] = "none"
    BY DEF NotYet
  <2>1. Script[i] # Script[turn] /\ turn <= i
    BY <1>1, OnceEach
  <2> QED
    BY <1>2, <2>1, Order DEF NotYet
<1>5. ASSUME turn' \in 1 .. Length, Kind' \in Late
      PROVE  Asked' = Asked /\ Kind \in {"card", "jsonrpc", "rest"} /\ (Kind' = "denied" => Kind = "rest")
  <2>1. turn' - 1 = turn
    BY <1>1
  <2>2. Kind' = Script[turn'][2] /\ Asked' = Script[turn'][1]
    BY DEF Kind, Asked
  <2> QED
    BY <1>1, <1>5, <2>1, <2>2, Order DEF Late, Asked, Kind
<1>6. ConnIsServed'
  BY <1>1, <1>5 DEF ConnIsServed
<1>7. ConnIsKept'
  <2> SUFFICES ASSUME turn' \in 1 .. Length, Kind' = "denied", answer'[<<Asked', "rest">>] = "ours"
               PROVE  conn' = "ours"
    BY DEF ConnIsKept
  <2>1. Asked' = Asked /\ Kind = "rest"
    BY <1>5 DEF Late
  <2> QED
    BY <1>1, <1>2, <2>1
<1>8. OthersAnswer'
  BY <1>1, <1>2 DEF OthersAnswer
<1>9. OneAnswerer'
  <2> SUFFICES ASSUME NEW r \in Runtimes, answer'[<<r, "rest">>] = "ours", answer'[<<r, "denied">>] = "foreign"
               PROVE  FALSE
    BY DEF OneAnswerer
  <2>1. <<r, "rest">> \in Asks /\ <<r, "denied">> \in Asks
    BY KindsAre DEF Asks
  <2>2. CASE <<r, "rest">> = Script[turn]
    <3>1. PICK i \in 1 .. Length : i = HttpPlace(r, 4) /\ turn = HttpPlace(r, 3)
      BY <1>1, <2>2, ScriptIs, OnceEach DEF Places
    <3>2. turn <= i /\ Script[i] = <<r, "denied">>
      BY <3>1, ScriptIs DEF HttpPlace, Runtimes
    <3> QED
      BY <1>2, <2>1, <2>2, <3>2 DEF NotYet
  <2>3. CASE <<r, "denied">> = Script[turn]
    <3>1. Asked = r /\ Kind = "denied" /\ a = "foreign" /\ answer[<<r, "rest">>] = "ours"
      BY <1>1, <1>2, <2>1, <2>3
    <3>2. conn = "ours" /\ http[r] = "serving" /\ port[HttpPort(r)] = "ours"
      BY <1>1, <3>1, ServingPorts DEF ConnIsKept, ConnIsServed, Late
    <3>3. Binding(Kind) = "http"
      BY <3>1, KindsAre DEF Binding
    <3> QED
      BY <3>1, <3>2, <3>3 DEF Reached, HttpPort
  <2> QED
    BY <1>2, <2>1, <2>2, <2>3 DEF OneAnswerer
<1> QED
  BY <1>3, <1>4, <1>6, <1>7, <1>8, <1>9

LEMMA AskStep ==
    ASSUME IInv, PilotVarsOK, AskInv, [PilotNext]_tvars
    PROVE  AskInv'
<1> USE DEF AskInv
<1>1. CASE UNCHANGED pilot
  BY <1>1, AskGroupStep
<1>2. CASE SeeDuring
  <2>1. turn' = 1 /\ 1 \in 1 .. Length /\ Kind' = "card"
    BY <1>2, Order, LengthIs, NAssumption DEF SeeDuring, Kind
  <2> QED
    BY <1>2, <2>1, LengthIs DEF SeeDuring, Served, AfterServing, NotYet, ConnIsServed, ConnIsKept, Late,
       OthersAnswer, OneAnswerer, Passed, vars
<1>3. CASE Judge
  <2>1. Passed'
    BY <1>3 DEF Judge, Passed, Asserted, vars
  <2> QED
    BY <1>3, <2>1 DEF Judge, Served, NotYet, ConnIsServed, ConnIsKept, OthersAnswer, OneAnswerer, Asked, Kind, vars
<1>4. CASE Asking /\ Raise /\ UNCHANGED <<vars, conn, during, verdict>>
  <2>1. turn' = 0 /\ turn' \notin 1 .. Length /\ \A q \in Asks : answer'[q] = "none"
    BY <1>4, LengthIs, NAssumption DEF Raise
  <2>2. verdict' # "passed"
    BY <1>4 DEF Asking, Passed
  <2>3. NotYet' /\ OthersAnswer'
    BY <2>1, Order DEF NotYet, OthersAnswer
  <2>4. OneAnswerer'
    BY <2>1, KindsAre DEF OneAnswerer, Asks
  <2> QED
    BY <2>1, <2>2, <2>3, <2>4 DEF Served, ConnIsServed, ConnIsKept, Passed
<1>5. CASE Ask
  <2>1. ASSUME Asking, "ours" \in Reached, Binding(Kind) = "http"
        PROVE  http[Asked] = "serving"
    <3>1. pc = "serving" /\ turn \in 1 .. Length /\ Asked \in Runtimes
      BY <2>1, Target DEF Asking
    <3>2. CASE port[HttpPort(Asked)] = "ours"
      BY <3>1, <3>2, ServingPorts
    <3>3. CASE Kind \in Late /\ conn = "ours"
      BY <3>1, <3>3 DEF ConnIsServed
    <3> QED
      BY <2>1, <3>1, <3>2, <3>3, KindsAre DEF Reached, HttpPort, Late
  <2>2. CASE AskOther
    <3>1. PICK a \in {"wrong", "foreign"} : Answered(a) /\ (a = "foreign" => Kind \in {"card", "denied"})
      BY <2>2, ForeignAssumption DEF AskOther
    <3> QED
      BY <2>2, <3>1, AnswerStep DEF AskOther
  <2>3. CASE AskHttp \/ AskHttpFails
    <3>1. PICK a \in {"wrong", "ours"} : Answered(a)
      BY <2>3 DEF AskHttp, AskHttpFails
    <3> QED
      BY <2>1, <2>3, <3>1, AnswerStep DEF AskHttp, AskHttpFails
  <2>4. CASE AskGrpcSend \/ (AskGrpcGet /\ ~ Raise)
    BY <2>4, AnswerStep DEF AskGrpcSend, AskGrpcGet
  <2> QED
    BY <1>4, <1>5, <2>2, <2>3, <2>4 DEF Ask, AskGrpcGet, AskRaises
<1> QED
  BY <1>1, <1>2, <1>3, <1>5, PilotOrGroup

(* A triad that passed was answered by its own sidecars wherever an answer  *)
(* says something about them (exercise_http, exercise_grpc, run_pilot).     *)
THEOREM PassedIsOwn == PilotSpec => []PassedAnsweredItself
<1>1. AskInv => PassedAnsweredItself
  <2> SUFFICES ASSUME AskInv, verdict = "passed", NEW q \in Asks, q[2] # "card" PROVE answer[q] = "ours"
    BY DEF PassedAnsweredItself
  <2>1. PICK r \in Runtimes, k \in {"card", "jsonrpc", "rest", "denied", "send", "get"} : q = <<r, k>>
    BY KindsAre DEF Asks
  <2>2. answer[<<r, "rest">>] = "ours"
    BY KindsAre DEF Asks, AskInv, Passed, OthersAnswer
  <2> QED
    BY <2>1, <2>2 DEF AskInv, Passed, OthersAnswer, OneAnswerer
<1>2. PilotSpec => []PilotVarsOK
  BY PilotTypesHold
<1> QED
  BY <1>1, <1>2, AskInitial, AskStep, GroupInvariance, PTL DEF PilotSpec

(* What a sidecar answered is not asked for, or replaced, a second time: it *)
(* stands until the pilot judges, or an exception makes it useless          *)
(* (run_pilot's summaries of exercise_http and exercise_grpc).              *)
AnswersStand == \A q \in Asks : answer[q] # "none" => answer'[q] = answer[q] \/ raised'

THEOREM AskedOnce == PilotSpec => [][AnswersStand]_tvars
<1>1. PilotVarsOK /\ AskInv /\ [PilotNext]_tvars => [AnswersStand]_tvars
  <2> SUFFICES ASSUME PilotVarsOK, AskInv, [PilotNext]_tvars, NEW q \in Asks, answer[q] # "none"
               PROVE  answer'[q] = answer[q] \/ raised'
    BY DEF AnswersStand
  <2>1. CASE UNCHANGED pilot \/ SeeDuring \/ Judge
    BY <2>1 DEF pilot, SeeDuring, Judge
  <2>2. ASSUME Asking, NEW a, Answered(a) PROVE answer'[q] = answer[q]
    <3>1. <<Asked, Kind>> = Script[turn] /\ turn \in 1 .. Length /\ turn <= turn
      BY <2>2, Target
    <3>2. q # <<Asked, Kind>>
      BY <3>1 DEF AskInv, NotYet
    <3> QED
      BY <2>2, <3>2 DEF Answered, PilotVarsOK
  <2>3. CASE Ask
    <3>1. CASE Raise
      BY <3>1 DEF Raise
    <3>2. CASE ~ Raise
      BY <2>2, <2>3, <3>2 DEF Ask, AskOther, AskHttp, AskHttpFails, AskGrpcSend, AskGrpcGet, AskRaises
    <3> QED
      BY <3>1, <3>2
  <2> QED
    BY <2>1, <2>3, PilotOrGroup
<1>2. PilotSpec => []PilotVarsOK
  BY PilotTypesHold
<1> QED
  BY <1>1, <1>2, AskInitial, AskStep, GroupInvariance, PTL DEF PilotSpec

-----------------------------------------------------------------------------
(* What happens while nothing goes wrong outside the pilot's own code: no   *)
(* other process listens, every server that was waited for has bound, every *)
(* answer is the sidecar's and as it is asserted.                           *)

StartedOwn ==
    pc \in Starting =>
        /\ \A r \in Runtimes : r < cur => http[r] = "serving"
        /\ pc \notin {"launching", "http_wait"} => http[cur] = "serving"
        /\ \A r \in Runtimes : port[GrpcPort(r)] = "ours" =>
               r < cur \/ (r = cur /\ pc \in {"grpc_start", "grpc_wait"})
ServedOwn == pc = "serving" => \A r \in Runtimes : http[r] = "serving"

(* no server is told to exit before it has run *)
LeftOwn ==
    /\ pc \in {"leaving", "leaving_http", "left"} => \A r \in Runtimes : r <= cur => http[r] = "serving"
    /\ \A r \in Runtimes : http[r] # "returned"

AnsweredSoFar ==
    /\ turn # 0 => during
    /\ pc \in {"leaving", "leaving_http", "left"} => turn = Length + 1
    /\ \A i \in 1 .. Length : i < turn => answer[Script[i]] = "ours"
    /\ \A r \in Runtimes : GrpcPlace(r, 1) < turn => "send" \in tasks[<<r, "grpc">>]

Smooth ==
    /\ \A p \in Ports : port[p] # "foreign"
    /\ conn # "foreign" /\ ~ raised /\ ~ cancelled /\ verdict # "failed"
    /\ pc \in Starting \cup AfterServing
    /\ pc = "dead" => verdict = "passed" \/ stop_failed # {}
    /\ StartedOwn /\ ServedOwn /\ LeftOwn /\ AnsweredSoFar

Undisturbed == ~ disturbed => Smooth

LEMMA SmoothInitial == PilotInit => Undisturbed
<1>1. PilotInit => AnsweredSoFar
  BY ScriptIs, LengthIs, NAssumption DEF PilotInit, Init, AnsweredSoFar, Places
<1> QED
  BY <1>1, NAssumption, PortNames, TriadAssumption DEF PilotInit, Init, Undisturbed, Smooth, StartedOwn, ServedOwn, LeftOwn, Starting, Runtimes

(* Every port is its sidecar's HTTP or gRPC port, and every sidecar has both. *)
LEMMA TriadPorts ==
    /\ \A p \in Ports : \E r \in Runtimes : p = HttpPort(r) \/ p = GrpcPort(r)
    /\ \A r \in Runtimes : r \in WithGrpc /\ HttpPort(r) \in Ports /\ GrpcPort(r) \in Ports
  BY TriadAssumption DEF Ports, HttpPort, GrpcPort

LEMMA StartSmooth ==
    ASSUME IInv, PilotVarsOK, ~ disturbed, Smooth, UNCHANGED <<pilot, disturbed>>,
           Launch \/ LaunchRefused \/ HttpAnswers \/ GrpcBind \/ GrpcBindFails \/ GrpcStarted \/ GrpcAnswers
    PROVE  Smooth'
<1> USE NAssumption, TriadPorts DEF Smooth, IInv, TypeOK, Starting, Runtimes
<1>1. AnsweredSoFar' /\ conn' # "foreign" /\ ~ raised' /\ verdict' # "failed"
  BY DEF pilot, AnsweredSoFar, Launch, LaunchRefused, HttpAnswers, GrpcBind, GrpcBindFails, GrpcStarted, GrpcAnswers, StartFails, StartNext
<1>2. CASE Launch
  BY <1>1, <1>2 DEF Launch, StartedOwn, ServedOwn, LeftOwn
<1>3. ~ LaunchRefused
  <2> SUFFICES ASSUME LaunchRefused PROVE FALSE
    OBVIOUS
  <2>1. pc = "launching" /\ cur \in Permitted
    BY TriadAssumption DEF LaunchRefused, StartOrder
  <2>2. PICK p \in PortsOf(cur) : port[p] # "free"
    BY <2>1 DEF LaunchRefused
  <2>3. p = HttpPort(cur) \/ p = GrpcPort(cur)
    BY DEF PortsOf, Ports, HttpPort, GrpcPort
  <2>4. port[HttpPort(cur)] # "ours" /\ port[GrpcPort(cur)] # "ours"
    BY <2>1 DEF StartOrder, Untouched, Listens, StartedOwn
  <2> QED
    BY <2>1, <2>2, <2>3, <2>4 DEF PortsOf
<1>4. CASE HttpAnswers
  <2>1. pc = "http_wait" /\ cur \in Runtimes /\ cur \in WithGrpc /\ http[cur] = "serving"
    BY <1>4 DEF HttpAnswers, StartOrder, Listens
  <2> QED
    BY <1>1, <1>4, <2>1 DEF HttpAnswers, StartedOwn, ServedOwn, LeftOwn
<1>5. CASE GrpcBind
  <2>1. pc = "grpc_bind" /\ cur \in Runtimes
    BY <1>5 DEF GrpcBind, StartOrder
  <2> QED
    BY <1>1, <1>5, <2>1, PortNames DEF GrpcBind, StartedOwn, ServedOwn, LeftOwn
<1>6. ~ GrpcBindFails
  BY DEF GrpcBindFails, StartOrder, StartedOwn
<1>7. CASE GrpcStarted
  BY <1>1, <1>7 DEF GrpcStarted, StartedOwn, ServedOwn, LeftOwn
<1>8. CASE GrpcAnswers
  <2>1. pc = "grpc_wait" /\ cur \in Runtimes /\ http[cur] = "serving" /\ StartNext
        /\ UNCHANGED <<port, http, grpc, stop_failed, cancelled>>
    BY <1>8 DEF GrpcAnswers, StartOrder, StartedOwn
  <2>2. CASE cur < N
    BY <1>1, <2>1, <2>2 DEF StartNext, StartedOwn, ServedOwn, LeftOwn
  <2>3. CASE cur = N
    BY <1>1, <2>1, <2>3 DEF StartNext, StartedOwn, ServedOwn, LeftOwn, AfterServing
  <2> QED
    BY <2>1, <2>2, <2>3
<1> QED
  BY <1>2, <1>3, <1>4, <1>5, <1>6, <1>7, <1>8

(* The group's other steps: none of its servers finds its port taken. *)
LEMMA GroupSmooth ==
    ASSUME IInv, PilotVarsOK, ~ disturbed, Smooth, UNCHANGED <<pilot, disturbed>>,
           \/ StopGrpc \/ StopHttp \/ HttpReturned \/ StopHttpTimesOut \/ Stopped \/ LeaveBlock \/ Exit
           \/ \E r \in Runtimes : Uvicorn(r)
           \/ \E p \in Ports : ForeignReleases(p)
           \/ UNCHANGED vars
    PROVE  Smooth'
<1> USE NAssumption, TriadPorts DEF Smooth, IInv, TypeOK, Starting, AfterServing, pilot
<1>1. CASE StopGrpc \/ StopHttp \/ StopHttpTimesOut
  <2>1. LeftOwn'
    BY <1>1 DEF StopGrpc, StopHttp, StopHttpTimesOut, HttpTaskCancelled, StopNext, StopOrder, Runtimes, LeftOwn
  <2> QED
    BY <1>1, <2>1 DEF StopGrpc, StopHttp, StopHttpTimesOut, HttpTaskCancelled, StopNext, StartedOwn, ServedOwn, AnsweredSoFar
<1>9. ~ HttpReturned
  BY DEF HttpReturned, StopOrder, LeftOwn
<1>2. CASE Stopped
  BY <1>2 DEF Stopped, Over, StartedOwn, ServedOwn, LeftOwn, AnsweredSoFar
<1>3. CASE LeaveBlock
  BY <1>3, LengthIs DEF LeaveBlock, Leave, StartedOwn, ServedOwn, LeftOwn, AnsweredSoFar, PilotVarsOK
<1>4. CASE Exit
  BY <1>4 DEF Exit, ProcessDies, StartedOwn, ServedOwn, LeftOwn, AnsweredSoFar, PilotVarsOK
<1>5. ASSUME NEW r \in Runtimes, UvicornBinds(r) PROVE Smooth'
  BY <1>5, PortNames DEF UvicornBinds, ToldToExit, StartedOwn, ServedOwn, LeftOwn, AnsweredSoFar
<1>6. ASSUME NEW r \in Runtimes PROVE ~ UvicornCannotBind(r)
  BY DEF UvicornCannotBind, Waiting, Stopping, Listens
<1>7. CASE \E p \in Ports : ForeignReleases(p)
  BY <1>7 DEF ForeignReleases
<1>8. CASE UNCHANGED vars
  BY <1>8 DEF vars, StartedOwn, ServedOwn, LeftOwn, AnsweredSoFar
<1> QED
  BY <1>1, <1>2, <1>3, <1>4, <1>5, <1>6, <1>7, <1>8, <1>9 DEF Uvicorn

LEMMA RightAnswers ==
    \A k \in {"card", "jsonrpc", "rest", "denied"} : AnswersAsAsserted(App, k, Headers[k])
<1> USE DEF AnswersAsAsserted, Admitted, App, Headers, Requests, PublicPaths, NoToken
<1>1. AnswersAsAsserted(App, "card", Headers["card"])
  OBVIOUS
<1>2. AnswersAsAsserted(App, "jsonrpc", Headers["jsonrpc"])
  OBVIOUS
<1>3. AnswersAsAsserted(App, "rest", Headers["rest"])
  OBVIOUS
<1>4. AnswersAsAsserted(App, "denied", Headers["denied"])
  OBVIOUS
<1> QED
  BY <1>1, <1>2, <1>3, <1>4

LEMMA PilotSmooth ==
    ASSUME IInv, PilotVarsOK, ~ disturbed, ~ disturbed', Smooth, SeeDuring \/ Ask \/ Judge
    PROVE  Smooth'
<1> USE NAssumption, TriadPorts DEF Smooth
<1>1. UNCHANGED vars
  BY DEF SeeDuring, Ask, AskOther, AskHttp, AskHttpFails, AskGrpcSend, AskGrpcGet, AskRaises, Judge
<1>2. StartedOwn' /\ ServedOwn' /\ LeftOwn'
  BY <1>1 DEF vars, StartedOwn, ServedOwn, LeftOwn
<1>3. CASE SeeDuring
  <2>1. during'
    BY <1>3, ServingPorts DEF SeeDuring, ServedOwn, IInv, ServeAll, Up, Listens, Ending
  <2>2. AnsweredSoFar'
    <3>1. turn' = 1 /\ pc' = "serving" /\ \A r \in Runtimes : ~ (GrpcPlace(r, 1) < 1)
      BY <1>1, <1>3, ScriptIs DEF SeeDuring, vars, Places
    <3> QED
      BY <2>1, <3>1 DEF AnsweredSoFar
  <2> QED
    BY <1>1, <1>2, <1>3, <2>1, <2>2 DEF SeeDuring, vars
<1>4. CASE Ask
  <2>1. Asking /\ ~ AskRaises /\ ~ AskHttpFails
    BY <1>4 DEF Ask, AskOther, AskHttp, AskHttpFails, AskGrpcSend, AskGrpcGet, AskRaises
  <2>2. /\ turn \in 1 .. Length /\ Asked \in Runtimes /\ <<Asked, Kind>> = Script[turn]
        /\ pc = "serving" /\ pc' = "serving"
    BY <1>1, <2>1, Target DEF Asking, vars
  <2>3. ~ AskOther
    <3>1. <<Binding(Kind), Asked>> \in Ports
      BY <2>2 DEF Binding, HttpPort, GrpcPort
    <3> QED
      BY <3>1 DEF AskOther, Reached
  <2>4. ASSUME Answered("ours"), turn' = turn + 1,
               \A r \in Runtimes : GrpcPlace(r, 1) <= turn => "send" \in tasks'[<<r, "grpc">>],
               conn' # "foreign", UNCHANGED <<during, raised, verdict>>
        PROVE  Smooth'
    <3>1. \A i \in 1 .. Length : i < turn' => answer'[Script[i]] = "ours"
      BY <2>2, <2>4, Order DEF Answered, PilotVarsOK, AnsweredSoFar
    <3>2. AnsweredSoFar'
      BY <2>2, <2>4, <3>1 DEF AnsweredSoFar, GrpcPlace, Runtimes
    <3> QED
      BY <1>1, <1>2, <2>2, <2>4, <3>2 DEF vars
  <2>5. \A r \in Runtimes : GrpcPlace(r, 1) <= turn =>
            "send" \in tasks[<<r, "grpc">>] \/ (r = Asked /\ Kind = "send")
    <3>1. \A r \in Runtimes : GrpcPlace(r, 1) = turn => r = Asked /\ Kind = "send"
      BY <2>2, ScriptIs
    <3>2. \A r \in Runtimes : GrpcPlace(r, 1) <= turn => GrpcPlace(r, 1) < turn \/ GrpcPlace(r, 1) = turn
      BY <2>2, LengthIs DEF GrpcPlace, Runtimes
    <3> QED
      BY <3>1, <3>2 DEF AnsweredSoFar
  <2>6. CASE AskHttp
    <3>1. Kind \in {"card", "jsonrpc", "rest", "denied"}
      BY <2>1, <2>6, Target, KindsAre DEF AskHttp, Binding
    <3>2. Answered("ours")
      BY <2>6, <3>1, RightAnswers DEF AskHttp
    <3>3. \A r \in Runtimes : tasks'[<<r, "grpc">>] = tasks[<<r, "grpc">>]
      BY <2>2, <2>6 DEF AskHttp, Keep, PilotVarsOK
    <3> QED
      BY <2>4, <2>5, <2>6, <3>1, <3>2, <3>3 DEF AskHttp
  <2>7. CASE AskGrpcSend
    <3>1. \A r \in Runtimes : "send" \in tasks'[<<r, "grpc">>] <=> "send" \in tasks[<<r, "grpc">>] \/ r = Asked
      BY <2>2, <2>7 DEF AskGrpcSend, Keep, PilotVarsOK
    <3> QED
      BY <2>4, <2>5, <2>7, <3>1 DEF AskGrpcSend
  <2>8. CASE AskGrpcGet
    <3>1. "send" \in tasks[<<Asked, "grpc">>]
      <4>1. turn = GrpcPlace(Asked, 2)
        BY <2>2, <2>8, ScriptIs, OnceEach DEF AskGrpcGet, Places
      <4> QED
        BY <2>2, <4>1 DEF AnsweredSoFar, GrpcPlace, Runtimes
    <3> QED
      BY <2>4, <2>5, <2>8, <3>1 DEF AskGrpcGet
  <2> QED
    BY <1>4, <2>1, <2>3, <2>6, <2>7, <2>8 DEF Ask
<1>5. CASE Judge
  <2>1. pc = "left" /\ ~ raised /\ stop_failed = {} /\ turn = Length + 1 /\ during
    BY <1>5, LengthIs DEF Judge, AnsweredSoFar
  <2>2. \A p \in Ports : port[p] = "free"
    <3>1. \A r \in Runtimes : Down(r) /\ http[r] # "returned"
      BY <2>1 DEF IInv, StopOrder, Ending, LeftOwn, Runtimes
    <3> QED
      BY <3>1 DEF IInv, TypeOK, Down
  <2>3. \A q \in Asks : answer[q] = "ours"
    <3> SUFFICES ASSUME NEW r \in Runtimes, NEW k \in {"card", "jsonrpc", "rest", "denied", "send", "get"}
                 PROVE  answer[<<r, k>>] = "ours"
      <4>1. \A q \in Asks : \E r \in Runtimes, k \in {"card", "jsonrpc", "rest", "denied", "send", "get"} :
                q = <<r, k>>
        BY KindsAre DEF Asks
      <4> QED
        BY <4>1
    <3>1. PICK i \in 1 .. Length : Script[i] = <<r, k>>
      BY ScriptIs DEF Places
    <3> QED
      BY <2>1, <3>1, LengthIs DEF AnsweredSoFar
  <2>4. \A r \in Runtimes : tasks[<<r, "http">>] \cup tasks[<<r, "grpc">>] # {}
    <3>1. \A r \in Runtimes : GrpcPlace(r, 1) < Length + 1
      BY ScriptIs, LengthIs DEF Places
    <3> QED
      BY <2>1, <3>1 DEF AnsweredSoFar
  <2>5. Asserted
    BY <2>1, <2>2, <2>3, <2>4 DEF Asserted
  <2> QED
    BY <1>1, <1>2, <1>5, <2>1, <2>5 DEF Judge, vars, AnsweredSoFar
<1> QED
  BY <1>3, <1>4, <1>5

LEMMA UndisturbedStep ==
    ASSUME IInv, PilotVarsOK, Undisturbed, [PilotNext]_tvars
    PROVE  Undisturbed'
<1> SUFFICES ASSUME ~ disturbed' PROVE Smooth'
  BY DEF Undisturbed
<1>1. ~ disturbed /\ Smooth
  <2>1. disturbed' \in {disturbed, TRUE}
    BY PilotOrGroup DEF SeeDuring, Ask, AskOther, AskHttp, AskHttpFails, AskGrpcSend, AskGrpcGet,
       AskRaises, Judge
  <2>2. disturbed' = disturbed
    BY <2>1
  <2>3. ~ disturbed
    BY <2>2, Zenon
  <2> QED
    BY <2>3, Zenon DEF Undisturbed
<1>2. CASE SeeDuring \/ Ask \/ Judge
  BY <1>1, <1>2, PilotSmooth
<1>3. CASE UNCHANGED tvars
  BY <1>1, <1>3, GroupSmooth DEF tvars
<1>4. CASE PilotNext /\ ~ (SeeDuring \/ Ask \/ Judge)
  BY <1>1, <1>4, StartSmooth, GroupSmooth DEF PilotNext, Ask, Quiet, Disturb, LeaveBlock, Exit, Uvicorn
<1> QED
  BY <1>2, <1>3, <1>4

(* A pilot fails, raises or dies only if something outside its code went    *)
(* wrong: nothing in the order of run_pilot, the authorization, the task    *)
(* stores or the closing of listeners makes it fail.                        *)
THEOREM FailureHasCause == PilotSpec => []FailsOnlyIfDisturbed
<1>1. Undisturbed => FailsOnlyIfDisturbed
  BY DEF Undisturbed, Smooth, FailsOnlyIfDisturbed, Starting, AfterServing
<1> QED
  BY <1>1, SmoothInitial, UndisturbedStep, PilotTypesHold, GroupInvariance, PTL DEF PilotSpec
=================================================================================
