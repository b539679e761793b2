------------------------------- MODULE TriadPilot -------------------------------
(***************************************************************************)
(* The triad pilot (run_m17b_triad_pilot.py) over the SidecarGroup it      *)
(* drives: it reserves ports and gives them back, enters the group, asks   *)
(* every sidecar over every binding in one fixed order, leaves the group,  *)
(* looks at the ports again, judges, and ends with its process. Whoever    *)
(* listens at a port answers: the pilot does not ask who that is.          *)
(*                                                                         *)
(* Its validation of the roster is ValidationRun, the files it writes from *)
(* its verdict are PilotEvidence.                                          *)
(***************************************************************************)
EXTENDS SidecarGroup, Bindings, SequencesExt

(* What a process that is not of this pilot can answer as the pilot asserts *)
(* it: anyone can serve a card and refuse a peer; to complete its task is   *)
(* for an A2A server.                                                       *)
CONSTANT ForeignAnswers

ASSUME ForeignAssumption == ForeignAnswers \subseteq {"card", "denied"}

(* default_config_data: all on loopback, all with a token and all bindings. *)
ASSUME TriadAssumption == Permitted = Runtimes /\ WithGrpc = Runtimes

(* faulty variant: the refusal is asked for first *)
HttpKindsRefusalFirst == <<"denied", "card", "jsonrpc", "rest">>

HttpKinds == <<"card", "jsonrpc", "rest", "denied">>
GrpcKinds == <<"send", "get">>

(* The place-th of what is asked when each sidecar in turn is asked for all of kinds. *)
InTurn(kinds, place) ==
    <<((place - 1) \div Len(kinds)) + 1, kinds[((place - 1) % Len(kinds)) + 1]>>

(* exercise_http of each sidecar in turn, then exercise_grpc of each. *)
HttpAsks == N * Len(HttpKinds)
Length == HttpAsks + N * Len(GrpcKinds)
Script == [i \in 1 .. Length |-> IF i <= HttpAsks THEN InTurn(HttpKinds, i)
                                                  ELSE InTurn(GrpcKinds, i - HttpAsks)]

Asks == Runtimes \X (ToSet(HttpKinds) \cup ToSet(GrpcKinds))
Binding(kind) == IF kind \in ToSet(GrpcKinds) THEN "grpc" ELSE "http"

(* What start() passes to build_app, and the headers of this pilot. *)
App == [require_auth |-> TRUE, test_token |-> "minted", allowed_peer_ids |-> {"peer"}]
Headers == Requests("minted", "peer")

VARIABLES
    turn,       \* the place in Script of what is asked next; 0: not at it yet
    conn,       \* whose connection the HTTP client holds
    answer,     \* who gave the asserted answer to what was asked, or that none did
    tasks,      \* the tasks in the store of each sidecar's binding
    during,     \* whether the snapshot of a running group showed every port
    raised,     \* an exception leaves the group's block
    verdict,
    disturbed   \* something outside the pilot's code went wrong

pilot == <<turn, conn, answer, tasks, during, raised, verdict>>
tvars == <<vars, pilot, disturbed>>

PilotTypeOK ==
    /\ TypeOK
    /\ turn \in 0 .. Length + 1
    /\ conn \in {"none", "ours", "foreign"}
    /\ answer \in [Asks -> {"none", "ours", "foreign", "wrong"}]
    /\ tasks \in [Runtimes \X {"http", "grpc"} -> SUBSET {"jsonrpc", "rest", "denied", "send"}]
    /\ {during, raised, disturbed} \subseteq BOOLEAN
    /\ verdict \in {"none", "passed", "failed"}

Quiet == UNCHANGED <<pilot, disturbed>>
Disturb == disturbed' = TRUE /\ UNCHANGED pilot

-----------------------------------------------------------------------------
(* In the group's block.                                                    *)

(* ss_snapshot: it shows that something listens, not who *)
SeeDuring ==
    /\ pc = "serving"
    /\ turn = 0
    /\ ~ raised
    /\ during' = \A p \in Ports : port[p] # "free"
    /\ turn' = 1
    /\ UNCHANGED <<vars, conn, answer, tasks, raised, verdict, disturbed>>

Asking == pc = "serving" /\ turn \in 1 .. Length /\ ~ raised

(* Which sidecar is asked, and what for. *)
Asked == Script[turn][1]
Kind == Script[turn][2]
Answered(a) == answer' = [answer EXCEPT ![<<Asked, Kind>>] = a]
Executes == Kind \in HttpSends /\ Admitted(App, Headers[Kind])

(* Whom the request at hand may reach: a client keeps its connection, also  *)
(* when the listener behind it has gone, or makes a new one; each sidecar   *)
(* has a client of its own.                                                 *)
Reached ==
    {port[<<Binding(Kind), Asked>>]} \cup
        (IF Kind \in ToSet(HttpKinds) /\ Kind # HttpKinds[1] THEN {conn} ELSE {})

(* another process answers, as the pilot wants it or not *)
AskOther ==
    /\ Asking
    /\ "foreign" \in Reached
    /\ \/ Answered("wrong")
       \/ Kind \in ForeignAnswers /\ Answered("foreign")
    /\ conn' = "foreign"
    /\ turn' = turn + 1
    /\ UNCHANGED <<vars, tasks, during, raised, verdict, disturbed>>

Keep(binding) == tasks' = [tasks EXCEPT ![<<Asked, binding>>] = @ \cup {Kind}]

(* the sidecar's own HTTP binding answers *)
AskHttp ==
    /\ Asking
    /\ Binding(Kind) = "http"
    /\ "ours" \in Reached
    /\ Answered(IF AnswersAsAsserted(App, Kind, Headers[Kind]) THEN "ours" ELSE "wrong")
    /\ IF Executes THEN Keep("http") ELSE UNCHANGED tasks
    /\ conn' = "ours"
    /\ turn' = turn + 1
    /\ UNCHANGED <<vars, during, raised, verdict, disturbed>>

(* its executor fails *)
AskHttpFails ==
    /\ Asking
    /\ Binding(Kind) = "http"
    /\ "ours" \in Reached
    /\ Executes
    /\ Answered("wrong")
    /\ conn' = "ours"
    /\ turn' = turn + 1
    /\ disturbed' = TRUE
    /\ UNCHANGED <<vars, tasks, during, raised, verdict>>

(* faulty variant: the task is put where the HTTP binding keeps its own *)
AskGrpcSendElsewhere ==
    /\ Asking
    /\ Kind = "send"
    /\ port[GrpcPort(Asked)] = "ours"
    /\ Answered("ours")
    /\ Keep("http")
    /\ turn' = turn + 1
    /\ UNCHANGED <<vars, conn, during, raised, verdict, disturbed>>

(* gRPC's handler admits everyone, and has a task store of its own *)
AskGrpcSend ==
    /\ Asking
    /\ Kind = "send"
    /\ port[GrpcPort(Asked)] = "ours"
    /\ Answered("ours")
    /\ Keep("grpc")
    /\ turn' = turn + 1
    /\ UNCHANGED <<vars, conn, during, raised, verdict, disturbed>>

(* the block is over, and what it has collected is of no use *)
Raise == raised' = TRUE /\ turn' = 0 /\ answer' = [q \in Asks |-> "none"]

(* a task that its store does not have is an error, which is raised *)
AskGrpcGet ==
    /\ Asking
    /\ Kind = "get"
    /\ port[GrpcPort(Asked)] = "ours"
    /\ IF "send" \in tasks[<<Asked, "grpc">>]
       THEN Answered("ours") /\ turn' = turn + 1 /\ UNCHANGED raised
       ELSE Raise
    /\ UNCHANGED <<vars, conn, tasks, during, verdict, disturbed>>

(* no connection, no answer in time, one that is no JSON, or an interrupt *)
AskRaises ==
    /\ Asking
    /\ Raise
    /\ disturbed' = TRUE
    /\ UNCHANGED <<vars, conn, tasks, during, verdict>>

LeaveBlock ==
    /\ turn > Length \/ raised
    /\ Leave
    /\ Quiet

-----------------------------------------------------------------------------
(* After it.                                                                *)

(* run_pilot's assertions on what it saw; the receipts of a sidecar are     *)
(* those of the tasks its bindings executed                                 *)
Asserted ==
    /\ during
    /\ \A p \in Ports : port[p] = "free"
    /\ \A q \in Asks : answer[q] \in {"ours", "foreign"}
    /\ \A r \in Runtimes : tasks[<<r, "http">>] \cup tasks[<<r, "grpc">>] # {}

(* leaving a group raises if a stop raised or it was cancelled, and so does *)
(* a block that did                                                        *)
Judge ==
    /\ pc = "left"
    /\ ~ raised /\ ~ cancelled /\ stop_failed = {}
    /\ verdict = "none"
    /\ verdict' = IF Asserted THEN "passed" ELSE "failed"
    /\ UNCHANGED <<vars, turn, conn, answer, tasks, during, raised, disturbed>>

(* asyncio.run is over, one way or the other, and with it the process and   *)
(* whatever still listens                                                   *)
Exit ==
    /\ pc = "failed" \/ (pc = "left" /\ (verdict # "none" \/ raised \/ cancelled \/ stop_failed # {}))
    /\ ProcessDies
    /\ Quiet

-----------------------------------------------------------------------------
(* reserve_ports held all the ports at once, and has let go of them *)
PilotInit ==
    /\ Init
    /\ port = [p \in Ports |-> "free"]
    /\ turn = 0
    /\ conn = "none"
    /\ answer = [q \in Asks |-> "none"]
    /\ tasks = [b \in Runtimes \X {"http", "grpc"} |-> {}]
    /\ during = FALSE /\ raised = FALSE /\ disturbed = FALSE
    /\ verdict = "none"

Ask == AskOther \/ AskHttp \/ AskHttpFails \/ AskGrpcSend \/ AskGrpcGet \/ AskRaises
Starts ==
    \/ (Launch \/ LaunchRefused \/ HttpAnswers \/ GrpcBind \/ GrpcBindFails \/ GrpcStarted \/ GrpcAnswers) /\ Quiet
    \/ StartInterrupted /\ Disturb

PilotNext ==
    \/ Launch /\ Quiet
    \/ LaunchRefused /\ Quiet
    \/ HttpAnswers /\ Quiet
    \/ GrpcBind /\ Quiet
    \/ GrpcBindFails /\ Quiet
    \/ GrpcStarted /\ Quiet
    \/ GrpcAnswers /\ Quiet
    \/ StartInterrupted /\ Disturb
    \/ SeeDuring
    \/ AskOther \/ AskHttp \/ AskHttpFails \/ AskGrpcSend \/ AskGrpcGet \/ AskRaises
    \/ LeaveBlock
    \/ StopGrpc /\ Quiet
    \/ StopHttp /\ Quiet
    \/ HttpReturned /\ Quiet
    \/ StopHttpTimesOut /\ Quiet
    \/ StopCancelled /\ Disturb
    \/ Stopped /\ Quiet
    \/ Judge \/ Exit
    \/ \E r \in Runtimes : UvicornBinds(r) /\ Quiet
    \/ \E r \in Runtimes : UvicornCannotBind(r) /\ Quiet
    \/ \E p \in Ports : pc # "dead" /\ ForeignTakes(p) /\ Disturb
    \/ \E p \in Ports : pc # "dead" /\ ForeignReleases(p) /\ Quiet

(* SidecarGroup's fairness, and the pilot's: its requests over HTTP have a  *)
(* limit, and over gRPC they reach a server of its own event loop, which    *)
(* answers; what it does between its awaits it does at once.                *)
PilotSpec ==
    /\ PilotInit /\ [][PilotNext]_tvars
    /\ WF_tvars(Starts)
    /\ WF_tvars(StopGrpc /\ Quiet) /\ WF_tvars(HttpReturned /\ Quiet)
    /\ WF_tvars(StopHttpTimesOut /\ Quiet) /\ WF_tvars(Stopped /\ Quiet)
    /\ \A r \in Runtimes : WF_tvars(Uvicorn(r) /\ Quiet)
    /\ WF_tvars(SeeDuring) /\ WF_tvars(Ask) /\ WF_tvars(LeaveBlock) /\ WF_tvars(Judge) /\ WF_tvars(Exit)
-----------------------------------------------------------------------------
(* Properties.                                                              *)

(* A triad that passed was answered by its own sidecars wherever the answer *)
(* says something about them: every completed task and every refusal is     *)
(* theirs, though another process may have held their ports while they      *)
(* started, kept a connection, and answered as if it were one of them.      *)
PassedAnsweredItself ==
    verdict = "passed" => \A q \in Asks : q[2] # "card" => answer[q] = "ours"

(* A pilot fails, raises or dies only if something outside its code went    *)
(* wrong: its own order of asking, its authorization, the task stores of    *)
(* its bindings and the closing of its listeners never make it fail.        *)
FailsOnlyIfDisturbed ==
    verdict = "failed" \/ raised \/ (pc \in {"failed", "dead"} /\ verdict # "passed")
        => disturbed \/ stop_failed # {}

(* Whatever goes wrong on the way, a rollback that stops half-way included, *)
(* the pilot's process ends in time, and with it all of its listeners.      *)
PilotEnds == <>[](pc = "dead" /\ \A p \in Ports : port[p] # "ours")
=================================================================================
