------------------------------- MODULE SoleServer -------------------------------
(***************************************************************************)
(* One coroutine that holds one server: the service runner                 *)
(* (service_runner.run_service), the smoke of the live executor pilot      *)
(* (run_live_a2a_smoke) and that of the LAN pilot (run_lan_smoke, a task   *)
(* beside its pilot). Each creates the task of its HTTP server, waits      *)
(* until something listens, does what it is there for, and in a finally    *)
(* clause stops gRPC, if it has it, tells the HTTP server to exit and      *)
(* waits for its task without a limit.                                     *)
(*                                                                         *)
(* uvicorn, grpc.aio and the signals of the operator are external. uvicorn *)
(* takes SIGINT and SIGTERM as a request to exit while it serves, and      *)
(* raises them again when it has closed; asyncio.run makes SIGINT a        *)
(* cancellation of its main coroutine, SIGTERM ends the process.           *)
(***************************************************************************)
EXTENDS Naturals, Bindings

CONSTANTS
    Holders,        \* the programs looked at
    ForeignAnswers  \* what another process can answer as a pilot asserts it

ASSUME HoldersAssumption == Holders \subseteq {"service", "service with gRPC", "live pilot", "LAN pilot"}

(* Anyone can serve a card and refuse a peer; to complete the task of one   *)
(* is for an A2A server.                                                    *)
ASSUME ForeignAssumption == ForeignAnswers \subseteq {"card", "denied"}

VARIABLES
    holder,       \* which program this is
    port,         \* who listens at its ports
    http,         \* the task of its HTTP server
    should_exit,  \* that server was told to exit
    busy,         \* it is executing somebody's request
    grpc,         \* the gRPC server
    pc,           \* where the coroutine that holds them is
    exc,          \* it ends, or has ended, by an exception
    cut,          \* its clean-up was cut short
    outer,        \* where the coroutine that awaits it is, asyncio.run's main one
    signal,       \* the operator's one signal: taken by uvicorn, or delivered
    turn, conn, answer,  \* a smoke's requests, as in TriadPilot
    seen,         \* the LAN pilot's snapshot had a listener on its address
    verdict,
    alive         \* the process

server == <<port, http, should_exit, busy, grpc>>
asked == <<turn, conn, answer>>
judged == <<seen, verdict>>
vars == <<holder, server, pc, exc, cut, outer, signal, asked, judged, alive>>

Services == {"service", "service with gRPC"}
WithGrpc == holder = "service with gRPC"
Ports == {"http", "grpc"}
Cleaning == {"stop_grpc", "await_http"}

TypeOK ==
    /\ holder \in Holders
    /\ port \in [Ports -> {"free", "foreign", "ours"}]
    /\ http \in {"none", "created", "serving", "closing", "ended", "returned", "cancelled"}
    /\ grpc \in {"none", "bound", "up", "stopped"}
    /\ pc \in {"probe", "launch", "http_wait", "grpc_bind", "grpc_start", "grpc_wait", "body", "over"} \cup Cleaning
    /\ outer \in {"waiting", "joining", "reaping", "over"}
    /\ signal \in {"none", "SIGINT", "SIGTERM", "delivered"}
    /\ turn \in 1 .. 4
    /\ conn \in {"none", "ours", "foreign"}
    /\ answer \in [{"card", "jsonrpc", "denied"} -> {"none", "ours", "foreign", "wrong"}]
    /\ verdict \in {"none", "passed", "failed"}
    /\ should_exit \in BOOLEAN /\ busy \in BOOLEAN /\ exc \in BOOLEAN
    /\ cut \in BOOLEAN /\ seen \in BOOLEAN /\ alive \in BOOLEAN

-----------------------------------------------------------------------------
(* The coroutine that holds the server.                                     *)

(* the ports are probed, by the LAN pilot before it creates its smoke's     *)
(* task; the live pilot has reserved one and given it back                  *)
Probe ==
    /\ alive
    /\ pc = "probe"
    /\ \/ /\ holder = "live pilot" \/ (port["http"] = "free" /\ (WithGrpc => port["grpc"] = "free"))
          /\ pc' = "launch"
          /\ outer' = IF holder = "LAN pilot" THEN "waiting" ELSE "joining"
          /\ UNCHANGED exc
       \/ /\ holder # "live pilot"
          /\ port["http"] # "free" \/ (WithGrpc /\ port["grpc"] # "free")
          /\ pc' = "over" /\ outer' = "over" /\ exc' = TRUE
    /\ UNCHANGED <<holder, server, cut, signal, asked, judged, alive>>

Launch ==
    /\ alive
    /\ pc = "launch"
    /\ http' = "created"
    /\ pc' = "http_wait"
    /\ UNCHANGED <<holder, port, should_exit, busy, grpc, exc, cut, outer, signal, asked, judged, alive>>

(* wait_for_tcp is content with anything that listens *)
HttpAnswers ==
    /\ alive
    /\ pc = "http_wait"
    /\ port["http"] # "free"
    /\ pc' = IF WithGrpc THEN "grpc_bind" ELSE "body"
    /\ UNCHANGED <<holder, server, exc, cut, outer, signal, asked, judged, alive>>

GrpcBind ==
    /\ alive
    /\ pc = "grpc_bind"
    /\ IF port["grpc"] = "free"
       THEN port' = [port EXCEPT !["grpc"] = "ours"] /\ grpc' = "bound" /\ pc' = "grpc_start" /\ UNCHANGED exc
       ELSE pc' = "stop_grpc" /\ exc' = TRUE /\ UNCHANGED <<port, grpc>>
    /\ UNCHANGED <<holder, http, should_exit, busy, cut, outer, signal, asked, judged, alive>>

GrpcStarted ==
    /\ alive
    /\ pc = "grpc_start"
    /\ grpc' = "up"
    /\ pc' = "grpc_wait"
    /\ UNCHANGED <<holder, port, http, should_exit, busy, exc, cut, outer, signal, asked, judged, alive>>

(* the service then says that it is running, and sleeps *)
GrpcAnswers ==
    /\ alive
    /\ pc = "grpc_wait"
    /\ port["grpc"] # "free"
    /\ pc' = "body"
    /\ UNCHANGED <<holder, server, exc, cut, outer, signal, asked, judged, alive>>

(* a wait for a listener runs into its five seconds *)
WaitTimesOut ==
    /\ alive
    /\ pc \in {"http_wait", "grpc_wait"}
    /\ pc' = "stop_grpc"
    /\ exc' = TRUE
    /\ UNCHANGED <<holder, server, cut, outer, signal, asked, judged, alive>>

(* faulty variant: the refusal is asked for first *)
ScriptRefusalFirst == <<"denied", "card", "jsonrpc">>

(* the requests of a pilot's smoke, in their order *)
Script == <<"card", "jsonrpc", "denied">>

App == [require_auth |-> TRUE, test_token |-> "minted", allowed_peer_ids |-> {"peer"}]
Headers == Requests("minted", "peer")

Asking == alive /\ pc = "body" /\ holder \notin Services /\ turn \in 1 .. 3

(* one client for all: it keeps its connection, or makes a new one *)
Reached == {port["http"]} \cup (IF turn = 1 THEN {} ELSE {conn})

AskOther ==
    /\ Asking
    /\ "foreign" \in Reached
    /\ \E a \in {"wrong"} \cup (IF Script[turn] \in ForeignAnswers THEN {"foreign"} ELSE {}) :
          answer' = [answer EXCEPT ![Script[turn]] = a]
    /\ conn' = "foreign"
    /\ turn' = turn + 1
    /\ UNCHANGED <<holder, server, pc, exc, cut, outer, signal, judged, alive>>

(* its own application answers; an execution may fail *)
AskOwn ==
    /\ Asking
    /\ http = "serving"
    /\ "ours" \in Reached
    /\ LET kind == Script[turn]
           executes == kind \in HttpSends /\ Admitted(App, Headers[kind])
           asserted == AnswersAsAsserted(App, kind, Headers[kind]) IN
       \E a \in {IF asserted THEN "ours" ELSE "wrong"} \cup (IF executes THEN {"wrong"} ELSE {}) :
          answer' = [answer EXCEPT ![kind] = a]
    /\ conn' = "ours"
    /\ turn' = turn + 1
    /\ UNCHANGED <<holder, server, pc, exc, cut, outer, signal, judged, alive>>

(* no connection, or no answer in time *)
AskRaises ==
    /\ Asking
    /\ pc' = "stop_grpc"
    /\ exc' = TRUE
    /\ UNCHANGED <<holder, server, cut, outer, signal, asked, judged, alive>>

(* faulty variant: the end of the smoke counts as a request of its own *)
SmokeDoneCounted ==
    /\ alive
    /\ pc = "body"
    /\ turn = 4
    /\ turn' = turn + 1
    /\ pc' = "stop_grpc"
    /\ UNCHANGED <<holder, server, exc, cut, outer, signal, conn, answer, judged, alive>>

SmokeDone ==
    /\ alive
    /\ pc = "body"
    /\ turn = 4
    /\ pc' = "stop_grpc"
    /\ UNCHANGED <<holder, server, exc, cut, outer, signal, asked, judged, alive>>

-----------------------------------------------------------------------------
(* Its finally clause.                                                      *)

StopGrpc ==
    /\ alive
    /\ pc = "stop_grpc"
    /\ grpc = "up"
    /\ grpc' = "stopped"
    /\ port' = [port EXCEPT !["grpc"] = "free"]
    /\ UNCHANGED <<holder, http, should_exit, busy, pc, exc, cut, outer, signal, asked, judged, alive>>

(* the exception leaves the clause, and the HTTP server is told nothing *)
StopGrpcRaises ==
    /\ alive
    /\ pc = "stop_grpc"
    /\ grpc = "up"
    /\ pc' = "over"
    /\ exc' = TRUE
    /\ cut' = TRUE
    /\ UNCHANGED <<holder, server, outer, signal, asked, judged, alive>>

(* faulty variant: the server's task is awaited, but nothing has told it *)
AwaitUntold ==
    /\ alive
    /\ pc = "stop_grpc"
    /\ grpc # "up"
    /\ pc' = "await_http"
    /\ UNCHANGED <<holder, server, exc, cut, outer, signal, asked, judged, alive>>

TellHttp ==
    /\ alive
    /\ pc = "stop_grpc"
    /\ grpc # "up"
    /\ should_exit' = TRUE
    /\ pc' = "await_http"
    /\ UNCHANGED <<holder, port, http, busy, grpc, exc, cut, outer, signal, asked, judged, alive>>

HttpIsOver ==
    /\ alive
    /\ pc = "await_http"
    /\ http \in {"ended", "returned"}
    /\ pc' = "over"
    /\ UNCHANGED <<holder, server, exc, cut, outer, signal, asked, judged, alive>>

-----------------------------------------------------------------------------
(* Cancellation, where an await is waiting: in the clean-up it reaches the  *)
(* task that is awaited, which is the HTTP server's.                        *)
CancelHolder ==
    /\ exc' = TRUE
    /\ CASE pc \in {"http_wait", "grpc_start", "grpc_wait", "body"} ->
              pc' = "stop_grpc" /\ UNCHANGED cut
         [] pc \in Cleaning -> pc' = "over" /\ cut' = TRUE
         [] OTHER -> pc' = "over" /\ UNCHANGED cut

(* what becomes of the HTTP server's task, h, and of a gRPC server that has *)
(* bound but is not started: dropped, it may or may not close               *)
CancelServers(h) ==
    /\ http' = IF pc = "await_http" /\ h \notin {"ended", "returned"} THEN "cancelled" ELSE h
    /\ \/ UNCHANGED port
       \/ pc = "grpc_start" /\ port' = [port EXCEPT !["grpc"] = "free"]

CancelMain(h) ==
    /\ CancelHolder
    /\ CancelServers(h)
    /\ outer' = IF outer = "waiting" THEN "reaping" ELSE outer

Dies ==
    /\ alive' = FALSE
    /\ port' = [p \in Ports |-> IF port[p] = "ours" THEN "free" ELSE port[p]]

(* An await may be waiting. *)
AtAwait == pc \notin {"probe", "grpc_bind"} /\ (pc = "launch" => holder = "LAN pilot")

SignalTaken(s) ==
    /\ alive /\ signal = "none"
    /\ http \in {"serving", "closing"}
    /\ signal' = s
    /\ should_exit' = TRUE
    /\ UNCHANGED <<holder, port, http, busy, grpc, pc, exc, cut, outer, asked, judged, alive>>

Interrupted ==
    /\ alive /\ signal = "none"
    /\ http \notin {"serving", "closing"}
    /\ AtAwait /\ outer # "over"
    /\ signal' = "delivered"
    /\ CancelMain(http)
    /\ UNCHANGED <<holder, should_exit, busy, grpc, asked, judged, alive>>

Terminated ==
    /\ alive /\ signal = "none"
    /\ http \notin {"serving", "closing"}
    /\ signal' = "delivered"
    /\ Dies
    /\ UNCHANGED <<holder, http, should_exit, busy, grpc, pc, exc, cut, outer, asked, judged>>

-----------------------------------------------------------------------------
(* The HTTP server's task.                                                  *)

(* it looks at should_exit after it has bound: told so early, it returns    *)
(* and leaves its listener to the event loop                                *)
UvicornBinds ==
    /\ alive /\ AtAwait
    /\ http = "created"
    /\ port["http"] = "free"
    /\ port' = [port EXCEPT !["http"] = "ours"]
    /\ http' = IF should_exit THEN "returned" ELSE "serving"
    /\ UNCHANGED <<holder, should_exit, busy, grpc, pc, exc, cut, outer, signal, asked, judged, alive>>

(* faulty variant: a server that cannot bind ends its task, no more *)
UvicornOnlyReturns ==
    /\ alive /\ AtAwait
    /\ http = "created"
    /\ port["http"] # "free"
    /\ http' = "ended"
    /\ UNCHANGED <<holder, port, should_exit, busy, grpc, pc, exc, cut, outer, signal, asked, judged, alive>>

(* one that cannot bind exits the process *)
UvicornCannotBind ==
    /\ alive /\ AtAwait
    /\ http = "created"
    /\ port["http"] # "free"
    /\ Dies
    /\ UNCHANGED <<holder, http, should_exit, busy, grpc, pc, exc, cut, outer, signal, asked, judged>>

UvicornCloses ==
    /\ alive /\ AtAwait
    /\ http = "serving"
    /\ should_exit
    /\ http' = "closing"
    /\ port' = [port EXCEPT !["http"] = "free"]
    /\ UNCHANGED <<holder, should_exit, busy, grpc, pc, exc, cut, outer, signal, asked, judged, alive>>

(* it waits for the requests it executes, then raises the signal it took *)
UvicornEnds ==
    /\ alive /\ AtAwait
    /\ http = "closing"
    /\ ~ busy
    /\ signal' = IF signal = "none" THEN "none" ELSE "delivered"
    /\ CASE signal = "SIGTERM" ->
              http' = "ended" /\ Dies /\ UNCHANGED <<pc, exc, cut, outer>>
         [] signal = "SIGINT" /\ outer # "over" -> CancelMain("ended") /\ UNCHANGED alive
         [] OTHER -> http' = "ended" /\ UNCHANGED <<port, pc, exc, cut, outer, alive>>
    /\ UNCHANGED <<holder, should_exit, busy, grpc, asked, judged>>

RequestArrives ==
    /\ alive
    /\ http = "serving" /\ ~ busy
    /\ busy' = TRUE
    /\ UNCHANGED <<holder, port, http, should_exit, grpc, pc, exc, cut, outer, signal, asked, judged, alive>>

RequestEnds ==
    /\ alive
    /\ busy
    /\ busy' = FALSE
    /\ UNCHANGED <<holder, port, http, should_exit, grpc, pc, exc, cut, outer, signal, asked, judged, alive>>

-----------------------------------------------------------------------------
(* The LAN pilot beside its smoke, and what comes after a smoke.            *)

(* wait_for_tcp, and the snapshot at once: what listens may be another's,   *)
(* and gone by then                                                         *)
PilotSees ==
    /\ alive
    /\ outer = "waiting"
    /\ port["http"] # "free"
    /\ seen' \in IF port["http"] = "ours" THEN {TRUE} ELSE BOOLEAN
    /\ outer' = "joining"
    /\ UNCHANGED <<holder, server, pc, exc, cut, signal, asked, verdict, alive>>

(* faulty variant: the cancelled smoke is not awaited *)
PilotLeavesSmoke ==
    /\ alive
    /\ outer = "waiting"
    /\ outer' = "over"
    /\ IF pc = "over" THEN UNCHANGED <<port, http, pc, exc, cut>> ELSE CancelHolder /\ CancelServers(http)
    /\ UNCHANGED <<holder, should_exit, busy, grpc, signal, asked, judged, alive>>

(* its five seconds are over, though its smoke may have come and gone       *)
PilotMisses ==
    /\ alive
    /\ outer = "waiting"
    /\ outer' = "reaping"
    /\ IF pc = "over" THEN UNCHANGED <<port, http, pc, exc, cut>> ELSE CancelHolder /\ CancelServers(http)
    /\ UNCHANGED <<holder, should_exit, busy, grpc, signal, asked, judged, alive>>

(* the smoke, or the service, ended by an exception, or was not wanted *)
Raises ==
    /\ alive
    /\ pc = "over"
    /\ outer = "reaping" \/ (outer = "joining" /\ exc)
    /\ outer' = "over"
    /\ UNCHANGED <<holder, server, pc, exc, cut, signal, asked, judged, alive>>

(* the snapshot after it, and the assertions on the smoke; others, such as  *)
(* the launcher's or the reachability proof, are PilotEvidence's            *)
Judge ==
    /\ alive
    /\ pc = "over" /\ outer = "joining" /\ ~ exc
    /\ LET asserted == /\ \A k \in DOMAIN answer : answer[k] \in {"ours", "foreign"}
                       /\ port["http"] = "free"
                       /\ holder = "LAN pilot" => seen IN
       verdict' \in {"failed"} \cup (IF asserted THEN {"passed"} ELSE {})
    /\ outer' = "over"
    /\ UNCHANGED <<holder, server, pc, exc, cut, signal, asked, seen, alive>>

Exit ==
    /\ alive
    /\ outer = "over"
    /\ Dies
    /\ UNCHANGED <<holder, http, should_exit, busy, grpc, pc, exc, cut, outer, signal, asked, judged>>

ForeignTakes(p) ==
    /\ alive
    /\ port[p] = "free"
    /\ port' = [port EXCEPT ![p] = "foreign"]
    /\ UNCHANGED <<holder, http, should_exit, busy, grpc, pc, exc, cut, outer, signal, asked, judged, alive>>

ForeignReleases(p) ==
    /\ alive
    /\ port[p] = "foreign"
    /\ port' = [port EXCEPT ![p] = "free"]
    /\ UNCHANGED <<holder, http, should_exit, busy, grpc, pc, exc, cut, outer, signal, asked, judged, alive>>

-----------------------------------------------------------------------------
Init ==
    /\ holder \in Holders
    /\ port \in [Ports -> {"free", "foreign"}]
    /\ http = "none" /\ grpc = "none"
    /\ pc = "probe" /\ outer = "joining" /\ signal = "none"
    /\ turn = 1 /\ conn = "none"
    /\ answer = [k \in {"card", "jsonrpc", "denied"} |-> "none"]
    /\ verdict = "none" /\ alive = TRUE
    /\ should_exit = FALSE /\ busy = FALSE /\ exc = FALSE /\ cut = FALSE /\ seen = FALSE

Hold ==
    \/ Probe \/ Launch \/ HttpAnswers \/ GrpcBind \/ GrpcStarted \/ GrpcAnswers \/ WaitTimesOut
    \/ AskOther \/ AskOwn \/ AskRaises \/ SmokeDone
    \/ StopGrpc \/ StopGrpcRaises \/ TellHttp \/ HttpIsOver

Uvicorn == UvicornBinds \/ UvicornCannotBind \/ UvicornCloses \/ UvicornEnds

Pilot == PilotSees \/ PilotMisses \/ Raises \/ Judge

Next ==
    \/ Hold \/ Uvicorn \/ RequestArrives \/ RequestEnds
    \/ Pilot \/ Exit
    \/ SignalTaken("SIGINT") \/ SignalTaken("SIGTERM") \/ Interrupted \/ Terminated
    \/ \E p \in Ports : ForeignTakes(p) \/ ForeignReleases(p)

Spec == Init /\ [][Next]_vars

(* The event loop runs its coroutines and timers, stopping gRPC is bounded  *)
(* by its grace, and every request that is executed ends (TaskExecution's   *)
(* Settles: its executors settle if their children's pipes close).          *)
FairSpec ==
    /\ Spec
    /\ WF_vars(Hold) /\ WF_vars(Uvicorn) /\ WF_vars(Pilot) /\ WF_vars(Exit)
    /\ WF_vars(RequestEnds)
-----------------------------------------------------------------------------
(* Properties.                                                              *)

OwnPorts == IF WithGrpc THEN Ports ELSE {"http"}

(* A service that has said that it is running makes it good: it comes to    *)
(* listen at its ports, or it stops, or its process ends. It may have said  *)
(* so because of another process's listener; it does not go on saying so.   *)
RunningIsMadeGood ==
    holder \in Services /\ pc = "body" ~>
        (\A p \in OwnPorts : port[p] = "ours") \/ pc # "body" \/ ~ alive

(* A service that says that it is running has its servers, although it only *)
(* sleeps and never looks at them: an HTTP server that ended, unable to     *)
(* bind or on a signal, would have taken the coroutine or the process along. *)
RunningHasItsServers ==
    alive /\ holder \in Services /\ pc = "body" =>
        /\ http \in {"created", "serving", "closing"}
        /\ WithGrpc => grpc = "up" /\ port["grpc"] = "ours"

(* A pilot that passed was answered by its own server where the answer says *)
(* something about it: another process may have served the card, or have    *)
(* been the listener of the LAN pilot's snapshot, never the rest.           *)
PassedServedItself ==
    verdict = "passed" => answer["jsonrpc"] = "ours" /\ answer["denied"] = "ours"

(* When the main coroutine is over, its clean-up uninterrupted and without  *)
(* an error of gRPC's, nothing of its own listens any more, before the      *)
(* process has ended: but for an HTTP server told to exit before it bound,  *)
(* and a gRPC server that was dropped between its binding and its start.    *)
OverMeansClosed ==
    alive /\ outer = "over" /\ ~ cut =>
        /\ port["http"] = "ours" => http = "returned"
        /\ port["grpc"] = "ours" => grpc = "bound"

(* The wait without a limit ends: a clean-up once begun ends with the       *)
(* process, whatever raised, was cancelled or signalled, and so does every  *)
(* pilot, also one that missed its own smoke.                               *)
CleanUpEnds ==
    /\ pc \in Cleaning ~> ~ alive
    /\ holder \notin Services ~> ~ alive
=================================================================================
