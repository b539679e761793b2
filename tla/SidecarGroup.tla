------------------------------ MODULE SidecarGroup ------------------------------
(***************************************************************************)
(* SidecarGroup and its SidecarRuntimes (serve.py): the loopback sidecars  *)
(* of one roster are started one after the other in one event loop, each   *)
(* with an HTTP server, which binds in a task of its own, and perhaps a    *)
(* gRPC server, and are stopped in reverse order; processes that have      *)
(* nothing to do with them may take or release the ports at any time.      *)
(*                                                                         *)
(* uvicorn and grpc.aio are external: modelled by when they bind and close *)
(* and by how they report that they cannot.                                *)
(***************************************************************************)
EXTENDS Integers

CONSTANTS
    N,             \* the number of sidecars in the roster
    Permitted,     \* those on 127.0.0.1 that have the token their auth mode needs
    WithGrpc       \* those that have a gRPC port

Runtimes == 1 .. N

ASSUME NAssumption == N \in Nat \ {0}
ASSUME RosterAssumption == Permitted \subseteq Runtimes /\ WithGrpc \subseteq Runtimes

(* The roster's ports: the loader refuses one that names a port twice. *)
Ports == ({"http"} \X Runtimes) \cup ({"grpc"} \X WithGrpc)
HttpPort(r) == <<"http", r>>
GrpcPort(r) == <<"grpc", r>>
PortsOf(r) == {p \in Ports : p[2] = r}

VARIABLES
    port,        \* who listens at each port
    http,        \* the HTTP server's task, for each runtime
    grpc,        \* whether runtime._grpc_server is set
    pc,          \* where the group is
    cur,         \* the runtime being started or stopped
    started,     \* the runtimes whose start() returned
    stop_failed, \* the runtimes whose stop() raised
    cancelled    \* a rollback or a leaving was cancelled at an await of a stop()

vars == <<port, http, grpc, pc, cur, started, stop_failed, cancelled>>

Starting == {"launching", "http_wait", "grpc_bind", "grpc_start", "grpc_wait"}
Stopping == {"rollback", "rollback_http", "leaving", "leaving_http"}

TypeOK ==
    /\ port \in [Ports -> {"free", "foreign", "ours"}]
    /\ http \in [Runtimes -> {"none", "created", "serving", "returned", "ended"}]
    /\ grpc \in [Runtimes -> BOOLEAN]
    /\ pc \in Starting \cup Stopping \cup {"serving", "left", "failed", "dead"}
    /\ cur \in 0 .. N
    /\ started \subseteq Runtimes
    /\ stop_failed \subseteq Runtimes
    /\ cancelled \in BOOLEAN

(* The group's own code is at an await, or has raised: other tasks may run. *)
Waiting == pc \in {"http_wait", "grpc_start", "grpc_wait", "serving", "left", "failed"} \cup Stopping

-----------------------------------------------------------------------------
(* __aenter__: start() of each runtime in turn.                             *)

(* faulty variant: the last of those started is taken for the failed one *)
StartFailsTwice == pc' = "rollback" /\ cur' = IF cur > 1 THEN cur - 2 ELSE 0

StartFails == pc' = "rollback" /\ cur' = cur - 1

StartNext ==
    /\ started' = started \cup {cur}
    /\ IF cur < N THEN pc' = "launching" /\ cur' = cur + 1
       ELSE pc' = "serving" /\ cur' = N

(* guards, assert_port_free for each port, and create_task *)
Launch ==
    /\ pc = "launching"
    /\ cur \in Permitted
    /\ \A p \in PortsOf(cur) : port[p] = "free"
    /\ http' = [http EXCEPT ![cur] = "created"]
    /\ pc' = "http_wait"
    /\ UNCHANGED <<port, grpc, cur, started, stop_failed, cancelled>>

LaunchRefused ==
    /\ pc = "launching"
    /\ cur \notin Permitted \/ \E p \in PortsOf(cur) : port[p] # "free"
    /\ StartFails
    /\ UNCHANGED <<port, http, grpc, started, stop_failed, cancelled>>

(* wait_for_tcp is content with anything that listens *)
HttpAnswers ==
    /\ pc = "http_wait"
    /\ port[HttpPort(cur)] # "free"
    /\ IF cur \in WithGrpc THEN pc' = "grpc_bind" /\ UNCHANGED <<cur, started>> ELSE StartNext
    /\ UNCHANGED <<port, http, grpc, stop_failed, cancelled>>

(* LocalGrpcServer binds at once, and refuses to go on if it could not *)
GrpcBind ==
    /\ pc = "grpc_bind"
    /\ port[GrpcPort(cur)] = "free"
    /\ port' = [port EXCEPT ![GrpcPort(cur)] = "ours"]
    /\ pc' = "grpc_start"
    /\ UNCHANGED <<http, grpc, cur, started, stop_failed, cancelled>>

(* faulty variant: the port that add_insecure_port returns is not looked at *)
GrpcBindUnchecked ==
    /\ pc = "grpc_bind"
    /\ port[GrpcPort(cur)] # "free"
    /\ pc' = "grpc_start"
    /\ UNCHANGED <<port, http, grpc, cur, started, stop_failed, cancelled>>

GrpcBindFails ==
    /\ pc = "grpc_bind"
    /\ port[GrpcPort(cur)] # "free"
    /\ StartFails
    /\ UNCHANGED <<port, http, grpc, started, stop_failed, cancelled>>

GrpcStarted ==
    /\ pc = "grpc_start"
    /\ grpc' = [grpc EXCEPT ![cur] = TRUE]
    /\ pc' = "grpc_wait"
    /\ UNCHANGED <<port, http, cur, started, stop_failed, cancelled>>

GrpcAnswers ==
    /\ pc = "grpc_wait"
    /\ port[GrpcPort(cur)] # "free"
    /\ StartNext
    /\ UNCHANGED <<port, http, grpc, stop_failed, cancelled>>

(* a wait for a listener runs into its five seconds, or the group's task is *)
(* cancelled at any await of a start; a gRPC server that has bound but is   *)
(* not started yet is dropped, and may or may not close with that           *)
StartInterrupted ==
    /\ pc \in {"http_wait", "grpc_start", "grpc_wait"}
    /\ \/ UNCHANGED port
       \/ pc = "grpc_start" /\ port' = [port EXCEPT ![GrpcPort(cur)] = "free"]
    /\ StartFails
    /\ UNCHANGED <<http, grpc, started, stop_failed, cancelled>>

-----------------------------------------------------------------------------
(* The HTTP server's task.                                                  *)

(* stop() has set its should_exit, and waits for its task *)
ToldToExit(r) == pc \in {"rollback_http", "leaving_http"} /\ cur = r

(* one that is told to exit before it has run binds, sees that it is told, *)
(* and returns, with its listener open                                     *)
UvicornBinds(r) ==
    /\ Waiting
    /\ http[r] = "created"
    /\ port[HttpPort(r)] = "free"
    /\ http' = [http EXCEPT ![r] = IF ToldToExit(r) THEN "returned" ELSE "serving"]
    /\ port' = [port EXCEPT ![HttpPort(r)] = "ours"]
    /\ UNCHANGED <<grpc, pc, cur, started, stop_failed, cancelled>>

(* uvicorn exits the whole process when it cannot bind; so may an operator *)
ProcessDies ==
    /\ port' = [p \in Ports |-> IF port[p] = "ours" THEN "free" ELSE port[p]]
    /\ pc' = "dead"
    /\ UNCHANGED <<http, grpc, cur, started, stop_failed, cancelled>>

UvicornCannotBind(r) ==
    /\ Waiting
    /\ http[r] = "created"
    /\ port[HttpPort(r)] # "free"
    /\ ProcessDies

-----------------------------------------------------------------------------
(* stop() of each runtime: gRPC first, then HTTP; its errors, if any, are   *)
(* raised at the end. Rolling back stops those before the one that failed,  *)
(* leaving stops all of them.                                               *)

(* Faulty variants: leaving begins one past the last runtime ... *)
LeaveFromPastEnd ==
    /\ pc = "serving"
    /\ pc' = "leaving"
    /\ cur' = N + 1
    /\ UNCHANGED <<port, http, grpc, started, stop_failed, cancelled>>

(* ... and the HTTP server is waited for without a limit. *)
StopHttpEndsLate ==
    /\ pc \in {"rollback_http", "leaving_http"}
    /\ http[cur] = "ended"
    /\ stop_failed' = stop_failed \cup {cur}
    /\ UNCHANGED <<port, http, grpc, pc, cur, started, cancelled>>

Leave ==
    /\ pc = "serving"
    /\ pc' = "leaving"
    /\ cur' = N
    /\ UNCHANGED <<port, http, grpc, started, stop_failed, cancelled>>

Over == IF pc \in {"rollback", "rollback_http"} THEN "failed" ELSE "left"

StopGrpc ==
    /\ pc \in {"rollback", "leaving"}
    /\ cur > 0
    /\ IF grpc[cur]
       THEN /\ grpc' = [grpc EXCEPT ![cur] = FALSE]
            /\ \/ /\ port' = [port EXCEPT ![GrpcPort(cur)] = "free"]
                  /\ UNCHANGED stop_failed
               \/ /\ stop_failed' = stop_failed \cup {cur}
                  /\ UNCHANGED port
       ELSE UNCHANGED <<grpc, port, stop_failed>>
    /\ pc' = IF pc = "rollback" THEN "rollback_http" ELSE "leaving_http"
    /\ UNCHANGED <<http, cur, started, cancelled>>

(* a stop() that raised ends the rollback; leaving goes on with the next one *)
StopNext(failed) ==
    IF pc = "rollback_http" /\ failed
    THEN pc' = "failed" /\ UNCHANGED cur
    ELSE pc' = (IF pc = "rollback_http" THEN "rollback" ELSE "leaving") /\ cur' = cur - 1

(* should_exit: the HTTP server closes its socket and its task ends *)
StopHttp ==
    /\ pc \in {"rollback_http", "leaving_http"}
    /\ http[cur] = "serving"
    /\ http' = [http EXCEPT ![cur] = "ended"]
    /\ port' = [port EXCEPT ![HttpPort(cur)] = "free"]
    /\ StopNext(cur \in stop_failed)
    /\ UNCHANGED <<grpc, started, stop_failed, cancelled>>

(* its task had returned by itself: stop() meets no error *)
HttpReturned ==
    /\ pc \in {"rollback_http", "leaving_http"}
    /\ http[cur] = "returned"
    /\ StopNext(cur \in stop_failed)
    /\ UNCHANGED <<port, http, grpc, started, stop_failed, cancelled>>

(* A task that is cancelled leaves its socket, unless it closed it before   *)
(* it waited for its connections.                                           *)
HttpTaskCancelled ==
    /\ http' = [http EXCEPT ![cur] = "ended"]
    /\ \/ UNCHANGED port
       \/ http[cur] = "serving" /\ port' = [port EXCEPT ![HttpPort(cur)] = "free"]

(* it does not end within five seconds *)
StopHttpTimesOut ==
    /\ pc \in {"rollback_http", "leaving_http"}
    /\ http[cur] \in {"created", "serving"}
    /\ HttpTaskCancelled
    /\ stop_failed' = stop_failed \cup {cur}
    /\ StopNext(TRUE)
    /\ UNCHANGED <<grpc, started, cancelled>>

(* The group's task is cancelled at an await of a stop(): that is no        *)
(* Exception, nobody catches it, and neither what is left of this stop()    *)
(* nor any further one happens.                                             *)
StopCancelled ==
    /\ \/ /\ pc \in {"rollback", "leaving"}
          /\ cur > 0 /\ grpc[cur]
          /\ UNCHANGED http
          /\ \/ UNCHANGED port
             \/ port' = [port EXCEPT ![GrpcPort(cur)] = "free"]
       \/ /\ pc \in {"rollback_http", "leaving_http"}
          /\ IF http[cur] = "returned" THEN UNCHANGED <<port, http>> ELSE HttpTaskCancelled
    /\ cancelled' = TRUE
    /\ pc' = Over
    /\ UNCHANGED <<grpc, cur, started, stop_failed>>

Stopped ==
    /\ pc \in {"rollback", "leaving"}
    /\ cur = 0
    /\ pc' = Over
    /\ UNCHANGED <<port, http, grpc, cur, started, stop_failed, cancelled>>

-----------------------------------------------------------------------------
(* Other processes on the host.                                             *)

ForeignTakes(p) ==
    /\ port[p] = "free"
    /\ port' = [port EXCEPT ![p] = "foreign"]
    /\ UNCHANGED <<http, grpc, pc, cur, started, stop_failed, cancelled>>

ForeignReleases(p) ==
    /\ port[p] = "foreign"
    /\ port' = [port EXCEPT ![p] = "free"]
    /\ UNCHANGED <<http, grpc, pc, cur, started, stop_failed, cancelled>>

Init ==
    /\ port \in [Ports -> {"free", "foreign"}]
    /\ http = [r \in Runtimes |-> "none"]
    /\ grpc = [r \in Runtimes |-> FALSE]
    /\ pc = "launching"
    /\ cur = 1
    /\ started = {}
    /\ stop_failed = {}
    /\ cancelled = FALSE

Start ==
    \/ Launch \/ LaunchRefused \/ HttpAnswers \/ GrpcBind \/ GrpcBindFails
    \/ GrpcStarted \/ GrpcAnswers \/ StartInterrupted

Stop == StopGrpc \/ StopHttp \/ HttpReturned \/ StopHttpTimesOut \/ StopCancelled \/ Stopped

Uvicorn(r) == UvicornBinds(r) \/ UvicornCannotBind(r)

Next ==
    \/ Start \/ Leave \/ Stop
    \/ \E r \in Runtimes : Uvicorn(r)
    \/ \E p \in Ports : ForeignTakes(p) \/ ForeignReleases(p)

Spec == Init /\ [][Next]_vars

(* The event loop runs its tasks and timers. Whether an HTTP server closes  *)
(* when it is told to is not up to it, and nobody has to cancel anything.   *)
FairSpec == Spec /\ WF_vars(Start) /\ WF_vars(StopGrpc) /\ WF_vars(HttpReturned)
                 /\ WF_vars(StopHttpTimesOut) /\ WF_vars(Stopped)
                 /\ \A r \in Runtimes : WF_vars(Uvicorn(r))
-----------------------------------------------------------------------------
(* Properties.                                                              *)

Closed(r) == \A p \in PortsOf(r) : port[p] # "ours"

(* start() raised in this runtime: it is the first of those not started.    *)
StartRaised(r) == r \notin started /\ \A q \in Runtimes : q < r => q \in started

(* What is still open once a group was left, or could not be entered. The   *)
(* clean-up goes from the last sidecar to the first, and ends before that   *)
(* only if it was cancelled at an await of a stop(), or if a stop() raised  *)
(* in a rollback. Of the sidecars it has come past, all have closed, even   *)
(* if another's stop() raised, but for those whose own stop() raised, the   *)
(* one whose start() raised, which is never stopped, and the HTTP listener  *)
(* of a server that was told to exit before it ran.                         *)
StoppedMeansClosed ==
    pc \in {"left", "failed"} =>
        /\ cur = 0 \/ cancelled \/ (pc = "failed" /\ cur \in stop_failed)
        /\ \A r \in Runtimes \ stop_failed : r > cur =>
              \/ \A p \in PortsOf(r) : port[p] = "ours" => p = HttpPort(r) /\ http[r] = "returned"
              \/ pc = "failed" /\ StartRaised(r)

(* A group that says it serves does so on listeners of its own, whoever     *)
(* took or released ports while it started: the one thing that may be       *)
(* missing is an HTTP server whose task has not run yet.                    *)
ServesOnOwnListeners ==
    pc = "serving" => \A r \in Runtimes : \A p \in PortsOf(r) :
        port[p] = "ours" \/ (p = HttpPort(r) /\ http[r] = "created")

(* Entering and leaving a group both come to an end, whatever the servers   *)
(* and the other processes on the host do.                                  *)
GroupSettles ==
    /\ pc \in Starting ~> pc \notin Starting
    /\ pc \in Stopping ~> pc \notin Stopping

(* docs/operator.md:111, "stops every sidecar": a group that could not be   *)
(* entered, and whose rollback met no error and was not cancelled, leaves   *)
(* no listener behind.                                                      *)
FailedStartLeavesNothing ==
    pc = "failed" /\ stop_failed = {} /\ ~ cancelled => \A r \in Runtimes : Closed(r)
=================================================================================
