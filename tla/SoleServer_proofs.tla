--------------------------- MODULE SoleServer_proofs ---------------------------
(***************************************************************************)
(* Proofs about SoleServer, for every choice of the programs looked at and *)
(* of what other processes can answer.                                     *)
(***************************************************************************)
EXTENDS SoleServer, TLAPS

(* TypeOK in two parts. *)
ServerOK ==
    /\ holder \in Holders
    /\ port \in [Ports -> {"free", "foreign", "ours"}]
    /\ http \in {"none", "created", "serving", "closing", "ended", "returned", "cancelled"}
    /\ grpc \in {"none", "bound", "up", "stopped"}
    /\ pc \in {"probe", "launch", "http_wait", "grpc_bind", "grpc_start", "grpc_wait", "body", "over"} \cup Cleaning
    /\ outer \in {"waiting", "joining", "reaping", "over"}
    /\ signal \in {"none", "SIGINT", "SIGTERM", "delivered"}
AskedOK ==
    /\ turn \in 1 .. 4
    /\ conn \in {"none", "ours", "foreign"}
    /\ answer \in [{"card", "jsonrpc", "denied"} -> {"none", "ours", "foreign", "wrong"}]
    /\ verdict \in {"none", "passed", "failed"}
FlagsOK ==
    /\ should_exit \in BOOLEAN /\ busy \in BOOLEAN /\ exc \in BOOLEAN
    /\ cut \in BOOLEAN /\ seen \in BOOLEAN /\ alive \in BOOLEAN

LEMMA ServerTypes ==
    ASSUME ServerOK, [Next]_vars
    PROVE  ServerOK'
<1> USE DEF ServerOK, server, asked, judged, Cleaning, Ports
<1>1. CASE Hold
  BY <1>1 DEF Hold, Probe, Launch, HttpAnswers, GrpcBind, GrpcStarted, GrpcAnswers, WaitTimesOut, Services,
     AskOther, AskOwn, AskRaises, Asking, Script, SmokeDone, StopGrpc, StopGrpcRaises, TellHttp, HttpIsOver
<1>2. CASE UvicornBinds \/ UvicornCannotBind \/ UvicornCloses
  BY <1>2 DEF UvicornBinds, UvicornCannotBind, UvicornCloses, Dies
<1>3. CASE UvicornEnds
  BY <1>3 DEF UvicornEnds, Dies, AtAwait, CancelMain, CancelHolder, CancelServers
<1>4. CASE RequestArrives \/ RequestEnds
  BY <1>4 DEF RequestArrives, RequestEnds
<1>5. CASE PilotSees \/ Raises \/ Judge
  BY <1>5 DEF PilotSees, Raises, Judge
<1>6. CASE PilotMisses
  BY <1>6 DEF PilotMisses, CancelHolder, CancelServers
<1>7. CASE SignalTaken("SIGINT") \/ SignalTaken("SIGTERM") \/ Terminated \/ Exit
  BY <1>7 DEF SignalTaken, Terminated, Exit, Dies
<1>8. CASE Interrupted
  BY <1>8 DEF Interrupted, AtAwait, CancelMain, CancelHolder, CancelServers
<1>9. CASE (\E p \in Ports : ForeignTakes(p) \/ ForeignReleases(p)) \/ UNCHANGED vars
  BY <1>9 DEF ForeignTakes, ForeignReleases, vars
<1> QED
  BY <1>1, <1>2, <1>3, <1>4, <1>5, <1>6, <1>7, <1>8, <1>9 DEF Next, Uvicorn, Pilot

LEMMA AskedTypes ==
    ASSUME AskedOK, [Next]_vars
    PROVE  AskedOK'
<1> USE DEF AskedOK, server, asked, judged
<1>1. CASE Hold
  <2>1. CASE AskOther
    BY <2>1, ForeignAssumption DEF AskOther, Asking, Script
  <2>2. CASE AskOwn
    BY <2>2 DEF AskOwn, Asking, Script
  <2>3. CASE ~ AskOther /\ ~ AskOwn
    BY <1>1, <2>3 DEF Hold, Probe, Launch, HttpAnswers, GrpcBind, GrpcStarted, GrpcAnswers, WaitTimesOut,
       AskRaises, SmokeDone, StopGrpc, StopGrpcRaises, TellHttp, HttpIsOver
  <2> QED
    BY <2>1, <2>2, <2>3
<1>2. CASE UvicornBinds \/ UvicornCannotBind \/ UvicornCloses
  BY <1>2 DEF UvicornBinds, UvicornCannotBind, UvicornCloses, Dies
<1>3. CASE UvicornEnds
  BY <1>3 DEF UvicornEnds, Dies, AtAwait, CancelMain, CancelHolder, CancelServers
<1>4. CASE RequestArrives \/ RequestEnds
  BY <1>4 DEF RequestArrives, RequestEnds
<1>5. CASE PilotSees \/ Raises \/ Judge
  BY <1>5 DEF PilotSees, Raises, Judge
<1>6. CASE PilotMisses
  BY <1>6 DEF PilotMisses, CancelHolder, CancelServers
<1>7. CASE SignalTaken("SIGINT") \/ SignalTaken("SIGTERM") \/ Terminated \/ Exit
  BY <1>7 DEF SignalTaken, Terminated, Exit, Dies
<1>8. CASE Interrupted
  BY <1>8 DEF Interrupted, AtAwait, CancelMain, CancelHolder, CancelServers
<1>9. CASE (\E p \in Ports : ForeignTakes(p) \/ ForeignReleases(p)) \/ UNCHANGED vars
  BY <1>9 DEF ForeignTakes, ForeignReleases, vars
<1> QED
  BY <1>1, <1>2, <1>3, <1>4, <1>5, <1>6, <1>7, <1>8, <1>9 DEF Next, Uvicorn, Pilot

LEMMA FlagTypes ==
    ASSUME FlagsOK, [Next]_vars
    PROVE  FlagsOK'
<1> USE DEF FlagsOK, server, asked, judged
<1>1. CASE Hold
  BY <1>1 DEF Hold, Probe, Launch, HttpAnswers, GrpcBind, GrpcStarted, GrpcAnswers, WaitTimesOut, Services,
     AskOther, AskOwn, AskRaises, Asking, Script, SmokeDone, StopGrpc, StopGrpcRaises, TellHttp, HttpIsOver
<1>2. CASE UvicornBinds \/ UvicornCannotBind \/ UvicornCloses
  BY <1>2 DEF UvicornBinds, UvicornCannotBind, UvicornCloses, Dies
<1>3. CASE UvicornEnds
  BY <1>3 DEF UvicornEnds, Dies, AtAwait, CancelMain, CancelHolder, CancelServers
<1>4. CASE RequestArrives \/ RequestEnds
  BY <1>4 DEF RequestArrives, RequestEnds
<1>5. CASE PilotSees \/ Raises \/ Judge
  BY <1>5 DEF PilotSees, Raises, Judge
<1>6. CASE PilotMisses
  BY <1>6 DEF PilotMisses, CancelHolder, CancelServers
<1>7. CASE SignalTaken("SIGINT") \/ SignalTaken("SIGTERM") \/ Terminated \/ Exit
  BY <1>7 DEF SignalTaken, Terminated, Exit, Dies
<1>8. CASE Interrupted
  BY <1>8 DEF Interrupted, AtAwait, CancelMain, CancelHolder, CancelServers
<1>9. CASE (\E p \in Ports : ForeignTakes(p) \/ ForeignReleases(p)) \/ UNCHANGED vars
  BY <1>9 DEF ForeignTakes, ForeignReleases, vars
<1> QED
  BY <1>1, <1>2, <1>3, <1>4, <1>5, <1>6, <1>7, <1>8, <1>9 DEF Next, Uvicorn, Pilot

(* The holder's state is well typed (run_service and the pilots' smokes). *)
THEOREM TypeCorrect == Spec => []TypeOK
<1>1. Init => ServerOK
  BY DEF Init, ServerOK, Cleaning
<1>2. Init => AskedOK
  BY DEF Init, AskedOK
<1>3. Init => FlagsOK
  BY DEF Init, FlagsOK
<1>4. ServerOK /\ AskedOK /\ FlagsOK => TypeOK
  BY DEF ServerOK, AskedOK, FlagsOK, TypeOK
<1> QED
  BY <1>1, <1>2, <1>3, <1>4, ServerTypes, AskedTypes, FlagTypes, PTL DEF Spec

-----------------------------------------------------------------------------
(* Where the gRPC server and the awaiting coroutine can be. *)
Places ==
    /\ pc \in {"probe", "launch"} => http = "none" /\ grpc = "none"
    /\ pc \in {"http_wait", "grpc_bind"} => grpc = "none"
    /\ pc = "grpc_start" => grpc = "bound"
    /\ pc \in {"grpc_bind", "grpc_start", "grpc_wait"} => WithGrpc
    /\ outer = "over" => pc = "over"
    /\ outer \in {"waiting", "reaping"} => holder = "LAN pilot" /\ pc # "probe"

(* What an exception, or a clean-up cut short, says of the coroutine. *)
Raised == pc \notin Cleaning \cup {"over"} => ~ exc
Cut == cut => pc = "over" /\ exc
GrpcUp == grpc = "up" => pc \in {"grpc_wait", "body", "stop_grpc"} \/ cut

(* What becomes of the HTTP server's task, and what tells it to exit. *)
HttpCut == http = "cancelled" => cut
HttpOver == pc = "over" /\ ~ cut => http \in {"none", "ended", "returned"}
HttpDone == pc = "over" /\ ~ exc => http \in {"ended", "returned"}
HttpClosing == http = "closing" => should_exit
HttpTold == should_exit /\ signal = "none" => pc \in {"await_http", "over"}
Delivered == signal = "delivered" => exc \/ ~ alive

Listeners ==
    alive =>
        /\ http = "serving" => port["http"] = "ours"
        /\ port["http"] = "ours" => http \in {"serving", "returned", "cancelled"}
        /\ port["grpc"] = "ours" => grpc \in {"bound", "up"}

LEMMA PlacesStep ==
    ASSUME ServerOK, Places, [Next]_vars
    PROVE  Places'
<1> USE DEF ServerOK, Places, server, asked, judged, Cleaning, Ports, WithGrpc
<1>1. CASE Hold
  BY <1>1 DEF Hold, Probe, Launch, HttpAnswers, GrpcBind, GrpcStarted, GrpcAnswers, WaitTimesOut, Services,
     AskOther, AskOwn, AskRaises, Asking, Script, SmokeDone, StopGrpc, StopGrpcRaises, TellHttp, HttpIsOver
<1>2. CASE UvicornBinds \/ UvicornCannotBind \/ UvicornCloses
  BY <1>2 DEF UvicornBinds, UvicornCannotBind, UvicornCloses, Dies
<1>3. CASE UvicornEnds
  BY <1>3 DEF UvicornEnds, Dies, AtAwait, CancelMain, CancelHolder, CancelServers
<1>4. CASE RequestArrives \/ RequestEnds
  BY <1>4 DEF RequestArrives, RequestEnds
<1>5. CASE PilotSees \/ Raises \/ Judge
  BY <1>5 DEF PilotSees, Raises, Judge
<1>6. CASE PilotMisses
  BY <1>6 DEF PilotMisses, CancelHolder, CancelServers
<1>7. CASE SignalTaken("SIGINT") \/ SignalTaken("SIGTERM") \/ Terminated \/ Exit
  BY <1>7 DEF SignalTaken, Terminated, Exit, Dies
<1>8. CASE Interrupted
  BY <1>8 DEF Interrupted, AtAwait, CancelMain, CancelHolder, CancelServers
<1>9. CASE (\E p \in Ports : ForeignTakes(p) \/ ForeignReleases(p)) \/ UNCHANGED vars
  BY <1>9 DEF ForeignTakes, ForeignReleases, vars
<1> QED
  BY <1>1, <1>2, <1>3, <1>4, <1>5, <1>6, <1>7, <1>8, <1>9 DEF Next, Uvicorn, Pilot

LEMMA RaisedStep ==
    ASSUME ServerOK, Places, Raised, [Next]_vars
    PROVE  Raised'
<1> USE DEF ServerOK, Places, Raised, server, asked, judged, Cleaning, Ports, WithGrpc
<1>1. CASE Hold
  BY <1>1 DEF Hold, Probe, Launch, HttpAnswers, GrpcBind, GrpcStarted, GrpcAnswers, WaitTimesOut, Services,
     AskOther, AskOwn, AskRaises, Asking, Script, SmokeDone, StopGrpc, StopGrpcRaises, TellHttp, HttpIsOver
<1>2. CASE UvicornBinds \/ UvicornCannotBind \/ UvicornCloses
  BY <1>2 DEF UvicornBinds, UvicornCannotBind, UvicornCloses, Dies
<1>3. CASE UvicornEnds
  BY <1>3 DEF UvicornEnds, Dies, AtAwait, CancelMain, CancelHolder, CancelServers
<1>4. CASE RequestArrives \/ RequestEnds
  BY <1>4 DEF RequestArrives, RequestEnds
<1>5. CASE PilotSees \/ Raises \/ Judge
  BY <1>5 DEF PilotSees, Raises, Judge
<1>6. CASE PilotMisses
  BY <1>6 DEF PilotMisses, CancelHolder, CancelServers
<1>7. CASE SignalTaken("SIGINT") \/ SignalTaken("SIGTERM") \/ Terminated \/ Exit
  BY <1>7 DEF SignalTaken, Terminated, Exit, Dies
<1>8. CASE Interrupted
  BY <1>8 DEF Interrupted, AtAwait, CancelMain, CancelHolder, CancelServers
<1>9. CASE (\E p \in Ports : ForeignTakes(p) \/ ForeignReleases(p)) \/ UNCHANGED vars
  BY <1>9 DEF ForeignTakes, ForeignReleases, vars
<1> QED
  BY <1>1, <1>2, <1>3, <1>4, <1>5, <1>6, <1>7, <1>8, <1>9 DEF Next, Uvicorn, Pilot

LEMMA CutStep ==
    ASSUME ServerOK, Places, Raised, Cut, [Next]_vars
    PROVE  Cut'
<1> USE DEF ServerOK, Places, Raised, Cut, server, asked, judged, Cleaning, Ports, WithGrpc
<1>1. CASE Hold
  BY <1>1 DEF Hold, Probe, Launch, HttpAnswers, GrpcBind, GrpcStarted, GrpcAnswers, WaitTimesOut, Services,
     AskOther, AskOwn, AskRaises, Asking, Script, SmokeDone, StopGrpc, StopGrpcRaises, TellHttp, HttpIsOver
<1>2. CASE UvicornBinds \/ UvicornCannotBind \/ UvicornCloses
  BY <1>2 DEF UvicornBinds, UvicornCannotBind, UvicornCloses, Dies
<1>3. CASE UvicornEnds
  BY <1>3 DEF UvicornEnds, Dies, AtAwait, CancelMain, CancelHolder, CancelServers
<1>4. CASE RequestArrives \/ RequestEnds
  BY <1>4 DEF RequestArrives, RequestEnds
<1>5. CASE PilotSees \/ Raises \/ Judge
  BY <1>5 DEF PilotSees, Raises, Judge
<1>6. CASE PilotMisses
  BY <1>6 DEF PilotMisses, CancelHolder, CancelServers
<1>7. CASE SignalTaken("SIGINT") \/ SignalTaken("SIGTERM") \/ Terminated \/ Exit
  BY <1>7 DEF SignalTaken, Terminated, Exit, Dies
<1>8. CASE Interrupted
  BY <1>8 DEF Interrupted, AtAwait, CancelMain, CancelHolder, CancelServers
<1>9. CASE (\E p \in Ports : ForeignTakes(p) \/ ForeignReleases(p)) \/ UNCHANGED vars
  BY <1>9 DEF ForeignTakes, ForeignReleases, vars
<1> QED
  BY <1>1, <1>2, <1>3, <1>4, <1>5, <1>6, <1>7, <1>8, <1>9 DEF Next, Uvicorn, Pilot

LEMMA GrpcUpStep ==
    ASSUME ServerOK, Places, Raised, Cut, GrpcUp, [Next]_vars
    PROVE  GrpcUp'
<1> USE DEF ServerOK, Places, Raised, Cut, GrpcUp, server, asked, judged, Cleaning, Ports, WithGrpc
<1>1. CASE Hold
  BY <1>1 DEF Hold, Probe, Launch, HttpAnswers, GrpcBind, GrpcStarted, GrpcAnswers, WaitTimesOut, Services,
     AskOther, AskOwn, AskRaises, Asking, Script, SmokeDone, StopGrpc, StopGrpcRaises, TellHttp, HttpIsOver
<1>2. CASE UvicornBinds \/ UvicornCannotBind \/ UvicornCloses
  BY <1>2 DEF UvicornBinds, UvicornCannotBind, UvicornCloses, Dies
<1>3. CASE UvicornEnds
  BY <1>3 DEF UvicornEnds, Dies, AtAwait, CancelMain, CancelHolder, CancelServers
<1>4. CASE RequestArrives \/ RequestEnds
  BY <1>4 DEF RequestArrives, RequestEnds
<1>5. CASE PilotSees \/ Raises \/ Judge
  BY <1>5 DEF PilotSees, Raises, Judge
<1>6. CASE PilotMisses
  BY <1>6 DEF PilotMisses, CancelHolder, CancelServers
<1>7. CASE SignalTaken("SIGINT") \/ SignalTaken("SIGTERM") \/ Terminated \/ Exit
  BY <1>7 DEF SignalTaken, Terminated, Exit, Dies
<1>8. CASE Interrupted
  BY <1>8 DEF Interrupted, AtAwait, CancelMain, CancelHolder, CancelServers
<1>9. CASE (\E p \in Ports : ForeignTakes(p) \/ ForeignReleases(p)) \/ UNCHANGED vars
  BY <1>9 DEF ForeignTakes, ForeignReleases, vars
<1> QED
  BY <1>1, <1>2, <1>3, <1>4, <1>5, <1>6, <1>7, <1>8, <1>9 DEF Next, Uvicorn, Pilot

LEMMA HttpCutStep ==
    ASSUME ServerOK, Places, Raised, Cut, GrpcUp, HttpCut, HttpOver, [Next]_vars
    PROVE  HttpCut'
<1> USE DEF ServerOK, Places, Raised, Cut, GrpcUp, HttpCut, HttpOver, server, asked, judged, Cleaning, Ports, WithGrpc
<1>1. CASE Hold
  BY <1>1 DEF Hold, Probe, Launch, HttpAnswers, GrpcBind, GrpcStarted, GrpcAnswers, WaitTimesOut, Services,
     AskOther, AskOwn, AskRaises, Asking, Script, SmokeDone, StopGrpc, StopGrpcRaises, TellHttp, HttpIsOver
<1>2. CASE UvicornBinds \/ UvicornCannotBind \/ UvicornCloses
  BY <1>2 DEF UvicornBinds, UvicornCannotBind, UvicornCloses, Dies
<1>3. CASE UvicornEnds
  BY <1>3 DEF UvicornEnds, Dies, AtAwait, CancelMain, CancelHolder, CancelServers
<1>4. CASE RequestArrives \/ RequestEnds
  BY <1>4 DEF RequestArrives, RequestEnds
<1>5. CASE PilotSees \/ Raises \/ Judge
  BY <1>5 DEF PilotSees, Raises, Judge
<1>6. CASE PilotMisses
  BY <1>6 DEF PilotMisses, CancelHolder, CancelServers
<1>7. CASE SignalTaken("SIGINT") \/ SignalTaken("SIGTERM") \/ Terminated \/ Exit
  BY <1>7 DEF SignalTaken, Terminated, Exit, Dies
<1>8. CASE Interrupted
  BY <1>8 DEF Interrupted, AtAwait, CancelMain, CancelHolder, CancelServers
<1>9. CASE (\E p \in Ports : ForeignTakes(p) \/ ForeignReleases(p)) \/ UNCHANGED vars
  BY <1>9 DEF ForeignTakes, ForeignReleases, vars
<1> QED
  BY <1>1, <1>2, <1>3, <1>4, <1>5, <1>6, <1>7, <1>8, <1>9 DEF Next, Uvicorn, Pilot

LEMMA HttpOverStep ==
    ASSUME ServerOK, Places, Raised, Cut, GrpcUp, HttpCut, HttpOver, [Next]_vars
    PROVE  HttpOver'
<1> USE DEF ServerOK, Places, Raised, Cut, GrpcUp, HttpCut, HttpOver, server, asked, judged, Cleaning, Ports, WithGrpc
<1>1. CASE Hold
  BY <1>1 DEF Hold, Probe, Launch, HttpAnswers, GrpcBind, GrpcStarted, GrpcAnswers, WaitTimesOut, Services,
     AskOther, AskOwn, AskRaises, Asking, Script, SmokeDone, StopGrpc, StopGrpcRaises, TellHttp, HttpIsOver
<1>2. CASE UvicornBinds \/ UvicornCannotBind \/ UvicornCloses
  BY <1>2 DEF UvicornBinds, UvicornCannotBind, UvicornCloses, Dies
<1>3. CASE UvicornEnds
  BY <1>3 DEF UvicornEnds, Dies, AtAwait, CancelMain, CancelHolder, CancelServers
<1>4. CASE RequestArrives \/ RequestEnds
  BY <1>4 DEF RequestArrives, RequestEnds
<1>5. CASE PilotSees \/ Raises \/ Judge
  BY <1>5 DEF PilotSees, Raises, Judge
<1>6. CASE PilotMisses
  BY <1>6 DEF PilotMisses, CancelHolder, CancelServers
<1>7. CASE SignalTaken("SIGINT") \/ SignalTaken("SIGTERM") \/ Terminated \/ Exit
  BY <1>7 DEF SignalTaken, Terminated, Exit, Dies
<1>8. CASE Interrupted
  BY <1>8 DEF Interrupted, AtAwait, CancelMain, CancelHolder, CancelServers
<1>9. CASE (\E p \in Ports : ForeignTakes(p) \/ ForeignReleases(p)) \/ UNCHANGED vars
  BY <1>9 DEF ForeignTakes, ForeignReleases, vars
<1> QED
  BY <1>1, <1>2, <1>3, <1>4, <1>5, <1>6, <1>7, <1>8, <1>9 DEF Next, Uvicorn, Pilot

LEMMA HttpDoneStep ==
    ASSUME ServerOK, Places, Raised, Cut, GrpcUp, HttpDone, HttpCut, HttpOver, [Next]_vars
    PROVE  HttpDone'
<1> USE DEF ServerOK, Places, Raised, Cut, GrpcUp, HttpDone, HttpCut, HttpOver, server, asked, judged, Cleaning, Ports, WithGrpc
<1>1. CASE Hold
  BY <1>1 DEF Hold, Probe, Launch, HttpAnswers, GrpcBind, GrpcStarted, GrpcAnswers, WaitTimesOut, Services,
     AskOther, AskOwn, AskRaises, Asking, Script, SmokeDone, StopGrpc, StopGrpcRaises, TellHttp, HttpIsOver
<1>2. CASE UvicornBinds \/ UvicornCannotBind \/ UvicornCloses
  BY <1>2 DEF UvicornBinds, UvicornCannotBind, UvicornCloses, Dies
<1>3. CASE UvicornEnds
  BY <1>3 DEF UvicornEnds, Dies, AtAwait, CancelMain, CancelHolder, CancelServers
<1>4. CASE RequestArrives \/ RequestEnds
  BY <1>4 DEF RequestArrives, RequestEnds
<1>5. CASE PilotSees \/ Raises \/ Judge
  BY <1>5 DEF PilotSees, Raises, Judge
<1>6. CASE PilotMisses
  BY <1>6 DEF PilotMisses, CancelHolder, CancelServers
<1>7. CASE SignalTaken("SIGINT") \/ SignalTaken("SIGTERM") \/ Terminated \/ Exit
  BY <1>7 DEF SignalTaken, Terminated, Exit, Dies
<1>8. CASE Interrupted
  BY <1>8 DEF Interrupted, AtAwait, CancelMain, CancelHolder, CancelServers
<1>9. CASE (\E p \in Ports : ForeignTakes(p) \/ ForeignReleases(p)) \/ UNCHANGED vars
  BY <1>9 DEF ForeignTakes, ForeignReleases, vars
<1> QED
  BY <1>1, <1>2, <1>3, <1>4, <1>5, <1>6, <1>7, <1>8, <1>9 DEF Next, Uvicorn, Pilot

LEMMA ClosingStep ==
    ASSUME ServerOK, Places, Raised, Cut, GrpcUp, HttpClosing, [Next]_vars
    PROVE  HttpClosing'
<1> USE DEF ServerOK, Places, Raised, Cut, GrpcUp, HttpClosing, server, asked, judged, Cleaning, Ports, WithGrpc
<1>1. CASE Hold
  BY <1>1 DEF Hold, Probe, Launch, HttpAnswers, GrpcBind, GrpcStarted, GrpcAnswers, WaitTimesOut, Services,
     AskOther, AskOwn, AskRaises, Asking, Script, SmokeDone, StopGrpc, StopGrpcRaises, TellHttp, HttpIsOver
<1>2. CASE UvicornBinds \/ UvicornCannotBind \/ UvicornCloses
  BY <1>2 DEF UvicornBinds, UvicornCannotBind, UvicornCloses, Dies
<1>3. CASE UvicornEnds
  BY <1>3 DEF UvicornEnds, Dies, AtAwait, CancelMain, CancelHolder, CancelServers
<1>4. CASE RequestArrives \/ RequestEnds
  BY <1>4 DEF RequestArrives, RequestEnds
<1>5. CASE PilotSees \/ Raises \/ Judge
  BY <1>5 DEF PilotSees, Raises, Judge
<1>6. CASE PilotMisses
  BY <1>6 DEF PilotMisses, CancelHolder, CancelServers
<1>7. CASE SignalTaken("SIGINT") \/ SignalTaken("SIGTERM") \/ Terminated \/ Exit
  BY <1>7 DEF SignalTaken, Terminated, Exit, Dies
<1>8. CASE Interrupted
  BY <1>8 DEF Interrupted, AtAwait, CancelMain, CancelHolder, CancelServers
<1>9. CASE (\E p \in Ports : ForeignTakes(p) \/ ForeignReleases(p)) \/ UNCHANGED vars
  BY <1>9 DEF ForeignTakes, ForeignReleases, vars
<1> QED
  BY <1>1, <1>2, <1>3, <1>4, <1>5, <1>6, <1>7, <1>8, <1>9 DEF Next, Uvicorn, Pilot

LEMMA ToldStep ==
    ASSUME ServerOK, Places, Raised, Cut, GrpcUp, HttpTold, HttpClosing, [Next]_vars
    PROVE  HttpTold'
<1> USE DEF ServerOK, Places, Raised, Cut, GrpcUp, HttpTold, HttpClosing, server, asked, judged, Cleaning, Ports, WithGrpc
<1>1. CASE Hold
  BY <1>1 DEF Hold, Probe, Launch, HttpAnswers, GrpcBind, GrpcStarted, GrpcAnswers, WaitTimesOut, Services,
     AskOther, AskOwn, AskRaises, Asking, Script, SmokeDone, StopGrpc, StopGrpcRaises, TellHttp, HttpIsOver
<1>2. CASE UvicornBinds \/ UvicornCannotBind \/ UvicornCloses
  BY <1>2 DEF UvicornBinds, UvicornCannotBind, UvicornCloses, Dies
<1>3. CASE UvicornEnds
  BY <1>3 DEF UvicornEnds, Dies, AtAwait, CancelMain, CancelHolder, CancelServers
<1>4. CASE RequestArrives \/ RequestEnds
  BY <1>4 DEF RequestArrives, RequestEnds
<1>5. CASE PilotSees \/ Raises \/ Judge
  BY <1>5 DEF PilotSees, Raises, Judge
<1>6. CASE PilotMisses
  BY <1>6 DEF PilotMisses, CancelHolder, CancelServers
<1>7. CASE SignalTaken("SIGINT") \/ SignalTaken("SIGTERM") \/ Terminated \/ Exit
  BY <1>7 DEF SignalTaken, Terminated, Exit, Dies
<1>8. CASE Interrupted
  BY <1>8 DEF Interrupted, AtAwait, CancelMain, CancelHolder, CancelServers
<1>9. CASE (\E p \in Ports : ForeignTakes(p) \/ ForeignReleases(p)) \/ UNCHANGED vars
  BY <1>9 DEF ForeignTakes, ForeignReleases, vars
<1> QED
  BY <1>1, <1>2, <1>3, <1>4, <1>5, <1>6, <1>7, <1>8, <1>9 DEF Next, Uvicorn, Pilot

LEMMA DeliveredStep ==
    ASSUME ServerOK, Places, Raised, Cut, GrpcUp, HttpOver, Delivered, [Next]_vars
    PROVE  Delivered'
<1> USE DEF ServerOK, Places, Raised, Cut, GrpcUp, HttpOver, Delivered, server, asked, judged, Cleaning, Ports, WithGrpc
<1>1. CASE Hold
  BY <1>1 DEF Hold, Probe, Launch, HttpAnswers, GrpcBind, GrpcStarted, GrpcAnswers, WaitTimesOut, Services,
     AskOther, AskOwn, AskRaises, Asking, Script, SmokeDone, StopGrpc, StopGrpcRaises, TellHttp, HttpIsOver
<1>2. CASE UvicornBinds \/ UvicornCannotBind \/ UvicornCloses
  BY <1>2 DEF UvicornBinds, UvicornCannotBind, UvicornCloses, Dies
<1>3. CASE UvicornEnds
  BY <1>3 DEF UvicornEnds, Dies, AtAwait, CancelMain, CancelHolder, CancelServers
<1>4. CASE RequestArrives \/ RequestEnds
  BY <1>4 DEF RequestArrives, RequestEnds
<1>5. CASE PilotSees \/ Raises \/ Judge
  BY <1>5 DEF PilotSees, Raises, Judge
<1>6. CASE PilotMisses
  BY <1>6 DEF PilotMisses, CancelHolder, CancelServers
<1>7. CASE SignalTaken("SIGINT") \/ SignalTaken("SIGTERM") \/ Terminated \/ Exit
  BY <1>7 DEF SignalTaken, Terminated, Exit, Dies
<1>8. CASE Interrupted
  BY <1>8 DEF Interrupted, AtAwait, CancelMain, CancelHolder, CancelServers
<1>9. CASE (\E p \in Ports : ForeignTakes(p) \/ ForeignReleases(p)) \/ UNCHANGED vars
  BY <1>9 DEF ForeignTakes, ForeignReleases, vars
<1> QED
  BY <1>1, <1>2, <1>3, <1>4, <1>5, <1>6, <1>7, <1>8, <1>9 DEF Next, Uvicorn, Pilot

LEMMA ListenersStep ==
    ASSUME ServerOK, Places, Cut, HttpCut, HttpOver, Listeners, [Next]_vars
    PROVE  Listeners'
<1> USE DEF ServerOK, Places, Cut, HttpCut, HttpOver, Listeners, server, asked, judged, Cleaning, Ports
<1>1. CASE Hold
  BY <1>1 DEF Hold, Probe, Launch, HttpAnswers, GrpcBind, GrpcStarted, GrpcAnswers, WaitTimesOut, Services,
     AskOther, AskOwn, AskRaises, Asking, Script, SmokeDone, StopGrpc, StopGrpcRaises, TellHttp, HttpIsOver
<1>2. CASE UvicornBinds \/ UvicornCannotBind \/ UvicornCloses
  BY <1>2 DEF UvicornBinds, UvicornCannotBind, UvicornCloses, Dies
<1>3. CASE UvicornEnds
  BY <1>3 DEF UvicornEnds, Dies, AtAwait, CancelMain, CancelHolder, CancelServers
<1>4. CASE RequestArrives \/ RequestEnds
  BY <1>4 DEF RequestArrives, RequestEnds
<1>5. CASE PilotSees \/ Raises \/ Judge
  BY <1>5 DEF PilotSees, Raises, Judge
<1>6. CASE PilotMisses
  BY <1>6 DEF PilotMisses, CancelHolder, CancelServers
<1>7. CASE SignalTaken("SIGINT") \/ SignalTaken("SIGTERM") \/ Terminated \/ Exit
  BY <1>7 DEF SignalTaken, Terminated, Exit, Dies
<1>8. CASE Interrupted
  BY <1>8 DEF Interrupted, AtAwait, CancelMain, CancelHolder, CancelServers
<1>9. CASE (\E p \in Ports : ForeignTakes(p) \/ ForeignReleases(p)) \/ UNCHANGED vars
  BY <1>9 DEF ForeignTakes, ForeignReleases, vars
<1> QED
  BY <1>1, <1>2, <1>3, <1>4, <1>5, <1>6, <1>7, <1>8, <1>9 DEF Next, Uvicorn, Pilot

-----------------------------------------------------------------------------
(* A smoke's answers. *)

Unasked ==
    /\ pc \in {"probe", "launch", "http_wait", "grpc_bind", "grpc_start", "grpc_wait"} => turn = 1
    /\ turn <= 2 => answer["jsonrpc"] = "none"
    /\ turn <= 3 => answer["denied"] = "none"
NotForeign == answer["jsonrpc"] # "foreign"

(* While the smoke whose task was completed by its own server has its last  *)
(* request to make, that server serves, or closes because of a signal.      *)
StillOwn ==
    alive /\ pc = "body" /\ turn = 3 /\ answer["jsonrpc"] = "ours" =>
        conn = "ours" /\ http \in {"serving", "closing"}

(* Where it was then refused by another's, a signal is behind it, and the   *)
(* smoke does not end but by an exception.                                  *)
Suspect ==
    answer["jsonrpc"] = "ours" /\ answer["denied"] = "foreign" =>
        (signal \in {"SIGINT", "SIGTERM"} /\ http = "closing") \/ exc \/ ~ alive

PassedBySelf ==
    verdict = "passed" => pc = "over" /\ answer["jsonrpc"] = "ours" /\ answer["denied"] = "ours"

LEMMA AskStep ==
    ASSUME AskOther \/ AskOwn
    PROVE  /\ alive /\ pc = "body" /\ turn \in {1, 2, 3} /\ turn' = turn + 1
           /\ UNCHANGED <<pc, http, signal, port>> /\ alive' = alive /\ exc' = exc
  BY DEF AskOther, AskOwn, Asking, server

LEMMA UnaskedStep ==
    ASSUME ServerOK, AskedOK, Unasked, [Next]_vars
    PROVE  Unasked'
<1> USE DEF ServerOK, AskedOK, Unasked, server, asked, judged, Cleaning, Ports, WithGrpc
<1>1. CASE Hold
  <2>1. CASE AskOther
    BY <2>1, ForeignAssumption DEF AskOther, Asking, Script
  <2>2. CASE AskOwn
    BY <2>2 DEF AskOwn, Asking, Script
  <2>3. CASE ~ AskOther /\ ~ AskOwn
    BY <1>1, <2>3 DEF Hold, Probe, Launch, HttpAnswers, GrpcBind, GrpcStarted, GrpcAnswers, WaitTimesOut, Services,
       AskRaises, SmokeDone, StopGrpc, StopGrpcRaises, TellHttp, HttpIsOver
  <2> QED
    BY <2>1, <2>2, <2>3
<1>2. CASE UvicornBinds \/ UvicornCannotBind \/ UvicornCloses
  BY <1>2 DEF UvicornBinds, UvicornCannotBind, UvicornCloses, Dies
<1>3. CASE UvicornEnds
  BY <1>3 DEF UvicornEnds, Dies, AtAwait, CancelMain, CancelHolder, CancelServers
<1>4. CASE RequestArrives \/ RequestEnds
  BY <1>4 DEF RequestArrives, RequestEnds
<1>5. CASE PilotSees \/ Raises \/ Judge
  BY <1>5 DEF PilotSees, Raises, Judge
<1>6. CASE PilotMisses
  BY <1>6 DEF PilotMisses, CancelHolder, CancelServers
<1>7. CASE SignalTaken("SIGINT") \/ SignalTaken("SIGTERM") \/ Terminated \/ Exit
  BY <1>7 DEF SignalTaken, Terminated, Exit, Dies
<1>8. CASE Interrupted
  BY <1>8 DEF Interrupted, AtAwait, CancelMain, CancelHolder, CancelServers
<1>9. CASE (\E p \in Ports : ForeignTakes(p) \/ ForeignReleases(p)) \/ UNCHANGED vars
  BY <1>9 DEF ForeignTakes, ForeignReleases, vars
<1> QED
  BY <1>1, <1>2, <1>3, <1>4, <1>5, <1>6, <1>7, <1>8, <1>9 DEF Next, Uvicorn, Pilot

LEMMA NotForeignStep ==
    ASSUME ServerOK, AskedOK, NotForeign, [Next]_vars
    PROVE  NotForeign'
<1> USE DEF ServerOK, AskedOK, NotForeign, server, asked, judged, Cleaning, Ports, WithGrpc
<1>1. CASE Hold
  <2>1. CASE AskOther
    BY <2>1, ForeignAssumption DEF AskOther, Asking, Script
  <2>2. CASE AskOwn
    BY <2>2 DEF AskOwn, Asking, Script
  <2>3. CASE ~ AskOther /\ ~ AskOwn
    BY <1>1, <2>3 DEF Hold, Probe, Launch, HttpAnswers, GrpcBind, GrpcStarted, GrpcAnswers, WaitTimesOut, Services,
       AskRaises, SmokeDone, StopGrpc, StopGrpcRaises, TellHttp, HttpIsOver
  <2> QED
    BY <2>1, <2>2, <2>3
<1>2. CASE UvicornBinds \/ UvicornCannotBind \/ UvicornCloses
  BY <1>2 DEF UvicornBinds, UvicornCannotBind, UvicornCloses, Dies
<1>3. CASE UvicornEnds
  BY <1>3 DEF UvicornEnds, Dies, AtAwait, CancelMain, CancelHolder, CancelServers
<1>4. CASE RequestArrives \/ RequestEnds
  BY <1>4 DEF RequestArrives, RequestEnds
<1>5. CASE PilotSees \/ Raises \/ Judge
  BY <1>5 DEF PilotSees, Raises, Judge
<1>6. CASE PilotMisses
  BY <1>6 DEF PilotMisses, CancelHolder, CancelServers
<1>7. CASE SignalTaken("SIGINT") \/ SignalTaken("SIGTERM") \/ Terminated \/ Exit
  BY <1>7 DEF SignalTaken, Terminated, Exit, Dies
<1>8. CASE Interrupted
  BY <1>8 DEF Interrupted, AtAwait, CancelMain, CancelHolder, CancelServers
<1>9. CASE (\E p \in Ports : ForeignTakes(p) \/ ForeignReleases(p)) \/ UNCHANGED vars
  BY <1>9 DEF ForeignTakes, ForeignReleases, vars
<1> QED
  BY <1>1, <1>2, <1>3, <1>4, <1>5, <1>6, <1>7, <1>8, <1>9 DEF Next, Uvicorn, Pilot

LEMMA HoldStep ==
    ASSUME Hold, ~ AskOther, ~ AskOwn, Unasked
    PROVE  /\ pc # "over" /\ UNCHANGED <<turn, conn, answer, verdict>> /\ alive' = alive
           /\ pc' = "body" /\ turn = 3 => pc = "body" /\ http' = http
<1> USE DEF Hold, Probe, Launch, HttpAnswers, GrpcBind, GrpcStarted, GrpcAnswers, WaitTimesOut, Asking,
       AskRaises, SmokeDone, StopGrpc, StopGrpcRaises, TellHttp, HttpIsOver, server, asked, judged
<1>1. pc # "over"
  OBVIOUS
<1>2. UNCHANGED <<turn, conn, answer, verdict>>
  OBVIOUS
<1>3. alive' = alive
  OBVIOUS
<1>4. pc' = "body" /\ turn = 3 => pc = "body" /\ http' = http
  BY DEF Unasked
<1> QED
  BY <1>1, <1>2, <1>3, <1>4

LEMMA StillOwnStep ==
    ASSUME ServerOK, AskedOK, Places, Raised, Cut, GrpcUp, HttpClosing, HttpTold, Delivered, Unasked, StillOwn, [Next]_vars
    PROVE  StillOwn'
<1>1. CASE Hold
  <2>1. CASE AskOther
    <3>1. turn' = 3 => answer'["jsonrpc"] = "wrong"
      BY <2>1, AskStep, ForeignAssumption DEF AskOther, Script, AskedOK
    <3> QED
      BY <3>1 DEF StillOwn
  <2>2. CASE AskOwn
    <3>1. conn' = "ours" /\ http' \in {"serving", "closing"}
      BY <2>2, AskStep DEF AskOwn
    <3> QED
      BY <3>1 DEF StillOwn
  <2>3. CASE ~ AskOther /\ ~ AskOwn
    BY <1>1, <2>3, HoldStep DEF StillOwn
  <2> QED
    BY <2>1, <2>2, <2>3
<1> USE DEF ServerOK, Places, Raised, Cut, GrpcUp, HttpClosing, HttpTold, Delivered, Unasked, StillOwn, server, asked, judged, Cleaning, Ports, WithGrpc
<1>2. CASE UvicornBinds \/ UvicornCannotBind \/ UvicornCloses
  BY <1>2 DEF UvicornBinds, UvicornCannotBind, UvicornCloses, Dies
<1>3. CASE UvicornEnds
  BY <1>3 DEF UvicornEnds, Dies, AtAwait, CancelMain, CancelHolder, CancelServers
<1>4. CASE RequestArrives \/ RequestEnds
  BY <1>4 DEF RequestArrives, RequestEnds
<1>5. CASE PilotSees \/ Raises \/ Judge
  BY <1>5 DEF PilotSees, Raises, Judge
<1>6. CASE PilotMisses
  BY <1>6 DEF PilotMisses, CancelHolder, CancelServers
<1>7. CASE SignalTaken("SIGINT") \/ SignalTaken("SIGTERM") \/ Terminated \/ Exit
  BY <1>7 DEF SignalTaken, Terminated, Exit, Dies
<1>8. CASE Interrupted
  BY <1>8 DEF Interrupted, AtAwait, CancelMain, CancelHolder, CancelServers
<1>9. CASE (\E p \in Ports : ForeignTakes(p) \/ ForeignReleases(p)) \/ UNCHANGED vars
  BY <1>9 DEF ForeignTakes, ForeignReleases, vars
<1> QED
  BY <1>1, <1>2, <1>3, <1>4, <1>5, <1>6, <1>7, <1>8, <1>9 DEF Next, Uvicorn, Pilot

LEMMA SuspectStep ==
    ASSUME ServerOK, AskedOK, Places, Raised, Cut, GrpcUp, HttpOver, HttpClosing, HttpTold, Delivered, Listeners, Unasked, StillOwn, Suspect, [Next]_vars
    PROVE  Suspect'
<1>1. CASE Hold
  <2>1. CASE AskOther
    <3>1. CASE turn \in {1, 2}
      <4>1. answer'["denied"] = "none"
        BY <2>1, <3>1 DEF AskOther, Script, AskedOK, Unasked
      <4> QED
        BY <4>1 DEF Suspect
    <3>2. CASE turn = 3
      <4>1. answer'["jsonrpc"] = answer["jsonrpc"]
        BY <2>1, <3>2 DEF AskOther, Script, AskedOK
      <4>2. ASSUME answer["jsonrpc"] = "ours" PROVE signal \in {"SIGINT", "SIGTERM"} /\ http = "closing"
        <5>1. conn = "ours" /\ http \in {"serving", "closing"}
          BY <2>1, <3>2, <4>2, AskStep DEF StillOwn
        <5>2. port["http"] = "foreign"
          BY <2>1, <5>1 DEF AskOther, Reached
        <5>3. http = "closing"
          BY <2>1, AskStep, <5>1, <5>2 DEF Listeners
        <5>4. signal # "none"
          BY <2>1, AskStep, <5>3 DEF HttpClosing, HttpTold
        <5>5. ~ exc
          BY <2>1, AskStep DEF Raised, Cleaning
        <5>6. signal # "delivered"
          BY <2>1, AskStep, <5>5 DEF Delivered
        <5> QED
          BY <5>3, <5>4, <5>6 DEF ServerOK
      <4> QED
        BY <2>1, AskStep, <4>1, <4>2 DEF Suspect
    <3> QED
      BY <2>1, AskStep, <3>1, <3>2
  <2>2. CASE AskOwn
    <3>1. turn \in {1, 2, 3} /\ UNCHANGED <<http, signal>>
      BY <2>2, AskStep
    <3>2. answer'["denied"] # "foreign"
      BY <2>2, <3>1 DEF AskOwn, Script, AskedOK, Unasked
    <3> QED
      BY <3>2 DEF Suspect
  <2>3. CASE ~ AskOther /\ ~ AskOwn
    <3>1. UNCHANGED answer /\ alive' = alive
      BY <1>1, <2>3, HoldStep
    <3>2. ASSUME answer["jsonrpc"] = "ours", answer["denied"] = "foreign", exc PROVE exc'
      BY <1>1, <2>3, <3>2 DEF Hold, Probe, Launch, HttpAnswers, GrpcBind, GrpcStarted, GrpcAnswers, WaitTimesOut,
         AskRaises, SmokeDone, StopGrpc, StopGrpcRaises, TellHttp, HttpIsOver, Asking, server, asked, judged
    <3>3. ASSUME http = "closing" PROVE UNCHANGED <<http, signal>>
      BY <1>1, <2>3, <3>3 DEF Places, Hold, Probe, Launch, HttpAnswers, GrpcBind, GrpcStarted, GrpcAnswers, WaitTimesOut,
         AskRaises, SmokeDone, StopGrpc, StopGrpcRaises, TellHttp, HttpIsOver, Asking, server, asked, judged
    <3> QED
      BY <3>1, <3>2, <3>3 DEF Suspect
  <2> QED
    BY <2>1, <2>2, <2>3
<1> USE DEF ServerOK, Places, Raised, Cut, GrpcUp, HttpOver, HttpClosing, HttpTold, Delivered, Listeners, Unasked, StillOwn, Suspect, server, asked, judged, Cleaning, Ports, WithGrpc
<1>2. CASE UvicornBinds \/ UvicornCannotBind \/ UvicornCloses
  BY <1>2 DEF UvicornBinds, UvicornCannotBind, UvicornCloses, Dies
<1>3. CASE UvicornEnds
  BY <1>3 DEF UvicornEnds, Dies, AtAwait, CancelMain, CancelHolder, CancelServers
<1>4. CASE RequestArrives \/ RequestEnds
  BY <1>4 DEF RequestArrives, RequestEnds
<1>5. CASE PilotSees \/ Raises \/ Judge
  BY <1>5 DEF PilotSees, Raises, Judge
<1>6. CASE PilotMisses
  BY <1>6 DEF PilotMisses, CancelHolder, CancelServers
<1>7. CASE SignalTaken("SIGINT") \/ SignalTaken("SIGTERM") \/ Terminated \/ Exit
  BY <1>7 DEF SignalTaken, Terminated, Exit, Dies
<1>8. CASE Interrupted
  BY <1>8 DEF Interrupted, AtAwait, CancelMain, CancelHolder, CancelServers
<1>9. CASE (\E p \in Ports : ForeignTakes(p) \/ ForeignReleases(p)) \/ UNCHANGED vars
  BY <1>9 DEF ForeignTakes, ForeignReleases, vars
<1> QED
  BY <1>1, <1>2, <1>3, <1>4, <1>5, <1>6, <1>7, <1>8, <1>9 DEF Next, Uvicorn, Pilot

LEMMA JudgeAsserts ==
    ASSUME AskedOK, Judge, verdict' = "passed"
    PROVE  answer["jsonrpc"] \in {"ours", "foreign"} /\ answer["denied"] \in {"ours", "foreign"}
<1>1. DOMAIN answer = {"card", "jsonrpc", "denied"}
  BY DEF AskedOK
<1>2. \A k \in DOMAIN answer : answer[k] \in {"ours", "foreign"}
  BY DEF Judge
<1> QED
  BY <1>1, <1>2

LEMMA PassedStep ==
    ASSUME ServerOK, AskedOK, Unasked, Places, Raised, Cut, GrpcUp, HttpDone, NotForeign, Suspect, PassedBySelf, [Next]_vars
    PROVE  PassedBySelf'
<1>1. CASE Hold
  <2>1. CASE AskOther \/ AskOwn
    <3>1. pc = "body" /\ UNCHANGED verdict
      BY <2>1, AskStep DEF AskOther, AskOwn, judged
    <3> QED
      BY <3>1 DEF PassedBySelf
  <2>2. CASE ~ AskOther /\ ~ AskOwn
    BY <1>1, <2>2, HoldStep DEF PassedBySelf
  <2> QED
    BY <2>1, <2>2
<1> USE DEF ServerOK, Places, Raised, Cut, GrpcUp, HttpDone, NotForeign, Suspect, PassedBySelf, server, asked, judged, Cleaning, Ports, WithGrpc
<1>2. CASE UvicornBinds \/ UvicornCannotBind \/ UvicornCloses
  BY <1>2 DEF UvicornBinds, UvicornCannotBind, UvicornCloses, Dies
<1>3. CASE UvicornEnds
  BY <1>3 DEF UvicornEnds, Dies, AtAwait, CancelMain, CancelHolder, CancelServers
<1>4. CASE RequestArrives \/ RequestEnds
  BY <1>4 DEF RequestArrives, RequestEnds
<1>5. CASE PilotSees \/ Raises
  BY <1>5 DEF PilotSees, Raises
<1>10. CASE Judge
  <2>1. pc = "over" /\ ~ exc /\ alive /\ UNCHANGED <<pc, answer>>
    BY <1>10 DEF Judge
  <2>2. http \in {"ended", "returned"}
    BY <2>1
  <2>3. verdict' = "passed" => answer["jsonrpc"] \in {"ours", "foreign"} /\ answer["denied"] \in {"ours", "foreign"}
    BY <1>10, JudgeAsserts
  <2> QED
    BY <2>1, <2>2, <2>3
<1>6. CASE PilotMisses
  BY <1>6 DEF PilotMisses, CancelHolder, CancelServers
<1>7. CASE SignalTaken("SIGINT") \/ SignalTaken("SIGTERM") \/ Terminated \/ Exit
  BY <1>7 DEF SignalTaken, Terminated, Exit, Dies
<1>8. CASE Interrupted
  BY <1>8 DEF Interrupted, AtAwait, CancelMain, CancelHolder, CancelServers
<1>9. CASE (\E p \in Ports : ForeignTakes(p) \/ ForeignReleases(p)) \/ UNCHANGED vars
  BY <1>9 DEF ForeignTakes, ForeignReleases, vars
<1> QED
  BY <1>1, <1>2, <1>3, <1>4, <1>5, <1>6, <1>7, <1>8, <1>9, <1>10 DEF Next, Uvicorn, Pilot


-----------------------------------------------------------------------------
(* While the holder starts, or does what it is there for, its HTTP server's *)
(* task is under way, and its gRPC server is bound once it is to be started. *)
Taken == signal \in {"SIGINT", "SIGTERM"} => http \notin {"none", "created"}
HttpRuns ==
    alive /\ pc \in {"http_wait", "grpc_bind", "grpc_start", "grpc_wait", "body"} =>
        http \in {"created", "serving", "closing"}
GrpcRuns ==
    alive /\ WithGrpc /\ pc \in {"grpc_start", "grpc_wait", "body"} =>
        port["grpc"] = "ours" /\ (pc # "grpc_start" => grpc = "up")

(* A signal is taken by an HTTP server that serves. *)
LEMMA TakenStep ==
    ASSUME ServerOK, Places, Taken, [Next]_vars
    PROVE  Taken'
<1> USE DEF ServerOK, Places, Taken, server, asked, judged, Cleaning, Ports, WithGrpc
<1>1. CASE Hold
  BY <1>1 DEF Hold, Probe, Launch, HttpAnswers, GrpcBind, GrpcStarted, GrpcAnswers, WaitTimesOut, Services,
     AskOther, AskOwn, AskRaises, Asking, Script, SmokeDone, StopGrpc, StopGrpcRaises, TellHttp, HttpIsOver
<1>2. CASE UvicornBinds \/ UvicornCannotBind \/ UvicornCloses
  BY <1>2 DEF UvicornBinds, UvicornCannotBind, UvicornCloses, Dies
<1>3. CASE UvicornEnds
  BY <1>3 DEF UvicornEnds, Dies, AtAwait, CancelMain, CancelHolder, CancelServers
<1>4. CASE RequestArrives \/ RequestEnds
  BY <1>4 DEF RequestArrives, RequestEnds
<1>5. CASE PilotSees \/ Raises \/ Judge
  BY <1>5 DEF PilotSees, Raises, Judge
<1>6. CASE PilotMisses
  BY <1>6 DEF PilotMisses, CancelHolder, CancelServers
<1>7. CASE SignalTaken("SIGINT") \/ SignalTaken("SIGTERM") \/ Terminated \/ Exit
  BY <1>7 DEF SignalTaken, Terminated, Exit, Dies
<1>8. CASE Interrupted
  BY <1>8 DEF Interrupted, AtAwait, CancelMain, CancelHolder, CancelServers
<1>9. CASE (\E p \in Ports : ForeignTakes(p) \/ ForeignReleases(p)) \/ UNCHANGED vars
  BY <1>9 DEF ForeignTakes, ForeignReleases, vars
<1> QED
  BY <1>1, <1>2, <1>3, <1>4, <1>5, <1>6, <1>7, <1>8, <1>9 DEF Next, Uvicorn, Pilot

(* It ends only if told to, or with the process, or with a cancellation. *)
LEMMA HttpRunsStep ==
    ASSUME ServerOK, Places, Raised, HttpTold, HttpClosing, Delivered, Taken, HttpRuns, [Next]_vars
    PROVE  HttpRuns'
<1> USE DEF ServerOK, Places, Raised, HttpTold, HttpClosing, Delivered, Taken, HttpRuns, server, asked, judged, Cleaning, Ports, WithGrpc
<1>1. CASE Hold
  BY <1>1 DEF Hold, Probe, Launch, HttpAnswers, GrpcBind, GrpcStarted, GrpcAnswers, WaitTimesOut, Services,
     AskOther, AskOwn, AskRaises, Asking, Script, SmokeDone, StopGrpc, StopGrpcRaises, TellHttp, HttpIsOver
<1>2. CASE UvicornBinds \/ UvicornCannotBind \/ UvicornCloses
  BY <1>2 DEF UvicornBinds, UvicornCannotBind, UvicornCloses, Dies
<1>3. CASE UvicornEnds
  BY <1>3 DEF UvicornEnds, Dies, AtAwait, CancelMain, CancelHolder, CancelServers
<1>4. CASE RequestArrives \/ RequestEnds
  BY <1>4 DEF RequestArrives, RequestEnds
<1>5. CASE PilotSees \/ Raises \/ Judge
  BY <1>5 DEF PilotSees, Raises, Judge
<1>6. CASE PilotMisses
  BY <1>6 DEF PilotMisses, CancelHolder, CancelServers
<1>7. CASE SignalTaken("SIGINT") \/ SignalTaken("SIGTERM") \/ Terminated \/ Exit
  BY <1>7 DEF SignalTaken, Terminated, Exit, Dies
<1>8. CASE Interrupted
  BY <1>8 DEF Interrupted, AtAwait, CancelMain, CancelHolder, CancelServers
<1>9. CASE (\E p \in Ports : ForeignTakes(p) \/ ForeignReleases(p)) \/ UNCHANGED vars
  BY <1>9 DEF ForeignTakes, ForeignReleases, vars
<1> QED
  BY <1>1, <1>2, <1>3, <1>4, <1>5, <1>6, <1>7, <1>8, <1>9 DEF Next, Uvicorn, Pilot

(* Nobody else takes the port of a gRPC server, nor stops it. *)
LEMMA GrpcRunsStep ==
    ASSUME ServerOK, Places, Raised, GrpcRuns, [Next]_vars
    PROVE  GrpcRuns'
<1> USE DEF ServerOK, Places, Raised, GrpcRuns, server, asked, judged, Cleaning, Ports, WithGrpc
<1>1. CASE Hold
  BY <1>1 DEF Hold, Probe, Launch, HttpAnswers, GrpcBind, GrpcStarted, GrpcAnswers, WaitTimesOut, Services,
     AskOther, AskOwn, AskRaises, Asking, Script, SmokeDone, StopGrpc, StopGrpcRaises, TellHttp, HttpIsOver
<1>2. CASE UvicornBinds \/ UvicornCannotBind \/ UvicornCloses
  BY <1>2 DEF UvicornBinds, UvicornCannotBind, UvicornCloses, Dies
<1>3. CASE UvicornEnds
  BY <1>3 DEF UvicornEnds, Dies, AtAwait, CancelMain, CancelHolder, CancelServers
<1>4. CASE RequestArrives \/ RequestEnds
  BY <1>4 DEF RequestArrives, RequestEnds
<1>5. CASE PilotSees \/ Raises \/ Judge
  BY <1>5 DEF PilotSees, Raises, Judge
<1>6. CASE PilotMisses
  BY <1>6 DEF PilotMisses, CancelHolder, CancelServers
<1>7. CASE SignalTaken("SIGINT") \/ SignalTaken("SIGTERM") \/ Terminated \/ Exit
  BY <1>7 DEF SignalTaken, Terminated, Exit, Dies
<1>8. CASE Interrupted
  BY <1>8 DEF Interrupted, AtAwait, CancelMain, CancelHolder, CancelServers
<1>9. CASE (\E p \in Ports : ForeignTakes(p) \/ ForeignReleases(p)) \/ UNCHANGED vars
  BY <1>9 DEF ForeignTakes, ForeignReleases, vars
<1> QED
  BY <1>1, <1>2, <1>3, <1>4, <1>5, <1>6, <1>7, <1>8, <1>9 DEF Next, Uvicorn, Pilot

-----------------------------------------------------------------------------
IInv ==
    /\ ServerOK /\ AskedOK
    /\ Places /\ Raised /\ Cut /\ GrpcUp
    /\ HttpCut /\ HttpOver /\ HttpDone /\ HttpClosing /\ HttpTold /\ Delivered /\ Listeners
    /\ Unasked /\ NotForeign /\ StillOwn /\ Suspect /\ PassedBySelf
    /\ Taken /\ HttpRuns /\ GrpcRuns

LEMMA Initial == Init => IInv
<1> SUFFICES ASSUME Init PROVE IInv
  OBVIOUS
<1>1. ServerOK
  BY DEF Init, ServerOK, Cleaning
<1>2. AskedOK
  BY DEF Init, AskedOK
<1>3. Places /\ GrpcUp /\ HttpCut /\ HttpOver /\ HttpDone /\ HttpClosing /\ Delivered
  BY DEF Init, Places, GrpcUp, HttpCut, HttpOver, HttpDone, HttpClosing, Delivered
<1>4. Raised
  BY DEF Init, Raised
<1>5. Cut
  BY DEF Init, Cut
<1>6. HttpTold
  BY DEF Init, HttpTold
<1>7. Listeners
  BY DEF Init, Listeners, Ports
<1>8. Unasked /\ NotForeign /\ StillOwn /\ Suspect /\ PassedBySelf
  BY DEF Init, Unasked, NotForeign, StillOwn, Suspect, PassedBySelf
<1>9. Taken /\ HttpRuns /\ GrpcRuns
  BY DEF Init, Taken, HttpRuns, GrpcRuns
<1> QED
  BY <1>1, <1>2, <1>3, <1>4, <1>5, <1>6, <1>7, <1>8, <1>9 DEF IInv

LEMMA Inductive == IInv /\ [Next]_vars => IInv'
<1> SUFFICES ASSUME IInv, [Next]_vars PROVE IInv'
  OBVIOUS
<1> USE DEF IInv
<1>1. ServerOK' /\ AskedOK' /\ Places' /\ Raised' /\ Cut' /\ GrpcUp'
  BY ServerTypes, AskedTypes, PlacesStep, RaisedStep, CutStep, GrpcUpStep
<1>2. HttpCut' /\ HttpOver' /\ HttpDone' /\ HttpClosing' /\ HttpTold' /\ Delivered' /\ Listeners'
  BY HttpCutStep, HttpOverStep, HttpDoneStep, ClosingStep, ToldStep, DeliveredStep, ListenersStep
<1>3. Unasked' /\ NotForeign' /\ StillOwn' /\ Suspect' /\ PassedBySelf'
  BY UnaskedStep, NotForeignStep, StillOwnStep, SuspectStep, PassedStep
<1>4. Taken' /\ HttpRuns' /\ GrpcRuns'
  BY TakenStep, HttpRunsStep, GrpcRunsStep
<1> QED
  BY <1>1, <1>2, <1>3, <1>4

LEMMA Invariance == Spec => []IInv
<1> QED
  BY Initial, Inductive, PTL DEF Spec

(* A main coroutine that is over, its clean-up uninterrupted and without an *)
(* error of gRPC's, has left nothing of its own listening, but for the two  *)
(* exemptions of OverMeansClosed (the finally clauses of the service runner *)
(* and the pilots' smokes).                                                 *)
THEOREM OverIsClosed == Spec => []OverMeansClosed
<1>1. IInv => OverMeansClosed
  <2> SUFFICES ASSUME IInv, alive, outer = "over", ~ cut
               PROVE  /\ port["http"] = "ours" => http = "returned"
                      /\ port["grpc"] = "ours" => grpc = "bound"
    BY DEF OverMeansClosed
  <2>1. pc = "over"
    BY DEF IInv, Places
  <2>2. http \in {"none", "ended", "returned"}
    BY <2>1 DEF IInv, HttpOver
  <2>3. grpc # "up"
    BY <2>1 DEF IInv, GrpcUp
  <2> QED
    BY <2>2, <2>3 DEF IInv, Listeners
<1> QED
  BY <1>1, Invariance, PTL

(* A pilot that passed had its task completed, and its denied peer refused, *)
(* by its own server (the live pilot's and the LAN pilot's smokes).         *)
THEOREM PassedIsOwn == Spec => []PassedServedItself
<1>1. IInv => PassedServedItself
  BY DEF IInv, PassedBySelf, PassedServedItself
<1> QED
  BY <1>1, Invariance, PTL

(* A service that says that it is running has an HTTP server that is yet to  *)
(* bind, serves or closes, and gRPC if it was asked for (run_service sleeps  *)
(* without looking at them).                                                 *)
THEOREM RunningHas == Spec => []RunningHasItsServers
<1>1. IInv => RunningHasItsServers
  BY DEF IInv, HttpRuns, GrpcRuns, RunningHasItsServers
<1> QED
  BY <1>1, Invariance, PTL
=================================================================================
