--------------------------- MODULE SidecarGroup_proofs ---------------------------
(***************************************************************************)
(* Proofs about SidecarGroup, for any number of sidecars.                  *)
(***************************************************************************)
EXTENDS SidecarGroup, TLAPS

(* What start() leaves behind, and what a stop() without an error does. *)
Up(r) == http[r] \in {"created", "serving"} /\ (r \in WithGrpc => grpc[r])
Shut(r) == port[HttpPort(r)] # "ours" /\ (r \in WithGrpc => port[GrpcPort(r)] # "ours")
Down(r) ==
    /\ http[r] \in {"none", "returned", "ended"}
    /\ http[r] # "returned" => port[HttpPort(r)] # "ours"
    /\ r \in WithGrpc => port[GrpcPort(r)] # "ours"
Untouched(r) == http[r] = "none" /\ ~ grpc[r] /\ Shut(r)

Ending == {"left", "failed"}

(* Whose listeners there are, by what the runtime knows of its servers; a   *)
(* gRPC stop that is cancelled may close the listener and forget the server *)
(* no more.                                                                 *)
Listens(r) ==
    /\ http[r] \in {"serving", "returned"} => port[HttpPort(r)] = "ours"
    /\ http[r] \in {"none", "created"} => port[HttpPort(r)] # "ours"
    /\ grpc[r] => r \in WithGrpc /\ (pc \in Ending \/ port[GrpcPort(r)] = "ours")

(* Those before the runtime being started are up, those after it untouched. *)
StartOrder ==
    pc \in Starting =>
        /\ cur \in Runtimes
        /\ stop_failed = {}
        /\ \A r \in Runtimes : r \in started <=> r < cur
        /\ \A r \in Runtimes : (r < cur => Up(r)) /\ (r > cur => Untouched(r))
        /\ IF pc = "launching" THEN Untouched(cur) ELSE http[cur] \in {"created", "serving"}
        /\ pc \notin {"launching", "http_wait"} => cur \in WithGrpc
        /\ pc = "grpc_start" => port[GrpcPort(cur)] = "ours"
        /\ grpc[cur] <=> pc = "grpc_wait"

ServeAll == pc = "serving" => cur = N /\ stop_failed = {} /\ \A r \in Runtimes : Up(r)

(* Those still to be stopped are up, those that were stopped are down; the  *)
(* rollback's first error is its last, and only an error or a cancellation  *)
(* ends a clean-up before its end.                                          *)
StopOrder ==
    /\ pc \in Stopping => \A r \in Runtimes : r < cur => Up(r)
    /\ pc \in {"rollback", "leaving"} /\ cur > 0 => Up(cur)
    /\ pc \in {"rollback_http", "leaving_http"} =>
          /\ cur \in Runtimes
          /\ http[cur] \in {"created", "serving", "returned"}
          /\ cur \in WithGrpc /\ cur \notin stop_failed => port[GrpcPort(cur)] # "ours"
    /\ pc = "rollback" => stop_failed = {}
    /\ pc = "rollback_http" => stop_failed \subseteq {cur}
    /\ pc \in Ending => cur = 0 \/ cancelled \/ (pc = "failed" /\ cur \in stop_failed)
    /\ pc \in {"rollback", "rollback_http", "failed"} =>
          /\ \A r \in started \ stop_failed : r > cur => Down(r)
          /\ \A q, r \in Runtimes : q \notin started /\ q < r => Untouched(r)
    /\ pc \in {"leaving", "leaving_http", "left"} => \A r \in Runtimes \ stop_failed : r > cur => Down(r)

(* The inductive invariant. *)
IInv == TypeOK /\ (pc # "dead" => \A r \in Runtimes : Listens(r)) /\ StartOrder /\ ServeAll /\ StopOrder

-----------------------------------------------------------------------------
(* No two of the ports of a roster are one. *)
LEMMA PortNames ==
    ASSUME NEW r \in Runtimes
    PROVE  /\ HttpPort(r) \in Ports
           /\ r \in WithGrpc => GrpcPort(r) \in Ports
           /\ \A q \in Runtimes : HttpPort(r) # GrpcPort(q)
           /\ \A q \in Runtimes : q # r => HttpPort(q) # HttpPort(r) /\ GrpcPort(q) # GrpcPort(r)
  BY DEF HttpPort, GrpcPort, Ports

-----------------------------------------------------------------------------
LEMMA Inductive == IInv /\ [Next]_vars => IInv'
  <2> SUFFICES ASSUME IInv, [Next]_vars PROVE IInv'
    OBVIOUS
  <2> USE NAssumption DEF IInv, TypeOK, Listens, StartOrder, ServeAll, StopOrder, Up, Down, Shut, Untouched, Runtimes, Starting, Stopping, Ending
  <2>1. ASSUME Launch PROVE IInv'
    <3>1. TypeOK'
      BY <2>1, PortNames DEF Launch
    <3>2. pc' # "dead" => \A r \in Runtimes : Listens(r)'
      BY <2>1, PortNames DEF Launch, Listens
    <3>3. StartOrder' /\ ServeAll'
      BY <2>1, PortNames DEF Launch
    <3>4. StopOrder'
      BY <2>1, PortNames DEF Launch
    <3> QED
      BY <3>1, <3>2, <3>3, <3>4
  <2>2. ASSUME LaunchRefused PROVE IInv'
    <3>1. TypeOK'
      BY <2>2, PortNames DEF LaunchRefused, StartFails
    <3>2. pc' # "dead" => \A r \in Runtimes : Listens(r)'
      BY <2>2, PortNames DEF LaunchRefused, StartFails, Listens
    <3>3. StartOrder' /\ ServeAll'
      BY <2>2, PortNames DEF LaunchRefused, StartFails
    <3>4. StopOrder'
      BY <2>2, PortNames DEF LaunchRefused, StartFails
    <3> QED
      BY <3>1, <3>2, <3>3, <3>4
  <2>3. ASSUME HttpAnswers PROVE IInv'
    <3>1. TypeOK'
      <4>1. CASE cur \in WithGrpc
        BY <2>3, <4>1 DEF HttpAnswers
      <4>2. CASE cur \notin WithGrpc
        <5>1. StartNext /\ cur \in Runtimes /\ UNCHANGED <<port, http, grpc, stop_failed, cancelled>>
          BY <2>3, <4>2 DEF HttpAnswers
        <5>2. cur' \in 0 .. N /\ pc' \in {"launching", "serving"} /\ started' \subseteq Runtimes
          BY <5>1 DEF StartNext
        <5> QED
          BY <5>1, <5>2
      <4> QED
        BY <4>1, <4>2
    <3>2. pc' # "dead" => \A r \in Runtimes : Listens(r)'
      BY <2>3, PortNames DEF HttpAnswers, StartNext, Listens
    <3>3. StartOrder' /\ ServeAll'
      <4>1. CASE cur \in WithGrpc
        BY <2>3, <4>1 DEF HttpAnswers
      <4>2. CASE cur \notin WithGrpc /\ cur < N
        <5>1. /\ cur \in Runtimes /\ cur' = cur + 1 /\ cur' \in Runtimes
              /\ pc' = "launching" /\ started' = started \cup {cur}
              /\ UNCHANGED <<http, grpc, stop_failed>>
          BY <2>3, <4>2 DEF HttpAnswers, StartNext
        <5>2. Up(cur) /\ Untouched(cur + 1)
          BY <2>3, <4>2, <5>1 DEF HttpAnswers
        <5>3. \A r \in Runtimes : (r < cur' => Up(r)) /\ (r > cur' => Untouched(r))
          BY <2>3, <5>1, <5>2 DEF HttpAnswers
        <5> QED
          BY <2>3, <5>1, <5>2, <5>3 DEF HttpAnswers
      <4>3. CASE cur \notin WithGrpc /\ cur = N
        BY <2>3, <4>3 DEF HttpAnswers, StartNext
      <4> QED
        BY <2>3, <4>1, <4>2, <4>3 DEF HttpAnswers
    <3>4. StopOrder'
      BY <2>3, PortNames DEF HttpAnswers, StartNext
    <3> QED
      BY <3>1, <3>2, <3>3, <3>4
  <2>4. ASSUME GrpcBind PROVE IInv'
    <3>1. TypeOK'
      BY <2>4, PortNames DEF GrpcBind
    <3>2. pc' # "dead" => \A r \in Runtimes : Listens(r)'
      BY <2>4, PortNames DEF GrpcBind, Listens
    <3>3. StartOrder' /\ ServeAll'
      BY <2>4, PortNames DEF GrpcBind
    <3>4. StopOrder'
      BY <2>4, PortNames DEF GrpcBind
    <3> QED
      BY <3>1, <3>2, <3>3, <3>4
  <2>5. ASSUME GrpcBindFails PROVE IInv'
    <3>1. TypeOK'
      BY <2>5, PortNames DEF GrpcBindFails, StartFails
    <3>2. pc' # "dead" => \A r \in Runtimes : Listens(r)'
      BY <2>5, PortNames DEF GrpcBindFails, StartFails, Listens
    <3>3. StartOrder' /\ ServeAll'
      BY <2>5, PortNames DEF GrpcBindFails, StartFails
    <3>4. StopOrder'
      BY <2>5, PortNames DEF GrpcBindFails, StartFails
    <3> QED
      BY <3>1, <3>2, <3>3, <3>4
  <2>6. ASSUME GrpcStarted PROVE IInv'
    <3>1. TypeOK'
      BY <2>6, PortNames DEF GrpcStarted
    <3>2. pc' # "dead" => \A r \in Runtimes : Listens(r)'
      BY <2>6, PortNames DEF GrpcStarted, Listens
    <3>3. StartOrder' /\ ServeAll'
      BY <2>6, PortNames DEF GrpcStarted
    <3>4. StopOrder'
      BY <2>6, PortNames DEF GrpcStarted
    <3> QED
      BY <3>1, <3>2, <3>3, <3>4
  <2>7. ASSUME GrpcAnswers PROVE IInv'
    <3>1. TypeOK'
      BY <2>7, PortNames DEF GrpcAnswers, StartNext
    <3>2. pc' # "dead" => \A r \in Runtimes : Listens(r)'
      BY <2>7, PortNames DEF GrpcAnswers, StartNext, Listens
    <3>3. StartOrder' /\ ServeAll'
      BY <2>7, PortNames DEF GrpcAnswers, StartNext
    <3>4. StopOrder'
      BY <2>7, PortNames DEF GrpcAnswers, StartNext
    <3> QED
      BY <3>1, <3>2, <3>3, <3>4
  <2>8. ASSUME StartInterrupted PROVE IInv'
    <3>1. TypeOK'
      BY <2>8, PortNames DEF StartInterrupted, StartFails
    <3>2. pc' # "dead" => \A r \in Runtimes : Listens(r)'
      <4>1. CASE UNCHANGED port
        BY <2>8, <4>1 DEF StartInterrupted, StartFails
      <4>2. CASE pc = "grpc_start" /\ port' = [port EXCEPT ![GrpcPort(cur)] = "free"]
        BY <2>8, <4>2, PortNames DEF StartInterrupted, StartFails
      <4> QED
        BY <2>8, <4>1, <4>2 DEF StartInterrupted
    <3>3. StartOrder' /\ ServeAll'
      BY <2>8, PortNames DEF StartInterrupted, StartFails
    <3>4. StopOrder'
      BY <2>8, PortNames DEF StartInterrupted, StartFails
    <3> QED
      BY <3>1, <3>2, <3>3, <3>4
  <2>9. ASSUME Leave PROVE IInv'
    <3>1. TypeOK'
      BY <2>9, PortNames DEF Leave
    <3>2. pc' # "dead" => \A r \in Runtimes : Listens(r)'
      BY <2>9, PortNames DEF Leave, Listens
    <3>3. StartOrder' /\ ServeAll'
      BY <2>9, PortNames DEF Leave
    <3>4. StopOrder'
      BY <2>9, PortNames DEF Leave
    <3> QED
      BY <3>1, <3>2, <3>3, <3>4
  <2>10. ASSUME StopGrpc PROVE IInv'
    <3>1. TypeOK'
      <4>1. cur \in Runtimes /\ TypeOK
        BY <2>10 DEF StopGrpc
      <4>2. /\ port' = port \/ port' = [port EXCEPT ![GrpcPort(cur)] = "free"]
            /\ grpc' = grpc \/ grpc' = [grpc EXCEPT ![cur] = FALSE]
            /\ stop_failed' = stop_failed \/ stop_failed' = stop_failed \cup {cur}
            /\ pc' \in {"rollback_http", "leaving_http"}
            /\ UNCHANGED <<http, cur, started, cancelled>>
        BY <2>10 DEF StopGrpc
      <4>3. port' \in [Ports -> {"free", "foreign", "ours"}]
        BY <4>1, <4>2
      <4>4. grpc' \in [Runtimes -> BOOLEAN]
        <5>1. ASSUME grpc' = [grpc EXCEPT ![cur] = FALSE] PROVE grpc' \in [Runtimes -> BOOLEAN]
          BY <4>1, <5>1, Zenon DEF TypeOK
        <5> QED
          BY <4>1, <4>2, <5>1, Zenon DEF TypeOK
      <4> QED
        BY <4>1, <4>2, <4>3, <4>4
    <3>2. pc' # "dead" => \A r \in Runtimes : Listens(r)'
      BY <2>10, PortNames DEF StopGrpc, Listens
    <3>3. StartOrder' /\ ServeAll'
      BY <2>10, PortNames DEF StopGrpc
    <3>4. StopOrder'
      <4>1. /\ cur \in Runtimes /\ (grpc[cur] => cur \in WithGrpc) /\ Up(cur)
            /\ \A p \in Ports : p # GrpcPort(cur) => port'[p] = port[p]
            /\ \A r \in Runtimes : r # cur => grpc'[r] = grpc[r]
            /\ \A r \in stop_failed' : r \in stop_failed \/ r = cur
            /\ stop_failed \subseteq stop_failed'
            /\ pc' = IF pc = "rollback" THEN "rollback_http" ELSE "leaving_http"
            /\ UNCHANGED <<http, cur, started, cancelled>>
        BY <2>10, PortNames DEF StopGrpc
      <4>2. cur \in WithGrpc /\ cur \notin stop_failed' => port'[GrpcPort(cur)] # "ours"
        BY <2>10, <4>1, PortNames DEF StopGrpc
      <4>3. \A r \in Runtimes : r # cur => (Up(r) => Up(r)') /\ (Down(r) => Down(r)') /\ (Untouched(r) => Untouched(r)')
        BY <4>1, PortNames
      <4>4. pc' = "rollback_http" => \A q, r \in Runtimes : q \notin started' /\ q < r => Untouched(r)'
        <5>1. ~ Untouched(cur)
          BY <4>1
        <5> QED
          BY <2>10, <4>1, <4>3, <5>1 DEF StopGrpc
      <4> QED
        BY <2>10, <4>1, <4>2, <4>3, <4>4 DEF StopGrpc
    <3> QED
      BY <3>1, <3>2, <3>3, <3>4
  <2>11. ASSUME StopHttp PROVE IInv'
    <3>1. TypeOK'
      BY <2>11, PortNames DEF StopHttp, StopNext
    <3>2. pc' # "dead" => \A r \in Runtimes : Listens(r)'
      BY <2>11, PortNames DEF StopHttp, StopNext, Listens
    <3>3. StartOrder' /\ ServeAll'
      BY <2>11, PortNames DEF StopHttp, StopNext
    <3>4. StopOrder'
      BY <2>11, PortNames DEF StopHttp, StopNext
    <3> QED
      BY <3>1, <3>2, <3>3, <3>4
  <2>12. ASSUME StopHttpTimesOut PROVE IInv'
    <3>1. TypeOK'
      BY <2>12, PortNames DEF StopHttpTimesOut, HttpTaskCancelled, StopNext
    <3>2. pc' # "dead" => \A r \in Runtimes : Listens(r)'
      BY <2>12, PortNames DEF StopHttpTimesOut, HttpTaskCancelled, StopNext, Listens
    <3>3. StartOrder' /\ ServeAll'
      BY <2>12, PortNames DEF StopHttpTimesOut, HttpTaskCancelled, StopNext
    <3>4. StopOrder'
      BY <2>12, PortNames DEF StopHttpTimesOut, HttpTaskCancelled, StopNext
    <3> QED
      BY <3>1, <3>2, <3>3, <3>4
  <2>13. ASSUME Stopped PROVE IInv'
    <3>1. TypeOK'
      BY <2>13, PortNames DEF Stopped, Over
    <3>2. pc' # "dead" => \A r \in Runtimes : Listens(r)'
      BY <2>13, PortNames DEF Stopped, Over, Listens
    <3>3. StartOrder' /\ ServeAll'
      BY <2>13, PortNames DEF Stopped, Over
    <3>4. StopOrder'
      BY <2>13, PortNames DEF Stopped, Over
    <3> QED
      BY <3>1, <3>2, <3>3, <3>4
  <2>14. ASSUME NEW q \in Runtimes, UvicornBinds(q) PROVE IInv'
    <3>1. TypeOK'
      BY <2>14, PortNames DEF UvicornBinds, ToldToExit
    <3>2. pc' # "dead" => \A r \in Runtimes : Listens(r)'
      BY <2>14, PortNames DEF UvicornBinds, ToldToExit, Listens
    <3>3. StartOrder' /\ ServeAll'
      BY <2>14, PortNames DEF UvicornBinds, ToldToExit
    <3>4. StopOrder'
      <4>1. /\ \A p \in Ports : p # HttpPort(q) => port'[p] = port[p]
            /\ \A r \in Runtimes : r # q => http'[r] = http[r]
            /\ http[q] = "created"
            /\ http'[q] = IF pc \in {"rollback_http", "leaving_http"} /\ cur = q THEN "returned" ELSE "serving"
            /\ UNCHANGED <<grpc, pc, cur, started, stop_failed, cancelled>>
        BY <2>14 DEF UvicornBinds, ToldToExit
      <4>2. \A r \in Runtimes : /\ Up(r) /\ (r # cur \/ pc \notin {"rollback_http", "leaving_http"}) => Up(r)'
                              /\ (Down(r) => Down(r)') /\ (Untouched(r) => Untouched(r)')
        BY <4>1, PortNames
      <4> QED
        BY <4>1, <4>2, PortNames
    <3> QED
      BY <3>1, <3>2, <3>3, <3>4
  <2>15. ASSUME NEW q \in Runtimes, UvicornCannotBind(q) PROVE IInv'
    <3>1. TypeOK'
      BY <2>15, PortNames DEF UvicornCannotBind, ProcessDies
    <3>2. pc' # "dead" => \A r \in Runtimes : Listens(r)'
      BY <2>15, PortNames DEF UvicornCannotBind, ProcessDies, Listens
    <3>3. StartOrder' /\ ServeAll'
      BY <2>15, PortNames DEF UvicornCannotBind, ProcessDies
    <3>4. StopOrder'
      BY <2>15, PortNames DEF UvicornCannotBind, ProcessDies
    <3> QED
      BY <3>1, <3>2, <3>3, <3>4
  <2>16. ASSUME NEW p \in Ports, ForeignTakes(p) \/ ForeignReleases(p) PROVE IInv'
    <3>1. /\ port' \in [Ports -> {"free", "foreign", "ours"}]
          /\ \A q \in Ports : port'[q] = "ours" <=> port[q] = "ours"
          /\ UNCHANGED <<http, grpc, pc, cur, started, stop_failed, cancelled>>
      BY <2>16 DEF ForeignTakes, ForeignReleases
    <3>2. \A r \in Runtimes : Listens(r)' <=> Listens(r)
      BY <3>1, PortNames
    <3>3. StartOrder' /\ ServeAll'
      BY <3>1, PortNames
    <3>4. StopOrder'
      BY <3>1, PortNames
    <3> QED
      BY <3>1, <3>2, <3>3, <3>4
  <2>17. ASSUME HttpReturned PROVE IInv'
    <3>1. TypeOK'
      BY <2>17 DEF HttpReturned, StopNext
    <3>2. pc' # "dead" => \A r \in Runtimes : Listens(r)'
      BY <2>17 DEF HttpReturned, StopNext, Listens
    <3>3. StartOrder' /\ ServeAll'
      BY <2>17 DEF HttpReturned, StopNext
    <3>4. StopOrder'
      BY <2>17 DEF HttpReturned, StopNext
    <3> QED
      BY <3>1, <3>2, <3>3, <3>4
  <2>18. ASSUME StopCancelled PROVE IInv'
    <3>1. /\ cur \in Runtimes /\ cancelled' = TRUE /\ UNCHANGED <<grpc, cur, started, stop_failed>>
          /\ pc' = IF pc \in {"rollback", "rollback_http"} THEN "failed" ELSE "left"
          /\ http' \in [Runtimes -> {"none", "created", "serving", "returned", "ended"}]
          /\ \A r \in Runtimes : r # cur => http'[r] = http[r]
          /\ http'[cur] \in {http[cur], "ended"}
      BY <2>18 DEF StopCancelled, HttpTaskCancelled, Over
    <3>2. /\ port' \in [Ports -> {"free", "foreign", "ours"}]
          /\ \A p \in Ports : p \notin {HttpPort(cur), GrpcPort(cur)} => port'[p] = port[p]
          /\ \A p \in Ports : port'[p] \in {port[p], "free"}
          /\ port'[HttpPort(cur)] = port[HttpPort(cur)] \/ http'[cur] = "ended"
      BY <2>18, <3>1, PortNames DEF StopCancelled, HttpTaskCancelled
    <3>3. TypeOK'
      BY <3>1, <3>2
    <3>4. pc' # "dead" => \A r \in Runtimes : Listens(r)'
      <4>1. \A r \in Runtimes : http'[r] \in {"none", "created", "serving", "returned"} =>
                http'[r] = http[r] /\ port'[HttpPort(r)] = port[HttpPort(r)]
        BY <3>1, <3>2, PortNames
      <4> QED
        BY <3>1, <4>1, <2>18 DEF Listens, StopCancelled
    <3>5. StartOrder' /\ ServeAll'
      BY <3>1
    <3>6. StopOrder'
      <4>1. \A r \in Runtimes : r # cur => (Down(r) => Down(r)') /\ (Untouched(r) => Untouched(r)')
        BY <3>1, <3>2, PortNames
      <4>2. ~ Untouched(cur)
        BY <2>18 DEF StopCancelled
      <4> QED
        BY <2>18, <3>1, <4>1, <4>2 DEF StopCancelled
    <3> QED
      BY <3>3, <3>4, <3>5, <3>6
  <2>19. CASE UNCHANGED vars
    BY <2>19 DEF vars
  <2> QED
    BY <2>1, <2>2, <2>3, <2>4, <2>5, <2>6, <2>7, <2>8, <2>9, <2>10, <2>11, <2>12, <2>13, <2>14,
       <2>15, <2>16, <2>17, <2>18, <2>19 DEF Next, Start, Stop, Uvicorn

LEMMA Initial == Init => IInv
<1> SUFFICES ASSUME Init PROVE IInv
  OBVIOUS
<1> USE NAssumption DEF Init, Runtimes
<1>1. TypeOK
  <2>1. port \in [Ports -> {"free", "foreign", "ours"}] /\ pc \in Starting /\ cur \in 0 .. N
    BY DEF Starting
  <2>2. http \in [Runtimes -> {"none", "created", "serving", "returned", "ended"}]
    OBVIOUS
  <2>3. grpc \in [Runtimes -> BOOLEAN] /\ started \subseteq Runtimes /\ stop_failed \subseteq Runtimes /\ cancelled \in BOOLEAN
    OBVIOUS
  <2> QED
    BY <2>1, <2>2, <2>3 DEF TypeOK
<1>2. \A r \in Runtimes : Untouched(r) /\ Listens(r)
  BY PortNames DEF Untouched, Shut, Listens
<1> QED
  BY <1>1, <1>2 DEF IInv, StartOrder, ServeAll, StopOrder, Starting, Stopping, Ending

LEMMA Invariance == Spec => []IInv
  BY Initial, Inductive, PTL DEF Spec

-----------------------------------------------------------------------------
(* The group's state is well typed: cur stays among the roster's places (the *)
(* loops of __aenter__ and __aexit__).                                       *)
THEOREM TypeCorrect == Spec => []TypeOK
<1>1. IInv => TypeOK
  BY DEF IInv
<1> QED
  BY <1>1, Invariance, PTL

LEMMA InvCloses == IInv => StoppedMeansClosed
<1> SUFFICES ASSUME IInv, pc \in Ending PROVE StoppedMeansClosed
  BY DEF StoppedMeansClosed, Ending
<1>1. cur = 0 \/ cancelled \/ (pc = "failed" /\ cur \in stop_failed)
  BY DEF IInv, StopOrder
<1>2. ASSUME NEW r \in Runtimes, Down(r) \/ Untouched(r), NEW p \in PortsOf(r), port[p] = "ours"
      PROVE  p = HttpPort(r) /\ http[r] = "returned"
  <2>1. p = HttpPort(r) \/ (r \in WithGrpc /\ p = GrpcPort(r))
    BY DEF PortsOf, Ports, HttpPort, GrpcPort
  <2> QED
    BY <1>2, <2>1 DEF Down, Untouched, Shut
<1>3. ASSUME NEW r \in Runtimes \ stop_failed, r > cur, ~ (pc = "failed" /\ StartRaised(r))
      PROVE  Down(r) \/ Untouched(r)
  <2>1. CASE pc = "left" \/ r \in started
    BY <1>3, <2>1 DEF IInv, StopOrder, Ending
  <2>2. CASE pc = "failed" /\ r \notin started
    <3>1. PICK q \in Runtimes : q \notin started /\ q < r
      BY <1>3, <2>2 DEF StartRaised
    <3> QED
      BY <2>2, <3>1 DEF IInv, StopOrder
  <2> QED
    BY <2>1, <2>2 DEF Ending
<1> QED
  BY <1>1, <1>2, <1>3 DEF StoppedMeansClosed

(* When a group was left, or could not be entered, all the sidecars that    *)
(* its clean-up came past have closed, wherever stop() raised, but for      *)
(* those whose own stop() or start() raised and the HTTP listener of a      *)
(* server that was told to exit before it ran; and it comes past all of     *)
(* them unless it is cancelled, or a stop() raises in a rollback (__aexit__ *)
(* and the rollback of __aenter__).                                         *)
THEOREM LeavingCloses == Spec => []StoppedMeansClosed
  BY InvCloses, Invariance, PTL

LEMMA InvServes == IInv => ServesOnOwnListeners
<1> SUFFICES ASSUME IInv, pc = "serving", NEW r \in Runtimes, NEW p \in PortsOf(r)
             PROVE  port[p] = "ours" \/ (p = HttpPort(r) /\ http[r] = "created")
  BY DEF ServesOnOwnListeners
<1>1. p = HttpPort(r) \/ (r \in WithGrpc /\ p = GrpcPort(r))
  BY DEF PortsOf, Ports, HttpPort, GrpcPort
<1>2. Listens(r) /\ Up(r)
  BY DEF IInv, ServeAll
<1> QED
  BY <1>1, <1>2 DEF Listens, Up, Ending

(* A group that serves does so on its own listeners, those of HTTP servers  *)
(* whose tasks have not run yet apart (start()'s probes, binds and waits).  *)
THEOREM ServesItself == Spec => []ServesOnOwnListeners
  BY InvServes, Invariance, PTL
=================================================================================
