-------------------------- MODULE ServiceUnits_proofs --------------------------
(***************************************************************************)
(* Proofs about ServiceUnits, for any number of units and installers, any  *)
(* scopes, and any amount of trouble.                                      *)
(***************************************************************************)
EXTENDS ServiceUnits, TLAPS

USE NAssumption, ScopeAssumption, MaxTroubleAssumption

-----------------------------------------------------------------------------
(* Types, of the world and of the installers.                               *)

WorldOK ==
    /\ env \in [Units -> Version] /\ text \in [Units -> Version]
    /\ loaded \in [Units -> Version]
    /\ svc \in [Units -> Service]
    /\ trouble \in 0 .. MaxTrouble

RunOK ==
    /\ pc \in [Installers -> Points \cup Over]
    /\ todo \in [Installers -> SUBSET Units]
    /\ cur \in [Installers -> Units]
    /\ ok \in [Installers -> BOOLEAN]
    /\ token \in [Installers -> Version]
    /\ mine \in [Installers -> [Units -> Versions]]
    /\ answered \in [Installers -> [Units -> Versions]]

LEMMA StartedType == ASSUME WorldOK, NEW u \in Units PROVE Started(u) \in Service
  BY DEF WorldOK, Started, Service, States

LEMMA FileTypes ==
    /\ Before \in Version /\ Nothing \in Versions
    /\ \A v \in Version : Opened(v) \in Version /\ Filled(v) \in Version
  BY DEF Version, Versions, Before, Nothing, Opened, Filled

(* A service changes its state, or is started anew. *)
LEMMA SystemdTypes ==
    ASSUME WorldOK, RunOK, NEW u \in Units, Systemd(u)
    PROVE  WorldOK' /\ RunOK'
<1>1. RunOK'
  BY DEF Systemd, ServiceUp, ServiceFails, AutoRestart, OperatorRestart, OperatorStop, SvcState, RunOK, run
<1>2. UNCHANGED <<env, text, loaded>> /\ trouble' \in 0 .. MaxTrouble
  BY DEF Systemd, ServiceUp, ServiceFails, AutoRestart, OperatorRestart, OperatorStop, SvcState, WorldOK, files, Trouble
<1>3. svc' \in [Units -> Service]
  <2>1. ASSUME NEW from, NEW to \in States, SvcState(u, from, to) PROVE svc' \in [Units -> Service]
    BY <2>1 DEF SvcState, WorldOK, Service
  <2>2. CASE AutoRestart(u) \/ OperatorRestart(u)
    BY <2>2, StartedType DEF AutoRestart, OperatorRestart, WorldOK
  <2> QED
    BY <2>1, <2>2 DEF Systemd, ServiceUp, ServiceFails, OperatorStop, States
<1> QED
  BY <1>1, <1>2, <1>3 DEF WorldOK

LEMMA EndTypes ==
    ASSUME RunOK, NEW i \in Installers, End(i, "over")
    PROVE  RunOK'
<1>1. 1 \in Units
  BY DEF Units
<1> QED
  BY <1>1, FileTypes DEF RunOK, End, Goto, Over

LEMMA StartTypes ==
    ASSUME WorldOK, NEW units, StartAnew(units)
    PROVE  svc' \in [Units -> Service]
  BY StartedType DEF StartAnew, WorldOK

(* What an installer writes is remembered as its own. *)
LEMMA MineTypes ==
    ASSUME NEW m \in [Installers -> [Units -> Versions]], NEW i \in Installers, NEW u \in Units, NEW v \in Version
    PROVE  /\ [m EXCEPT ![i][u].env = v] \in [Installers -> [Units -> Versions]]
           /\ [m EXCEPT ![i][u].text = v] \in [Installers -> [Units -> Versions]]
<1>1. [m[i][u] EXCEPT !.env = v] \in Versions /\ [m[i][u] EXCEPT !.text = v] \in Versions
  BY DEF Versions
<1>2. \A r \in Versions : [m[i] EXCEPT ![u] = r] \in [Units -> Versions]
  OBVIOUS
<1>3. \A row \in [Units -> Versions] : [m EXCEPT ![i] = row] \in [Installers -> [Units -> Versions]]
  OBVIOUS
<1> QED
  BY <1>1, <1>2, <1>3

LEMMA InstallTypes ==
    ASSUME WorldOK, RunOK, NEW i \in Installers, Begin(i) \/ Install(i) \/ Killed(i)
    PROVE  WorldOK' /\ RunOK'
<1> USE DEF files, run
<1>1. CASE Begin(i)
  BY <1>1, EndTypes DEF Begin, Goto, Points, WorldOK, RunOK
<1>2. ASSUME NEW u \in Units, OpenEnv(i, u) PROVE WorldOK' /\ RunOK'
  BY <1>2, FileTypes DEF OpenEnv, Goto, Points, WorldOK, RunOK
<1>3. CASE FillEnv(i)
  <2>1. Filled(env[cur[i]]) \in Version
    BY FileTypes DEF WorldOK, RunOK
  <2>2. mine' \in [Installers -> [Units -> Versions]]
    BY <1>3, <2>1, MineTypes DEF FillEnv, RunOK
  <2> QED
    BY <1>3, <2>1, <2>2 DEF FillEnv, Goto, Points, WorldOK, RunOK
<1>4. CASE OpenText(i)
  BY <1>4, FileTypes DEF OpenText, Goto, Points, WorldOK, RunOK
<1>5. CASE FillText(i)
  <2>1. Filled(text[cur[i]]) \in Version
    BY FileTypes DEF WorldOK, RunOK
  <2>2. mine' \in [Installers -> [Units -> Versions]]
    BY <1>5, <2>1, MineTypes DEF FillText, RunOK
  <2> QED
    BY <1>5, <2>1, <2>2 DEF FillText, Goto, Points, WorldOK, RunOK
<1>6. CASE WriteFails(i)
  BY <1>6, EndTypes DEF WriteFails, WorldOK
<1>7. CASE DaemonReload(i)
  BY <1>7 DEF DaemonReload, Goto, Points, WorldOK, RunOK
<1>8. CASE EnableNow(i)
  BY <1>8, StartTypes DEF EnableNow, Counts, Goto, Points, WorldOK, RunOK
<1>9. CASE Restart(i)
  BY <1>9, StartTypes DEF Restart, WaitFor, Counts, Goto, Points, WorldOK, RunOK
<1>10. ASSUME NEW u \in Units, SeeReady(i, u) PROVE WorldOK' /\ RunOK'
  <2>1. WorldOK' /\ UNCHANGED <<cur, ok, token, mine, answered>>
    BY <1>10 DEF SeeReady, WorldOK
  <2>2. pc' \in [Installers -> Points \cup Over]
    BY <1>10 DEF SeeReady, Smoke, Goto, Points, RunOK
  <2>3. todo' \in [Installers -> SUBSET Units]
    <3>1. todo[i] \ {u} \in SUBSET Units /\ Scope[i] \in SUBSET Units
      BY DEF RunOK
    <3>2. todo' = [todo EXCEPT ![i] = Scope[i]] \/ todo' = [todo EXCEPT ![i] = todo[i] \ {u}]
      BY <1>10 DEF SeeReady, Smoke
    <3> QED
      BY <3>1, <3>2 DEF RunOK
  <2> QED
    BY <2>1, <2>2, <2>3 DEF RunOK
<1>11. CASE WaitTimesOut(i)
  BY <1>11 DEF WaitTimesOut, Smoke, Goto, Points, WorldOK, RunOK
<1>12. ASSUME NEW u \in Units, ReadToken(i, u) PROVE WorldOK' /\ RunOK'
  <2>1. WorldOK'
    BY <1>12 DEF ReadToken, WorldOK
  <2>2. CASE env[u].whole
    <3>1. UNCHANGED <<ok, mine, answered>> /\ cur' = [cur EXCEPT ![i] = u] /\ token' = [token EXCEPT ![i] = env[u]]
      BY <1>12, <2>2 DEF ReadToken
    <3>2. todo' = [todo EXCEPT ![i] = @ \ {u}] /\ pc' = [pc EXCEPT ![i] = "allowed"]
      BY <1>12, <2>2 DEF ReadToken, Goto
    <3> QED
      BY <2>1, <3>1, <3>2 DEF WorldOK, RunOK, Points
  <2>3. CASE ~ env[u].whole
    <3>1. End(i, "over")
      BY <1>12, <2>3 DEF ReadToken
    <3> QED
      BY <2>1, <3>1, EndTypes
  <2> QED
    BY <2>1, <2>2, <2>3
<1>13. CASE SmokeAllowed(i)
  <2>1. CASE End(i, "over")
    BY <1>13, <2>1, EndTypes DEF SmokeAllowed, WorldOK
  <2>2. CASE ~ End(i, "over")
    <3>1. [env |-> svc[cur[i]].env, text |-> svc[cur[i]].text] \in Versions
      BY DEF WorldOK, RunOK, Service, Versions
    <3>2. answered' \in [Installers -> [Units -> Versions]]
      <4>1. answered' = [answered EXCEPT ![i][cur[i]] = [env |-> svc[cur[i]].env, text |-> svc[cur[i]].text]]
        BY <1>13, <2>2 DEF SmokeAllowed
      <4>2. cur[i] \in Units /\ answered \in [Installers -> [Units -> Versions]]
        BY DEF RunOK
      <4> QED
        BY <3>1, <4>1, <4>2
    <3>3. WorldOK' /\ UNCHANGED <<todo, cur, mine>>
      BY <1>13, <2>2 DEF SmokeAllowed, WorldOK
    <3>4. ok' \in [Installers -> BOOLEAN]
      BY <1>13, <2>2 DEF SmokeAllowed, RunOK, Lets
    <3>5. pc' = [pc EXCEPT ![i] = "denied"] /\ token' = [token EXCEPT ![i] = Before]
      BY <1>13, <2>2 DEF SmokeAllowed, Goto
    <3> QED
      BY <3>2, <3>3, <3>4, <3>5, FileTypes DEF Points, RunOK
  <2> QED
    BY <2>1, <2>2
<1>14. CASE SmokeDenied(i)
  BY <1>14, EndTypes DEF SmokeDenied, Goto, Points, WorldOK, RunOK
<1>15. CASE SmokeGrpc(i)
  BY <1>15, EndTypes DEF SmokeGrpc, Goto, Points, Over, WorldOK, RunOK
<1>16. CASE Killed(i)
  BY <1>16, EndTypes DEF Killed, WorldOK
<1> QED
  BY <1>1, <1>2, <1>3, <1>4, <1>5, <1>6, <1>7, <1>8, <1>9, <1>10, <1>11, <1>12, <1>13, <1>14, <1>15, <1>16 DEF Install
LEMMA Types == WorldOK /\ RunOK /\ [Next]_vars => WorldOK' /\ RunOK'
<1> SUFFICES ASSUME WorldOK, RunOK, [Next]_vars PROVE WorldOK' /\ RunOK'
  OBVIOUS
<1>1. CASE UNCHANGED vars
  BY <1>1 DEF vars, files, run, WorldOK, RunOK
<1> QED
  BY <1>1, SystemdTypes, InstallTypes DEF Next

LEMMA InitTypes == Init => WorldOK /\ RunOK
<1> SUFFICES ASSUME Init PROVE WorldOK /\ RunOK
  OBVIOUS
<1>1. 1 \in Units
  BY DEF Units
<1>2. WorldOK
  BY FileTypes DEF Init, WorldOK, Service, States
<1>3. RunOK
  BY <1>1, FileTypes DEF Init, RunOK, Points
<1> QED
  BY <1>2, <1>3

(* Units, files, services and installers are well typed (run_rollout, the   *)
(* plugin's install, and systemd).                                          *)
THEOREM TypeCorrect == Spec => []TypeOK
<1>1. WorldOK /\ RunOK => TypeOK
  BY DEF WorldOK, RunOK, TypeOK
<1> QED
  BY <1>1, InitTypes, Types, PTL DEF Spec

-----------------------------------------------------------------------------
(* Whatever holds a version of a file holds the one that is there now, or a *)
(* strictly earlier one; what runs was started from a whole unit file.      *)
Dated(v, now) == v.n <= now.n /\ (v.n = now.n => v = now)

LoadedDated == \A u \in Units : Dated(loaded[u], text[u])
SvcDated == \A u \in Units : Dated(svc[u].env, env[u]) /\ Dated(svc[u].text, text[u]) /\ svc[u].text.whole
MineDated ==
    \A i \in Installers, u \in Units :
        Dated(mine[i][u].env, env[u]) /\ Dated(mine[i][u].text, text[u])

(* A file stays as it is or gets its next version. *)
Moves(v, next) == next = v \/ next = Opened(v) \/ next = Filled(v)

LEMMA MovesDated ==
    ASSUME NEW v \in Version, NEW now \in Version, NEW next, Dated(v, now), Moves(now, next)
    PROVE  Dated(v, next)
  BY DEF Dated, Moves, Version, Opened, Filled

(* A service keeps what it runs, or is started from what is there. *)
SvcMoves(u) ==
    \/ svc'[u].env = svc[u].env /\ svc'[u].text = svc[u].text
    \/ svc'[u].env = env[u] /\ svc'[u].text = loaded[u] /\ loaded[u].whole

(* An installer keeps what it remembers as its own, forgets it, or adds     *)
(* what it has just written.                                                *)
MineMoves(i, u) ==
    /\ mine'[i][u].env = mine[i][u].env \/ mine'[i][u].env = Before \/ mine'[i][u].env = env'[u]
    /\ mine'[i][u].text = mine[i][u].text \/ mine'[i][u].text = Before \/ mine'[i][u].text = text'[u]

(* It remembers as answers what it has seen of services, or forgets them. *)
AnsweredMoves(i, u) ==
    \/ answered'[i][u] = answered[i][u] \/ answered'[i][u] = Nothing
    \/ answered'[i][u] = [env |-> svc[u].env, text |-> svc[u].text]

World ==
    /\ \A u \in Units : Moves(env[u], env'[u]) /\ Moves(text[u], text'[u]) /\ SvcMoves(u)
    /\ loaded' = loaded \/ (loaded' = text /\ text' = text)

LEMMA SystemdMoves ==
    ASSUME WorldOK, NEW w \in Units, Systemd(w)
    PROVE  World /\ UNCHANGED <<mine, answered, pc, ok, todo, cur>>
<1>1. UNCHANGED <<env, text, loaded, mine, answered, pc, ok, todo, cur>>
  BY DEF Systemd, ServiceUp, ServiceFails, AutoRestart, OperatorRestart, OperatorStop, SvcState, files, run
<1>2. ASSUME NEW from, NEW to, SvcState(w, from, to), NEW u \in Units PROVE SvcMoves(u)
  BY <1>2 DEF SvcState, SvcMoves, WorldOK, Service
<1>3. ASSUME svc' = [svc EXCEPT ![w] = Started(w)], loaded[w].whole, NEW u \in Units PROVE SvcMoves(u)
  BY <1>3 DEF SvcMoves, WorldOK, Started
<1>4. \A u \in Units : SvcMoves(u)
  BY <1>2, <1>3 DEF Systemd, ServiceUp, ServiceFails, AutoRestart, OperatorRestart, OperatorStop
<1> QED
  BY <1>1, <1>4 DEF World, Moves

LEMMA StartMoves ==
    ASSUME WorldOK, NEW units, StartAnew(units), \A u \in Units \cap units : loaded[u].whole
    PROVE  \A u \in Units : SvcMoves(u)
  BY DEF StartAnew, Started, SvcMoves, WorldOK

LEMMA InstallMoves ==
    ASSUME WorldOK, RunOK, NEW i \in Installers, Begin(i) \/ Install(i) \/ Killed(i)
    PROVE  World
<1> USE DEF files, run
<1>1. CASE UNCHANGED <<env, text, loaded, svc>>
  BY <1>1 DEF World, Moves, SvcMoves
<1>2. ASSUME NEW w \in Units, OpenEnv(i, w) PROVE World
  BY <1>2 DEF OpenEnv, World, Moves, SvcMoves, WorldOK
<1>3. CASE FillEnv(i)
  BY <1>3 DEF FillEnv, World, Moves, SvcMoves, WorldOK, RunOK
<1>4. CASE OpenText(i)
  BY <1>4 DEF OpenText, World, Moves, SvcMoves, WorldOK, RunOK
<1>5. CASE FillText(i)
  BY <1>5 DEF FillText, World, Moves, SvcMoves, WorldOK, RunOK
<1>6. CASE DaemonReload(i)
  BY <1>6 DEF DaemonReload, World, Moves, SvcMoves
<1>7. CASE EnableNow(i)
  BY <1>7, StartMoves DEF EnableNow, Startable, World, Moves
<1>8. CASE Restart(i)
  BY <1>8, StartMoves DEF Restart, Startable, World, Moves
<1> QED
  BY <1>1, <1>2, <1>3, <1>4, <1>5, <1>6, <1>7, <1>8
     DEF Begin, Install, Killed, WriteFails, SeeReady, WaitTimesOut, ReadToken, SmokeAllowed, SmokeDenied, SmokeGrpc
(* No installer touches what another one knows; of its own files it         *)
(* remembers what it has just written, or forgets everything.               *)
Same(j) ==
    /\ pc'[j] = pc[j] /\ todo'[j] = todo[j] /\ cur'[j] = cur[j] /\ ok'[j] = ok[j]
    /\ mine'[j] = mine[j] /\ answered'[j] = answered[j]

LEMMA EndSame ==
    ASSUME RunOK, NEW i \in Installers, End(i, "over"), NEW j \in Installers \ {i}
    PROVE  Same(j)
  BY DEF End, Goto, RunOK, Same

LEMMA OthersSame ==
    ASSUME RunOK, NEW i \in Installers, Begin(i) \/ Install(i) \/ Killed(i), NEW j \in Installers \ {i}
    PROVE  Same(j)
<1> USE DEF Same, RunOK, Goto, run
<1>1. CASE End(i, "over")
  BY <1>1, EndSame
<1>2. CASE Begin(i) /\ ~ End(i, "over")
  BY <1>2 DEF Begin
<1>3. ASSUME NEW w \in Units, OpenEnv(i, w) PROVE Same(j)
  BY <1>3 DEF OpenEnv
<1>4. CASE FillEnv(i) \/ OpenText(i) \/ FillText(i)
  BY <1>4 DEF FillEnv, OpenText, FillText
<1>5. CASE DaemonReload(i) \/ EnableNow(i)
  BY <1>5 DEF DaemonReload, EnableNow, Counts
<1>6. CASE Restart(i)
  BY <1>6 DEF Restart, WaitFor, Counts
<1>7. ASSUME NEW w \in Units, SeeReady(i, w) PROVE Same(j)
  BY <1>7 DEF SeeReady, Smoke
<1>8. CASE WaitTimesOut(i)
  BY <1>8 DEF WaitTimesOut, Smoke
<1>9. ASSUME NEW w \in Units, ReadToken(i, w), ~ End(i, "over") PROVE Same(j)
  BY <1>9 DEF ReadToken
<1>10. CASE SmokeAllowed(i) /\ ~ End(i, "over")
  BY <1>10 DEF SmokeAllowed
<1>11. CASE SmokeDenied(i) /\ ~ End(i, "over")
  BY <1>11 DEF SmokeDenied
<1>12. CASE SmokeGrpc(i) /\ ~ End(i, "over")
  BY <1>12 DEF SmokeGrpc
<1> QED
  BY <1>1, <1>2, <1>3, <1>4, <1>5, <1>6, <1>7, <1>8, <1>9, <1>10, <1>11, <1>12 DEF Install, Killed, WriteFails

LEMMA EndMine ==
    ASSUME RunOK, NEW i \in Installers, End(i, "over"), NEW u \in Units
    PROVE  MineMoves(i, u)
  BY DEF End, RunOK, MineMoves, Nothing

LEMMA MineOnly ==
    ASSUME WorldOK, RunOK, NEW i \in Installers, Begin(i) \/ Install(i) \/ Killed(i), NEW u \in Units
    PROVE  MineMoves(i, u)
<1> USE DEF run
<1>1. CASE End(i, "over")
  BY <1>1, EndMine
<1>2. CASE UNCHANGED mine
  BY <1>2 DEF MineMoves
<1>3. CASE FillEnv(i)
  <2>1. env'[cur[i]] = Filled(env[cur[i]])
    BY <1>3 DEF FillEnv, WorldOK, RunOK
  <2>2. mine' = [mine EXCEPT ![i][cur[i]].env = Filled(env[cur[i]])]
    BY <1>3 DEF FillEnv
  <2> QED
    BY <2>1, <2>2 DEF MineMoves, RunOK, Versions
<1>4. CASE FillText(i)
  <2>1. text'[cur[i]] = Filled(text[cur[i]])
    BY <1>4 DEF FillText, WorldOK, RunOK
  <2>2. mine' = [mine EXCEPT ![i][cur[i]].text = Filled(text[cur[i]])]
    BY <1>4 DEF FillText
  <2> QED
    BY <2>1, <2>2 DEF MineMoves, RunOK, Versions
<1> QED
  BY <1>1, <1>2, <1>3, <1>4
     DEF Begin, Install, Killed, WriteFails, OpenEnv, OpenText, DaemonReload, EnableNow, Restart, SeeReady, WaitTimesOut,
         ReadToken, SmokeAllowed, SmokeDenied, SmokeGrpc

LEMMA AnsweredOnly ==
    ASSUME WorldOK, RunOK, NEW i \in Installers, Begin(i) \/ Install(i) \/ Killed(i), NEW u \in Units
    PROVE  AnsweredMoves(i, u)
<1> USE DEF run, AnsweredMoves
<1>1. CASE End(i, "over")
  BY <1>1 DEF End, RunOK
<1>2. CASE UNCHANGED answered
  BY <1>2
<1>3. CASE SmokeAllowed(i) /\ ~ End(i, "over")
  BY <1>3 DEF SmokeAllowed, RunOK
<1> QED
  BY <1>1, <1>2, <1>3
     DEF Begin, Install, Killed, WriteFails, OpenEnv, FillEnv, OpenText, FillText, DaemonReload, EnableNow, Restart,
         SeeReady, WaitTimesOut, ReadToken, SmokeDenied, SmokeGrpc

-----------------------------------------------------------------------------
FilesDated == \A u \in Units : Dated(Before, env[u]) /\ Dated(Before, text[u])
AnsweredDated ==
    \A i \in Installers, u \in Units :
        Dated(answered[i][u].env, env[u]) /\ Dated(answered[i][u].text, text[u])
AllDated == FilesDated /\ LoadedDated /\ SvcDated /\ MineDated /\ AnsweredDated

LEMMA DatedRefl == \A v \in Version : Dated(v, v)
  BY DEF Dated, Version

LEMMA DatesStep ==
    ASSUME WorldOK, RunOK, WorldOK', RunOK', AllDated, World,
           \A i \in Installers, u \in Units : MineMoves(i, u) /\ AnsweredMoves(i, u)
    PROVE  AllDated'
<1> USE DEF AllDated
<1>1. ASSUME NEW u \in Units
      PROVE  /\ env[u] \in Version /\ text[u] \in Version /\ env'[u] \in Version /\ text'[u] \in Version
             /\ loaded[u] \in Version /\ svc[u].env \in Version /\ svc[u].text \in Version
             /\ Moves(env[u], env'[u]) /\ Moves(text[u], text'[u])
  BY DEF WorldOK, Service, World
<1>2. FilesDated'
  BY <1>1, FileTypes, MovesDated DEF FilesDated
<1>3. LoadedDated'
  <2> SUFFICES ASSUME NEW u \in Units PROVE Dated(loaded'[u], text'[u])
    BY DEF LoadedDated
  <2>1. CASE loaded' = loaded
    BY <1>1, <2>1, MovesDated DEF LoadedDated
  <2>2. CASE loaded' = text /\ text' = text
    BY <1>1, <2>2, DatedRefl
  <2> QED
    BY <2>1, <2>2 DEF World
<1>4. SvcDated'
  <2> SUFFICES ASSUME NEW u \in Units
               PROVE  Dated(svc'[u].env, env'[u]) /\ Dated(svc'[u].text, text'[u]) /\ svc'[u].text.whole
    BY DEF SvcDated
  <2>1. CASE svc'[u].env = svc[u].env /\ svc'[u].text = svc[u].text
    <3>1. Dated(svc[u].env, env[u]) /\ Dated(svc[u].text, text[u])
      BY DEF SvcDated
    <3>2. Dated(svc[u].env, env'[u]) /\ Dated(svc[u].text, text'[u])
      BY <1>1, <3>1, MovesDated
    <3>3. svc'[u].text.whole
      BY <2>1 DEF SvcDated
    <3> QED
      BY <2>1, <3>2, <3>3
  <2>2. CASE svc'[u].env = env[u] /\ svc'[u].text = loaded[u] /\ loaded[u].whole
    <3>1. Dated(env[u], env'[u]) /\ Dated(loaded[u], text'[u])
      BY <1>1, DatedRefl, MovesDated DEF LoadedDated
    <3> QED
      BY <2>2, <3>1
  <2> QED
    BY <2>1, <2>2 DEF World, SvcMoves
<1>5. MineDated'
  <2> SUFFICES ASSUME NEW i \in Installers, NEW u \in Units
               PROVE  Dated(mine'[i][u].env, env'[u]) /\ Dated(mine'[i][u].text, text'[u])
    BY DEF MineDated
  <2>1. mine[i][u].env \in Version /\ mine[i][u].text \in Version
    BY DEF RunOK, Versions
  <2>2. Dated(mine[i][u].env, env'[u]) /\ Dated(mine[i][u].text, text'[u])
    BY <1>1, <2>1, MovesDated DEF MineDated
  <2>3. Dated(Before, env'[u]) /\ Dated(Before, text'[u]) /\ Dated(env'[u], env'[u]) /\ Dated(text'[u], text'[u])
    BY <1>1, <1>2, DatedRefl DEF FilesDated
  <2> QED
    BY <2>2, <2>3 DEF MineMoves
<1>6. AnsweredDated'
  <2> SUFFICES ASSUME NEW i \in Installers, NEW u \in Units
               PROVE  Dated(answered'[i][u].env, env'[u]) /\ Dated(answered'[i][u].text, text'[u])
    BY DEF AnsweredDated
  <2>1. answered[i][u].env \in Version /\ answered[i][u].text \in Version
    BY DEF RunOK, Versions
  <2>2. Dated(answered[i][u].env, env'[u]) /\ Dated(answered[i][u].text, text'[u])
    BY <1>1, <2>1, MovesDated DEF AnsweredDated
  <2>3. /\ Dated(Before, env'[u]) /\ Dated(Before, text'[u])
        /\ Dated(svc[u].env, env'[u]) /\ Dated(svc[u].text, text'[u])
    BY <1>1, <1>2, MovesDated DEF FilesDated, SvcDated
  <2>4. CASE answered'[i][u] = answered[i][u]
    BY <2>2, <2>4
  <2>5. CASE answered'[i][u] = Nothing \/ answered'[i][u] = [env |-> svc[u].env, text |-> svc[u].text]
    <3>1. answered'[i][u].env \in {Before, svc[u].env} /\ answered'[i][u].text \in {Before, svc[u].text}
      BY <2>5 DEF Nothing
    <3> QED
      BY <2>3, <3>1
  <2> QED
    BY <2>4, <2>5 DEF AnsweredMoves
<1> QED
  BY <1>2, <1>3, <1>4, <1>5, <1>6
-----------------------------------------------------------------------------
(* How far an installer has come for which nothing has failed: systemd has  *)
(* read its unit files, its services run what it wrote, and they answered.  *)

Restarting == {"wait", "smoke", "allowed", "denied", "grpc", "passed"}

Reloaded(i) ==
    ok[i] /\ pc[i] \in {"enable", "restart"} \cup Restarting =>
        \A u \in Scope[i] : loaded[u].n >= mine[i][u].text.n

Restarted(i) ==
    ok[i] /\ pc[i] \in Restarting =>
        \A u \in Scope[i] : svc[u].env.n >= mine[i][u].env.n /\ svc[u].text.n >= mine[i][u].text.n

(* what it has smoked; after the last unit it passes *)
Smoked(i) ==
    CASE pc[i] = "smoke" -> Scope[i] \ todo[i]
      [] pc[i] = "allowed" -> Scope[i] \ (todo[i] \cup {cur[i]})
      [] pc[i] \in {"denied", "grpc"} -> Scope[i] \ todo[i]
      [] pc[i] = "passed" -> Scope[i]
      [] OTHER -> {}

Answered(i) ==
    ok[i] => \A u \in Smoked(i) :
        /\ answered[i][u].env.n >= mine[i][u].env.n
        /\ answered[i][u].text.n >= mine[i][u].text.n /\ answered[i][u].text.whole

PassedOk(i) == pc[i] = "passed" => ok[i]

Progress(i) == Reloaded(i) /\ Restarted(i) /\ Answered(i) /\ PassedOk(i)

(* What others do to the world takes nothing back. *)
LEMMA BystanderStep ==
    ASSUME WorldOK, RunOK, WorldOK', AllDated, World, NEW i \in Installers, Same(i), Progress(i)
    PROVE  Progress(i)'
<1> USE DEF Same, Progress
<1>1. ASSUME NEW u \in Scope[i]
      PROVE  /\ u \in Units /\ mine[i][u].env \in Version /\ mine[i][u].text \in Version
             /\ mine[i][u].env.n <= env[u].n /\ mine[i][u].text.n <= text[u].n
  BY DEF RunOK, Versions, AllDated, MineDated, Dated
<1>2. Reloaded(i)'
  BY <1>1 DEF Reloaded, World
<1>3. Restarted(i)'
  <2> SUFFICES ASSUME ok[i], pc[i] \in Restarting, NEW u \in Scope[i]
               PROVE  svc'[u].env.n >= mine[i][u].env.n /\ svc'[u].text.n >= mine[i][u].text.n
    BY DEF Restarted
  <2>1. loaded[u].n >= mine[i][u].text.n
    BY DEF Reloaded
  <2>2. svc[u].env.n >= mine[i][u].env.n /\ svc[u].text.n >= mine[i][u].text.n
    BY DEF Restarted
  <2>3. SvcMoves(u)
    BY <1>1 DEF World
  <2> QED
    BY <1>1, <2>1, <2>2, <2>3 DEF SvcMoves
<1>4. Smoked(i)' = Smoked(i)
  BY DEF Smoked
<1>5. Answered(i)'
  BY <1>4 DEF Answered
<1>6. PassedOk(i)'
  BY DEF PassedOk
<1> QED
  BY <1>2, <1>3, <1>5, <1>6

LEMMA EndProgress ==
    ASSUME RunOK, NEW i \in Installers, End(i, "over")
    PROVE  Progress(i)'
<1>1. pc'[i] = "over" /\ ~ ok'[i]
  BY DEF End, Goto, RunOK
<1> QED
  BY <1>1 DEF Progress, Reloaded, Restarted, Answered, PassedOk

LEMMA EarlyProgress ==
    ASSUME NEW i \in Installers, pc'[i] \in {"writing", "env", "token", "unit", "reload"}
    PROVE  Progress(i)'
<1>1. Smoked(i)' = {}
  BY DEF Smoked
<1> QED
  BY <1>1 DEF Progress, Reloaded, Restarted, Answered, PassedOk, Restarting

(* With the world as it is, an installer goes on, and may lose its ok.      *)
LEMMA Onward ==
    ASSUME RunOK, NEW i \in Installers, Progress(i), pc[i] \in Restarting,
           UNCHANGED <<loaded, svc, mine>>, ok'[i] => ok[i], pc'[i] # "passed", Answered(i)'
    PROVE  Progress(i)'
  BY DEF Progress, Reloaded, Restarted, PassedOk, Restarting
LEMMA OwnStep ==
    ASSUME WorldOK, RunOK, AllDated, NEW i \in Installers, Begin(i) \/ Install(i) \/ Killed(i), Progress(i)
    PROVE  Progress(i)'
<1> USE DEF Goto, run
<1>1. CASE End(i, "over")
  BY <1>1, EndProgress
<1>2. CASE pc'[i] \in {"writing", "env", "token", "unit", "reload"}
  BY <1>2, EarlyProgress
<1>3. CASE DaemonReload(i)
  <2>1. pc'[i] = "enable" /\ UNCHANGED mine
    BY <1>3 DEF DaemonReload, RunOK
  <2>2. ok'[i] => loaded' = text
    BY <1>3 DEF DaemonReload, RunOK
  <2>3. \A u \in Scope[i] : u \in Units /\ text[u].n >= mine[i][u].text.n
    BY DEF AllDated, MineDated, Dated, WorldOK, RunOK, Version, Versions
  <2>4. Reloaded(i)'
    BY <2>1, <2>2, <2>3 DEF Reloaded
  <2>5. Smoked(i)' = {}
    BY <2>1 DEF Smoked
  <2> QED
    BY <2>1, <2>4, <2>5 DEF Progress, Restarted, Answered, PassedOk, Restarting
<1>4. CASE EnableNow(i)
  <2>1. pc[i] = "enable" /\ pc'[i] = "restart" /\ UNCHANGED <<mine, loaded>>
    BY <1>4 DEF EnableNow, RunOK
  <2>2. ok'[i] => ok[i]
    BY <1>4 DEF EnableNow, Counts, RunOK
  <2>3. Reloaded(i)'
    BY <2>1, <2>2 DEF Progress, Reloaded
  <2>4. Smoked(i)' = {}
    BY <2>1 DEF Smoked
  <2> QED
    BY <2>1, <2>3, <2>4 DEF Progress, Restarted, Answered, PassedOk, Restarting
<1>5. CASE Restart(i)
  <2>1. pc[i] = "restart" /\ pc'[i] = "wait" /\ UNCHANGED <<mine, loaded>>
    BY <1>5 DEF Restart, WaitFor, RunOK
  <2>2. PICK units \in SUBSET Startable(i) : StartAnew(units) /\ Counts(i, units)
    BY <1>5 DEF Restart
  <2>3. ok'[i] => ok[i] /\ units = Scope[i]
    BY <2>2 DEF Counts, RunOK
  <2>4. Reloaded(i)'
    BY <2>1, <2>3 DEF Progress, Reloaded, Restarting
  <2>5. Restarted(i)'
    <3> SUFFICES ASSUME ok'[i], NEW u \in Scope[i]
                 PROVE  svc'[u].env.n >= mine[i][u].env.n /\ svc'[u].text.n >= mine[i][u].text.n
      BY <2>1 DEF Restarted
    <3>1. svc'[u].env = env[u] /\ svc'[u].text = loaded[u] /\ u \in Units
      BY <2>2, <2>3 DEF StartAnew, Started
    <3>2. env[u].n >= mine[i][u].env.n
      BY <3>1 DEF AllDated, MineDated, Dated, WorldOK, RunOK, Version, Versions
    <3>3. loaded[u].n >= mine[i][u].text.n
      BY <2>1, <2>3 DEF Progress, Reloaded
    <3> QED
      BY <3>1, <3>2, <3>3
  <2>6. Smoked(i)' = {}
    BY <2>1 DEF Smoked
  <2> QED
    BY <2>1, <2>4, <2>5, <2>6 DEF Progress, Answered, PassedOk
<1>6. ASSUME NEW u \in Units, SeeReady(i, u) PROVE Progress(i)'
  <2>1. pc[i] = "wait" /\ UNCHANGED <<loaded, svc, mine, ok>>
    BY <1>6 DEF SeeReady
  <2>2. pc'[i] = "wait" \/ (pc'[i] = "smoke" /\ todo'[i] = Scope[i])
    BY <1>6 DEF SeeReady, Smoke, RunOK
  <2>3. Smoked(i)' = {}
    BY <2>2 DEF Smoked
  <2> QED
    BY <2>1, <2>2, <2>3, Onward DEF Answered, Restarting
<1>7. CASE WaitTimesOut(i)
  <2>1. pc[i] = "wait" /\ UNCHANGED <<loaded, svc, mine>> /\ ~ ok'[i]
    BY <1>7 DEF WaitTimesOut, RunOK
  <2>2. pc'[i] = "smoke"
    BY <1>7 DEF WaitTimesOut, Smoke, RunOK
  <2> QED
    BY <2>1, <2>2, Onward DEF Answered, Restarting
<1>8. ASSUME NEW u \in Units, ReadToken(i, u), ~ End(i, "over") PROVE Progress(i)'
  <2>1. pc[i] = "smoke" /\ UNCHANGED <<loaded, svc, mine, ok, answered>>
    BY <1>8 DEF ReadToken
  <2>2. pc'[i] = "allowed" /\ cur'[i] = u /\ todo'[i] = todo[i] \ {u} /\ u \in todo[i]
    BY <1>8 DEF ReadToken, IsNext, RunOK
  <2>3. Smoked(i)' = Smoked(i)
    BY <2>1, <2>2 DEF Smoked
  <2> QED
    BY <2>1, <2>2, <2>3, Onward DEF Answered, Restarting, Progress
<1>9. CASE SmokeAllowed(i) /\ ~ End(i, "over")
  <2> DEFINE s == svc[cur[i]]
  <2>1. pc[i] = "allowed" /\ pc'[i] = "denied" /\ UNCHANGED <<loaded, svc, mine, todo, cur>>
    BY <1>9 DEF SmokeAllowed, RunOK
  <2>2. answered' = [answered EXCEPT ![i][cur[i]] = [env |-> s.env, text |-> s.text]]
    BY <1>9 DEF SmokeAllowed
  <2>3. ok'[i] => ok[i]
    BY <1>9 DEF SmokeAllowed, RunOK
  <2>4. Answered(i)'
    <3> SUFFICES ASSUME ok'[i], NEW u \in Smoked(i)'
                 PROVE  /\ answered'[i][u].env.n >= mine[i][u].env.n
                        /\ answered'[i][u].text.n >= mine[i][u].text.n /\ answered'[i][u].text.whole
      BY <2>1 DEF Answered
    <3>1. u \in Scope[i] /\ u \in Units /\ (u = cur[i] \/ u \in Smoked(i))
      BY <2>1 DEF Smoked
    <3>2. CASE u = cur[i]
      <4>1. answered'[i][u] = [env |-> s.env, text |-> s.text]
        BY <2>2, <3>1, <3>2 DEF RunOK
      <4>2. s.env.n >= mine[i][u].env.n /\ s.text.n >= mine[i][u].text.n
        BY <2>1, <2>3, <3>1, <3>2 DEF Progress, Restarted, Restarting
      <4>3. s.text.whole
        BY <3>1, <3>2 DEF AllDated, SvcDated
      <4> QED
        BY <4>1, <4>2, <4>3
    <3>3. CASE u # cur[i] /\ u \in Smoked(i)
      <4>1. answered'[i][u] = answered[i][u]
        BY <2>2, <3>1, <3>3 DEF RunOK
      <4> QED
        BY <2>3, <3>3, <4>1 DEF Progress, Answered
    <3> QED
      BY <3>1, <3>2, <3>3
  <2> QED
    BY <2>1, <2>3, <2>4, Onward DEF Restarting
<1>10. CASE SmokeDenied(i) /\ ~ End(i, "over")
  <2>1. pc[i] = "denied" /\ pc'[i] = "grpc" /\ UNCHANGED <<loaded, svc, mine, todo, cur, answered>>
    BY <1>10 DEF SmokeDenied, RunOK
  <2>2. ok'[i] => ok[i]
    BY <1>10 DEF SmokeDenied, RunOK
  <2>3. Smoked(i)' = Smoked(i)
    BY <2>1 DEF Smoked
  <2> QED
    BY <2>1, <2>2, <2>3, Onward DEF Answered, Restarting, Progress
<1>11. CASE SmokeGrpc(i) /\ ~ End(i, "over")
  <2>1. pc[i] = "grpc" /\ UNCHANGED <<loaded, svc, mine, ok, todo, cur, answered>>
    BY <1>11 DEF SmokeGrpc
  <2>2. pc'[i] = "smoke" \/ (pc'[i] = "passed" /\ todo[i] = {} /\ ok[i])
    BY <1>11 DEF SmokeGrpc, RunOK
  <2>3. Smoked(i)' = Smoked(i)
    BY <2>1, <2>2 DEF Smoked
  <2>4. Reloaded(i)' /\ Restarted(i)' /\ PassedOk(i)'
    BY <2>1, <2>2 DEF Progress, Reloaded, Restarted, PassedOk, Restarting
  <2>5. Answered(i)'
    BY <2>1, <2>3 DEF Progress, Answered
  <2> QED
    BY <2>4, <2>5 DEF Progress
<1>12. CASE Begin(i) /\ ~ End(i, "over")
  BY <1>2, <1>12 DEF Begin, RunOK
<1>13. ASSUME NEW u \in Units, OpenEnv(i, u) PROVE Progress(i)'
  BY <1>2, <1>13 DEF OpenEnv, RunOK
<1>14. CASE FillEnv(i) \/ OpenText(i) \/ FillText(i)
  BY <1>2, <1>14 DEF FillEnv, OpenText, FillText, RunOK
<1> QED
  BY <1>1, <1>3, <1>4, <1>5, <1>6, <1>7, <1>8, <1>9, <1>10, <1>11, <1>12, <1>13, <1>14 DEF Install, Killed, WriteFails

-----------------------------------------------------------------------------
IInv == WorldOK /\ RunOK /\ AllDated /\ \A i \in Installers : Progress(i)

LEMMA Initial == Init => IInv
<1> SUFFICES ASSUME Init PROVE IInv
  OBVIOUS
<1>1. WorldOK /\ RunOK
  BY InitTypes
<1>2. AllDated
  <2>1. Dated(Before, Before) /\ Before.whole /\ Nothing.env = Before /\ Nothing.text = Before
    BY DEF Dated, Before, Nothing
  <2>2. \A u \in Units : env[u] = Before /\ text[u] = Before /\ loaded[u] = Before
                         /\ svc[u].env = Before /\ svc[u].text = Before
    BY DEF Init
  <2>3. \A i \in Installers, u \in Units : mine[i][u] = Nothing /\ answered[i][u] = Nothing
    BY DEF Init
  <2> QED
    BY <2>1, <2>2, <2>3 DEF AllDated, FilesDated, LoadedDated, SvcDated, MineDated, AnsweredDated
<1>3. ASSUME NEW i \in Installers PROVE Progress(i)
  BY DEF Init, Progress, Reloaded, Restarted, Answered, PassedOk, Smoked, Restarting
<1> QED
  BY <1>1, <1>2, <1>3 DEF IInv

LEMMA Inductive == IInv /\ [Next]_vars => IInv'
<1> SUFFICES ASSUME IInv, [Next]_vars PROVE IInv'
  OBVIOUS
<1> USE DEF IInv
<1>1. WorldOK' /\ RunOK'
  BY Types
<1>2. ASSUME World, \A i \in Installers : Same(i) PROVE IInv'
  <2>1. \A i \in Installers, u \in Units : MineMoves(i, u) /\ AnsweredMoves(i, u)
    BY <1>2 DEF Same, MineMoves, AnsweredMoves
  <2> QED
    BY <1>1, <1>2, <2>1, DatesStep, BystanderStep
<1>3. CASE UNCHANGED vars
  BY <1>2, <1>3 DEF vars, files, run, World, Moves, SvcMoves, Same
<1>4. ASSUME NEW w \in Units, Systemd(w) PROVE IInv'
  BY <1>2, <1>4, SystemdMoves DEF Same
<1>5. ASSUME NEW i \in Installers, Begin(i) \/ Install(i) \/ Killed(i) PROVE IInv'
  <2>1. World /\ \A j \in Installers \ {i} : Same(j)
    BY <1>5, InstallMoves, OthersSame
  <2>2. \A j \in Installers, u \in Units : MineMoves(j, u) /\ AnsweredMoves(j, u)
    BY <1>5, <2>1, MineOnly, AnsweredOnly DEF Same, MineMoves, AnsweredMoves
  <2>3. AllDated'
    BY <1>1, <2>1, <2>2, DatesStep
  <2>4. \A j \in Installers \ {i} : Progress(j)'
    BY <1>1, <2>1, BystanderStep
  <2>5. Progress(i)'
    BY <1>5, OwnStep
  <2> QED
    BY <1>1, <2>3, <2>4, <2>5
<1> QED
  BY <1>3, <1>4, <1>5 DEF Next

LEMMA Invariance == Spec => []IInv
<1> QED
  BY Initial, Inductive, PTL DEF Spec

(* An installer that passed was answered, for each of its units, by a       *)
(* service started from its own files or later ones (the restart and the    *)
(* smokes of run_rollout and the plugin's install).                         *)
THEOREM PassedRanOwn == Spec => []PassedRanOwnOrLater
<1>1. IInv => PassedRanOwnOrLater
  BY DEF IInv, Progress, PassedOk, Answered, Smoked, PassedRanOwnOrLater
<1> QED
  BY <1>1, Invariance, PTL

(* The files an installer has put in force are what its services run        *)
(* (daemon-reload before restart, in run_rollout and the plugin's install). *)
THEOREM InForceRuns == Spec => []InForceIsRun
<1>1. IInv => InForceIsRun
  <2> SUFFICES ASSUME IInv, NEW i \in Installers, NEW u \in Scope[i], InForce(i, u)
               PROVE  loaded[u] = text[u] /\ svc[u].env = env[u] /\ svc[u].text = text[u]
    BY DEF InForceIsRun
  <2>1. u \in Units /\ env[u] \in Version /\ text[u] \in Version /\ loaded[u] \in Version
        /\ svc[u].env \in Version /\ svc[u].text \in Version
    BY DEF IInv, WorldOK, Service
  <2>2. loaded[u].n >= text[u].n /\ svc[u].env.n >= env[u].n /\ svc[u].text.n >= text[u].n
    BY DEF IInv, Progress, Reloaded, Restarted, Restarting, InForce
  <2>3. Dated(loaded[u], text[u]) /\ Dated(svc[u].env, env[u]) /\ Dated(svc[u].text, text[u])
    BY <2>1 DEF IInv, AllDated, LoadedDated, SvcDated
  <2> QED
    BY <2>1, <2>2, <2>3 DEF Dated, Version
<1> QED
  BY <1>1, Invariance, PTL

(* An installer whose files nobody has written over passed on services that  *)
(* were started from exactly those (run_rollout and the plugin's install).   *)
THEOREM UncontestedRan == Spec => []UncontestedRanOwn
<1>1. IInv => UncontestedRanOwn
  <2> SUFFICES ASSUME IInv, NEW i \in Installers, pc[i] = "passed", NEW u \in Scope[i],
                      mine[i][u] = [env |-> env[u], text |-> text[u]]
               PROVE  answered[i][u] = mine[i][u]
    BY DEF UncontestedRanOwn
  <2>1. /\ u \in Units /\ answered[i][u] \in Versions
        /\ env[u] \in Version /\ text[u] \in Version
    BY DEF IInv, WorldOK, RunOK
  <2>2. answered[i][u].env.n >= env[u].n /\ answered[i][u].text.n >= text[u].n
    BY DEF IInv, Progress, PassedOk, Answered, Smoked
  <2>3. Dated(answered[i][u].env, env[u]) /\ Dated(answered[i][u].text, text[u])
    BY <2>1 DEF IInv, AllDated, AnsweredDated
  <2>4. answered[i][u].env = env[u] /\ answered[i][u].text = text[u]
    BY <2>1, <2>2, <2>3 DEF Dated, Version, Versions
  <2> QED
    BY <2>1, <2>4 DEF Versions
<1> QED
  BY <1>1, Invariance, PTL

-----------------------------------------------------------------------------
(* Nothing an installer, a service or an operator does brings back an        *)
(* earlier token or unit text, in a file, in systemd or in a service.        *)
NothingGoesBack ==
    \A u \in Units :
        /\ env'[u].n >= env[u].n /\ text'[u].n >= text[u].n /\ loaded'[u].n >= loaded[u].n
        /\ svc'[u].env.n >= svc[u].env.n /\ svc'[u].text.n >= svc[u].text.n

(* A service runs what systemd has read, or what it had read before that.    *)
SvcLoaded == \A u \in Units : svc[u].text.n <= loaded[u].n

LEMMA Onwards ==
    ASSUME WorldOK, AllDated, SvcLoaded, WorldOK', World
    PROVE  NothingGoesBack /\ SvcLoaded'
<1> SUFFICES ASSUME NEW u \in Units
             PROVE  /\ env'[u].n >= env[u].n /\ text'[u].n >= text[u].n /\ loaded'[u].n >= loaded[u].n
                    /\ svc'[u].env.n >= svc[u].env.n /\ svc'[u].text.n >= svc[u].text.n
                    /\ svc'[u].text.n <= loaded'[u].n
  BY DEF NothingGoesBack, SvcLoaded
<1>1. /\ {env[u], text[u], loaded[u], svc[u].env, svc[u].text} \subseteq Version
      /\ {env'[u], text'[u], loaded'[u]} \subseteq Version
  BY DEF WorldOK, Service
<1>2. /\ loaded[u].n <= text[u].n /\ svc[u].env.n <= env[u].n /\ svc[u].text.n <= loaded[u].n
  BY DEF AllDated, LoadedDated, SvcDated, Dated, SvcLoaded
<1>3. env'[u].n >= env[u].n /\ text'[u].n >= text[u].n
  <2>1. \A v \in Version : \A w : Moves(v, w) => w.n >= v.n
    BY DEF Moves, Opened, Filled, Version
  <2> QED
    BY <1>1, <2>1 DEF World
<1>4. loaded'[u].n >= loaded[u].n
  BY <1>1, <1>2 DEF World, Version
<1>5. SvcMoves(u)
  BY DEF World
<1> QED
  BY <1>1, <1>2, <1>3, <1>4, <1>5 DEF SvcMoves, Version

(* Every step moves the world as World says. *)
LEMMA WorldStep == ASSUME IInv, [Next]_vars PROVE World
<1>1. CASE UNCHANGED vars
  BY <1>1 DEF vars, files, World, Moves, SvcMoves
<1> QED
  BY <1>1, SystemdMoves, InstallMoves DEF Next, IInv

(* Versions never go back, whoever restarts what and whatever fails: a       *)
(* process that replaces another one has its token and text, or later ones   *)
(* (EnvironmentFile= and daemon-reload).                                     *)
THEOREM NeverBack == Spec => [][NothingGoesBack]_vars
<1>1. Init => SvcLoaded
  BY DEF Init, SvcLoaded, Before
<1>2. IInv /\ SvcLoaded /\ IInv' /\ [Next]_vars => NothingGoesBack /\ SvcLoaded'
  BY WorldStep, Onwards DEF IInv
<1> QED
  BY <1>1, <1>2, Invariance, PTL DEF Spec
=================================================================================
