------------------------------ MODULE ServiceUnits ------------------------------
(***************************************************************************)
(* The user services that run sidecars: installers (the M17d rollout and   *)
(* `hermes a2a service install`) write an environment file with a new      *)
(* token and a unit file per unit, reload and restart through systemd, and *)
(* judge what they see; services start, fail and are restarted on their    *)
(* own; operators restart and stop them. Two installers know nothing of    *)
(* each other.                                                             *)
(*                                                                         *)
(* systemd is external. Calls of it whose answers only count in the        *)
(* verdict (verify, is-active, show) and the assertions on approvals, file *)
(* modes and listeners are one answer, good or bad.                        *)
(***************************************************************************)
EXTENDS Integers

CONSTANTS
    N,             \* the number of systemd units, in the order of default_specs
    Installers,    \* processes that install and verify units
    Scope,         \* Scope[i]: the units i installs
    Rollouts,      \* those that run the M17d script, the others the plugin
    MaxTrouble     \* bound: how often services fail or operators step in

Units == 1 .. N

ASSUME NAssumption == N \in Nat \ {0}
ASSUME ScopeAssumption == Scope \in [Installers -> SUBSET Units] /\ Rollouts \subseteq Installers
ASSUME MaxTroubleAssumption == MaxTrouble \in Nat

(* The n-th state of a file: written files are whole, opened ones are empty. *)
Version == [n : Nat, whole : BOOLEAN]
Before == [n |-> 0, whole |-> TRUE]

VARIABLES
    env,        \* env[u]: the environment file, with the token
    text,       \* text[u]: the unit file
    loaded,     \* loaded[u]: the unit as systemd last read it
    svc,        \* svc[u]: the service process, and what it was started from
    trouble,    \* how often services have failed or operators stepped in
    pc,         \* where each installer is
    todo,       \* the units its current step has yet to reach
    cur,        \* the unit it is at
    ok,         \* whether all its assertions hold so far
    token,      \* the token read for a smoke
    mine,       \* mine[i][u]: the versions it wrote itself
    answered    \* answered[i][u]: the service that answered its smoke

files == <<env, text>>
run == <<todo, cur, ok, token, mine, answered>>
vars == <<files, loaded, svc, trouble, pc, run>>

(* A process is starting (it may answer over HTTP, and not yet or no longer *)
(* over gRPC), or has bound both ports; "failing": systemd starts it again. *)
States == {"down", "starting", "up", "failing"}
Service == [state : States, env : Version, text : Version]
Versions == [env : Version, text : Version]
Nothing == [env |-> Before, text |-> Before]

(* The units are taken in order. *)
IsNext(u, units) == u \in units /\ \A w \in units : u <= w

Points == {"idle", "writing", "env", "token", "unit", "reload", "enable", "restart", "wait",
           "smoke", "allowed", "denied", "grpc"}

(* passed, or not: refused, raised, failed or killed *)
Over == {"passed", "over"}

TypeOK ==
    /\ env \in [Units -> Version] /\ text \in [Units -> Version]
    /\ loaded \in [Units -> Version]
    /\ svc \in [Units -> Service]
    /\ trouble \in 0 .. MaxTrouble
    /\ pc \in [Installers -> Points \cup Over]
    /\ todo \in [Installers -> SUBSET Units]
    /\ cur \in [Installers -> Units]
    /\ ok \in [Installers -> BOOLEAN]
    /\ token \in [Installers -> Version]
    /\ mine \in [Installers -> [Units -> Versions]]
    /\ answered \in [Installers -> [Units -> Versions]]

-----------------------------------------------------------------------------
(* The services, under systemd.                                             *)

(* Faulty variant, for the checks of the checks: no EnvironmentFile=. *)
StartedBare(u) == [state |-> "starting", text |-> loaded[u]]

(* exec: the unit as loaded, and the environment file as it is now *)
Started(u) == [state |-> "starting", env |-> env[u], text |-> loaded[u]]

Trouble == trouble < MaxTrouble /\ trouble' = trouble + 1

SvcState(u, from, to) ==
    /\ svc[u].state \in from
    /\ svc' = [svc EXCEPT ![u].state = to]
    /\ UNCHANGED <<files, loaded, pc, run>>

(* run_service has started both servers and waits for its signal *)
ServiceUp(u) == SvcState(u, {"starting"}, "up") /\ UNCHANGED trouble

(* a port was taken, gRPC did not start, or the process dies *)
ServiceFails(u) == Trouble /\ SvcState(u, {"starting", "up"}, "failing")

(* Restart=on-failure *)
AutoRestart(u) ==
    /\ svc[u].state = "failing"
    /\ loaded[u].whole
    /\ svc' = [svc EXCEPT ![u] = Started(u)]
    /\ UNCHANGED <<files, loaded, trouble, pc, run>>

(* `hermes a2a service restart` and `stop`, or an operator's systemctl *)
OperatorRestart(u) ==
    /\ Trouble
    /\ loaded[u].whole
    /\ svc' = [svc EXCEPT ![u] = Started(u)]
    /\ UNCHANGED <<files, loaded, pc, run>>

OperatorStop(u) == Trouble /\ SvcState(u, States \ {"down"}, "down")

-----------------------------------------------------------------------------
(* Installing: write_units, then systemctl.                                 *)

Goto(i, point) == pc' = [pc EXCEPT ![i] = point]

(* an installer ends, and takes what it knew with it *)
End(i, point) ==
    /\ Goto(i, point)
    /\ todo' = [todo EXCEPT ![i] = {}] /\ cur' = [cur EXCEPT ![i] = 1]
    /\ ok' = [ok EXCEPT ![i] = FALSE] /\ token' = [token EXCEPT ![i] = Before]
    /\ mine' = [mine EXCEPT ![i] = [u \in Units |-> Nothing]]
    /\ answered' = [answered EXCEPT ![i] = [u \in Units |-> Nothing]]

(* approval, launcher and run directory are in order, or it is refused *)
Begin(i) ==
    /\ pc[i] = "idle"
    /\ \/ Goto(i, "writing") /\ todo' = [todo EXCEPT ![i] = Scope[i]]
          /\ UNCHANGED <<cur, ok, token, mine, answered>>
       \/ End(i, "over")
    /\ UNCHANGED <<files, loaded, svc, trouble>>

Opened(v) == [n |-> v.n + 1, whole |-> FALSE]
Filled(v) == [n |-> v.n + 1, whole |-> TRUE]

(* write_env_file, then the unit file, each truncated and then written *)
OpenEnv(i, u) ==
    /\ pc[i] = "writing" /\ IsNext(u, todo[i])
    /\ env' = [env EXCEPT ![u] = Opened(@)]
    /\ cur' = [cur EXCEPT ![i] = u]
    /\ todo' = [todo EXCEPT ![i] = @ \ {u}]
    /\ Goto(i, "env")
    /\ UNCHANGED <<text, loaded, svc, trouble, ok, token, mine, answered>>

FillEnv(i) ==
    /\ pc[i] = "env"
    /\ env' = [env EXCEPT ![cur[i]] = Filled(@)]
    /\ mine' = [mine EXCEPT ![i][cur[i]].env = Filled(env[cur[i]])]
    /\ Goto(i, "token")
    /\ UNCHANGED <<text, loaded, svc, trouble, todo, cur, ok, token, answered>>

OpenText(i) ==
    /\ pc[i] = "token"
    /\ text' = [text EXCEPT ![cur[i]] = Opened(@)]
    /\ Goto(i, "unit")
    /\ UNCHANGED <<env, loaded, svc, trouble, run>>

FillText(i) ==
    /\ pc[i] = "unit"
    /\ text' = [text EXCEPT ![cur[i]] = Filled(@)]
    /\ mine' = [mine EXCEPT ![i][cur[i]].text = Filled(text[cur[i]])]
    /\ Goto(i, IF todo[i] = {} THEN "reload" ELSE "writing")
    /\ UNCHANGED <<env, loaded, svc, trouble, todo, cur, ok, token, answered>>

(* one of those file operations fails *)
WriteFails(i) ==
    /\ pc[i] \in {"writing", "env", "token", "unit"}
    /\ End(i, "over")
    /\ UNCHANGED <<files, loaded, svc, trouble>>

(* faulty variant: nothing is reloaded *)
NoReload(i) ==
    /\ pc[i] = "reload"
    /\ Goto(i, "enable")
    /\ UNCHANGED <<files, loaded, svc, trouble, run>>

(* daemon-reload: systemd reads every unit file; a failure only counts *)
DaemonReload(i) ==
    /\ pc[i] = "reload"
    /\ \/ loaded' = text /\ UNCHANGED ok
       \/ ok' = [ok EXCEPT ![i] = FALSE] /\ UNCHANGED loaded
    /\ Goto(i, "enable")
    /\ UNCHANGED <<files, svc, trouble, todo, cur, token, mine, answered>>

(* units i names that systemd can start *)
Startable(i) == {u \in Scope[i] : loaded[u].whole}

StartAnew(units) == svc' = [u \in Units |-> IF u \in units THEN Started(u) ELSE svc[u]]

Counts(i, units) == ok' = [ok EXCEPT ![i] = @ /\ units = Scope[i]]

(* enable --now starts what does not run *)
EnableNow(i) ==
    /\ pc[i] = "enable"
    /\ StartAnew({u \in Startable(i) : svc[u].state \in {"down", "failing"}})
    /\ Counts(i, Startable(i))
    /\ Goto(i, "restart")
    /\ UNCHANGED <<files, loaded, trouble, todo, cur, token, mine, answered>>

WaitFor(i) == Goto(i, "wait") /\ todo' = [todo EXCEPT ![i] = Scope[i]]

(* faulty variant: what enable --now has found running is left alone *)
RestartWhatIsDown(i) ==
    /\ pc[i] = "restart"
    /\ StartAnew({u \in Startable(i) : svc[u].state = "down"})
    /\ Counts(i, Startable(i))
    /\ WaitFor(i)
    /\ UNCHANGED <<files, loaded, trouble, cur, token, mine, answered>>

(* restart starts all anew, or some not, which only counts *)
Restart(i) ==
    /\ pc[i] = "restart"
    /\ \E units \in SUBSET Startable(i) : StartAnew(units) /\ Counts(i, units)
    /\ WaitFor(i)
    /\ UNCHANGED <<files, loaded, trouble, cur, token, mine, answered>>

-----------------------------------------------------------------------------
(* Verifying: wait_for_ports, smoke_services, the verdict.                  *)

Smoke(i) == Goto(i, "smoke") /\ todo' = [todo EXCEPT ![i] = Scope[i]]

(* a unit whose ports were seen once is not looked at again *)
SeeReady(i, u) ==
    /\ pc[i] = "wait" /\ u \in todo[i]
    /\ svc[u].state = "up"
    /\ IF todo[i] = {u} THEN Smoke(i)
       ELSE todo' = [todo EXCEPT ![i] = @ \ {u}] /\ UNCHANGED pc
    /\ UNCHANGED <<files, loaded, svc, trouble, cur, ok, token, mine, answered>>

(* not all within 15 seconds: the smokes are tried all the same *)
WaitTimesOut(i) ==
    /\ pc[i] = "wait"
    /\ ok' = [ok EXCEPT ![i] = FALSE]
    /\ Smoke(i)
    /\ UNCHANGED <<files, loaded, svc, trouble, cur, token, mine, answered>>

(* the token is read back from the file, whoever wrote it last *)
ReadToken(i, u) ==
    /\ pc[i] = "smoke" /\ IsNext(u, todo[i])
    /\ IF env[u].whole
       THEN /\ cur' = [cur EXCEPT ![i] = u]
            /\ token' = [token EXCEPT ![i] = env[u]]
            /\ todo' = [todo EXCEPT ![i] = @ \ {u}]
            /\ Goto(i, "allowed")
            /\ UNCHANGED <<ok, mine, answered>>
       ELSE End(i, "over")
    /\ UNCHANGED <<files, loaded, svc, trouble>>

(* a service without a token lets every peer in *)
Lets(s, t) == ~s.env.whole \/ s.env = t

(* the card and the task of an allowed peer; nobody there raises *)
SmokeAllowed(i) ==
    LET s == svc[cur[i]]
    IN  /\ pc[i] = "allowed"
        /\ \/ /\ s.state \in {"starting", "up"}
              /\ Goto(i, "denied")
              /\ answered' = [answered EXCEPT ![i][cur[i]] = [env |-> s.env, text |-> s.text]]
              /\ ok' = [ok EXCEPT ![i] = @ /\ Lets(s, token[i])]
              /\ token' = [token EXCEPT ![i] = Before]
              /\ UNCHANGED <<todo, cur, mine>>
           \/ s.state # "up" /\ End(i, "over")
        /\ UNCHANGED <<files, loaded, svc, trouble>>

(* the task of another peer: the plugin does not look at the answer *)
SmokeDenied(i) ==
    LET s == svc[cur[i]]
    IN  /\ pc[i] = "denied"
        /\ \/ /\ s.state \in {"starting", "up"}
              /\ Goto(i, "grpc")
              /\ ok' = [ok EXCEPT ![i] = @ /\ (i \in Rollouts => s.env.whole)]
              /\ UNCHANGED <<todo, cur, token, mine, answered>>
           \/ s.state # "up" /\ End(i, "over")
        /\ UNCHANGED <<files, loaded, svc, trouble>>

(* gRPC knows no tokens. With the last unit all is seen but the rest of the *)
(* assertions, which hold or do not.                                        *)
SmokeGrpc(i) ==
    /\ pc[i] = "grpc"
    /\ IF svc[cur[i]].state = "up"
       THEN \/ todo[i] # {} /\ Goto(i, "smoke") /\ UNCHANGED run
            \/ todo[i] = {} /\ ok[i] /\ Goto(i, "passed") /\ UNCHANGED run
            \/ todo[i] = {} /\ End(i, "over")
       ELSE End(i, "over")
    /\ UNCHANGED <<files, loaded, svc, trouble>>

Killed(i) ==
    /\ pc[i] \in Points \ {"idle"}
    /\ End(i, "over")
    /\ UNCHANGED <<files, loaded, svc, trouble>>

Init ==
    /\ env = [u \in Units |-> Before] /\ text = [u \in Units |-> Before]
    /\ loaded = [u \in Units |-> Before]
    /\ \E state \in {"down", "up"} :
          svc = [u \in Units |-> [state |-> state, env |-> Before, text |-> Before]]
    /\ trouble = 0
    /\ pc = [i \in Installers |-> "idle"]
    /\ todo = [i \in Installers |-> {}]
    /\ cur = [i \in Installers |-> 1]
    /\ ok = [i \in Installers |-> TRUE]
    /\ token = [i \in Installers |-> Before]
    /\ mine = [i \in Installers |-> [u \in Units |-> Nothing]]
    /\ answered = [i \in Installers |-> [u \in Units |-> Nothing]]

Systemd(u) ==
    \/ ServiceUp(u) \/ ServiceFails(u) \/ AutoRestart(u)
    \/ OperatorRestart(u) \/ OperatorStop(u)

Install(i) ==
    \/ FillEnv(i) \/ OpenText(i) \/ FillText(i) \/ WriteFails(i)
    \/ DaemonReload(i) \/ EnableNow(i) \/ Restart(i) \/ WaitTimesOut(i)
    \/ SmokeAllowed(i) \/ SmokeDenied(i) \/ SmokeGrpc(i)
    \/ \E u \in Units : OpenEnv(i, u) \/ SeeReady(i, u) \/ ReadToken(i, u)

Next ==
    \/ \E u \in Units : Systemd(u)
    \/ \E i \in Installers : Begin(i) \/ Install(i) \/ Killed(i)

Spec == Init /\ [][Next]_vars

-----------------------------------------------------------------------------
(* Properties.                                                              *)

(* An installer that passed was answered, for each of its units, by a       *)
(* service started from the unit file and the token it wrote itself or from *)
(* later ones, never by one left from before: whatever other installers,    *)
(* operators and systemd did to the unit meanwhile.                         *)
PassedRanOwnOrLater ==
    \A i \in Installers : pc[i] = "passed" =>
        \A u \in Scope[i] :
            /\ answered[i][u].env.n >= mine[i][u].env.n
            /\ answered[i][u].text.n >= mine[i][u].text.n /\ answered[i][u].text.whole

(* i wrote what is in unit u's files now, and none of its calls failed up   *)
(* to its restart of u.                                                     *)
InForce(i, u) ==
    /\ mine[i][u].env = env[u] /\ mine[i][u].text = text[u]
    /\ ok[i]
    /\ pc[i] \in {"wait", "smoke", "allowed", "denied", "grpc", "passed"}

(* Once an installer whose files are in force has restarted its units, they *)
(* run with that unit text and that token, and so will every process that   *)
(* replaces them, whoever restarts it and however installers interleaved.   *)
InForceIsRun ==
    \A i \in Installers : \A u \in Scope[i] : InForce(i, u) =>
        /\ loaded[u] = text[u]
        /\ svc[u].env = env[u] /\ svc[u].text = text[u]

(* If nobody has written over what an installer wrote, the services that    *)
(* answered it when it passed were started from exactly that.               *)
UncontestedRanOwn ==
    \A i \in Installers : pc[i] = "passed" =>
        \A u \in Scope[i] :
            mine[i][u] = [env |-> env[u], text |-> text[u]] => answered[i][u] = mine[i][u]
=================================================================================
