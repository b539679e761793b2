# A TLA+ verification of hermes-a2a

These modules model what hermes-a2a does where several processes, tasks, files
and timers meet: approvals that may be used once, task execution behind the
peer boundary, starting and stopping sidecars, validation receipts, systemd
rollouts and the evidence of the pilots. TLC checks each model on a small
instance; TLAPS proves the main safety properties for every value of the
constants. Paths below are relative to the repository.

Contents: [1 the system](#1-the-system) ·
[2 modules and code](#2-modules-and-code) ·
[3 what the runs check](#3-what-the-runs-check) ·
[4 what is proved](#4-what-is-proved) ·
[5 disagreements found](#5-disagreements-between-code-and-documentation) ·
[6 what is not modelled](#6-what-is-not-modelled) · [7 plan](#7-plan)

To repeat a run, e.g. `tlc -workers 2 -config ApprovalGate.cfg MCApprovalGate`;
to repeat the proofs, `tlapm ApprovalGate_proofs.tla` and so on.


## 1 The system

hermes-a2a exposes local agent profiles to other agents over the A2A protocol.
A *sidecar* listens on loopback, over HTTP and perhaps gRPC, and turns a peer's
task into an answer, by a safe echo or by running the `hermes` launcher as a
child. A plugin of the Hermes command line (`hermes a2a ...`) operates sidecars
behind single-use approvals; pilot scripts exercise whole set-ups and leave
evidence of it.

| Component | State it keeps | Operations | Hard behaviour | Correct when |
|---|---|---|---|---|
| **Approval gate** (`hermes_a2a_plugin/gates.py`, `cli.py`) | approval files and `.consumed` markers; nothing in memory outlives a command | `require_live_gate` by `serve --live`, `service install/restart/stop`, `task-smoke`; then the delegate | invocations are processes that race and die; files are replaced while they are read; the clock is read before the file | one approval, at most one delegate call, for what was approved, in its window |
| **Task execution and projection** (`live_executor.py`, `executor.py`, `projection.py`, `receipts.py`) | the SDK's tasks, child processes, private receipts | `execute`, `cancel`, `emit_peer_visible`, receipt writing | timeouts racing a child's end, cancellation at an await, crashes between file operations, two emissions for one task | peers see only what was scanned and has its receipt on disk; live tasks complete only on a clean end |
| **Sidecar runtime and group** (`serve.py`, `grpc_server.py`) | listeners, uvicorn's task, the gRPC server | `SidecarRuntime.start/stop`, `SidecarGroup.__aenter__/__aexit__` | ports probed and bound at different times; failure and cancellation in the middle of a start; stops that time out | a group that serves does so on its own listeners; a group that is left has closed them |
| **Roster validation receipt** (`config.py`) | `validation-receipt.json` of a run id | load, `write_validation_receipt`, failure receipts, `_validate_existing_receipt` | the file is read twice; receipts are written in place; validators race; a failure receipt overwrites | nothing binds but under a receipt that a passing validator wrote for that path and sha |
| **Roster rules** (`config.py`) | none | `parse_instances_config` of one YAML file | none: a pure function, of many rules on many rows | what it accepts, the runtimes can serve |
| **Service runner** (`service_runner.py`) | one sidecar process under systemd | run until a signal | waits without a limit, cancellation and signals in the clean-up, listeners of others taken for its own | it listens where it says it does; the process ends with its listeners closed |
| **Service installation and rollout** (`scripts/run_m17d_service_rollout.py`, the plugin's `service`) | unit and environment files, systemd's loaded units, running services | write files, `daemon-reload`, `enable --now`, `restart`, wait, smoke | installers interleave; services restart on their own between two writes | the services that a verdict rests on run the unit text and token just written |
| **Pilots** (`scripts/run_m17b..e*.py`) | run directories, one synthesis per kind of pilot, manifests | exercise, reserve ports, start, ask, stop, judge; receipt, synthesis, manifest, readback | other processes answer at a pilot's ports; a pilot and its smoke run beside each other; runs interleave on a shared synthesis; scripts stop anywhere | a pilot that passed was answered by its own servers; what the evidence says of a run, that run's receipt says |
| **Application, bindings, authorization** (`app.py`, `handler.py`) | task stores | requests | two task stores, one per binding; no authorization before gRPC | over HTTP only listed peers reach an executor; a task is found over the binding it was sent by |
| **Push policy, agent card, conformance helpers, plugin tools and views, read-only commands** | none | pure or read-only | none | see section 6 |

How they interact:

- The plugin's commands and the pilots **call** sidecars, services and validators
  as delegates, in the same process or through `systemctl`.
- The gate, the validators, the installers and the pilots each **share files**
  with other processes. No lock is taken anywhere: `O_EXCL`, `mkdir` and
  `rename` are all the synchronisation there is.
- One sidecar process runs its HTTP server, its gRPC server and all its
  executions in **one event loop**. Code between two awaits runs alone; children,
  systemd, other processes and the editor do not wait for it.
- The executors hand **events** to the A2A SDK's queue, from which peers see them.

`PROJECT.json` lists all of these under `components` and the forty places where
this code is hard to test under `hazards`, each with the properties that would
catch it going wrong.


## 2 Modules and code

| Module | Lines of code it stands for | Role |
|---|---|---|
| `SingleUse` | docs/plugin.md, as kept by `gates.py` | abstract: the promise about approvals |
| `ApprovalGate` | `gates.py`, the gated commands of `cli.py` | the gate; implements `SingleUse` |
| `PeerBoundary` | docs/operator.md, as kept by `projection.py` | abstract: the promise about what peers see |
| `TaskExecution` | `live_executor.py`, `executor.py`, `projection.py`, `receipts.py` | the executors; implements `PeerBoundary` |
| `SidecarGroup` | `serve.py`, `grpc_server.py` | starting and stopping sidecars |
| `Bindings` | `app.py` | who may ask an application for what, and its answer: operators |
| `TriadPilot` | `run_m17b_triad_pilot.py` with `app.py`, `grpc_server.py` | composes `SidecarGroup` and `Bindings`: the pilot that starts, asks and judges a group |
| `SoleServer` | `service_runner.py`, the smokes of `run_m17c_live_executor_pilot.py` and `run_m17e_lan_pilot.py` | one server and the coroutine that holds it, with signals; uses `Bindings` |
| `Roster` | `config.py` | the rules on rosters: operators |
| `PilotRoster` | `run_m17b_triad_pilot.py` | the roster that pilot writes, and the faulty copies it tries: operators |
| `OneRoster` | docs/developer.md, as kept by `config.py` | abstract: the promise about the roster of a run id |
| `ValidationRun` | `config.py` | the validation receipt of a run id, over `Roster`; implements `OneRoster` |
| `ServiceUnits` | `run_m17d_service_rollout.py`, `cli.py` | units, tokens, services and verdicts |
| `PilotEvidence` | the four pilot scripts | receipts, syntheses, verdicts |
| `MC*` | | small instances for TLC |
| `*_proofs` | | theorems and their proofs |

Conventions. One action is one step that other actors cannot divide: the code
between two awaits on the event loop, and one file or system operation between
processes. A definition whose comment begins "faulty variant" or "Faulty
variant" is no part of `Next`: it is a plausible bug in the definition after
it, with which the property that should notice it fails (`mutants` in
`PROJECT.json`). Names follow the code's where they can.

### ApprovalGate

Each element of `Procs` is one `hermes a2a` command. `pc` follows
`require_live_gate`: `idle` (flags, environment, the delegate's instance),
`reading` (the clock has been read, `now`), `looking` (`_verify_receipt` held of
the file, `seen`), `consuming`, `stamping` (the marker was created by
`os.open(..., O_CREAT | O_EXCL)`), `allowed` (it was written), `called`. The
refusals are `refused` and `refused_consumed`. `Die` kills a command between any
two of these steps, `WriteReceipt` and `RemoveReceipt` are the operator at any time,
`Tick` is the clock. A `file` is a record of what `_verify_receipt` looks at;
everything about a file's form (YAML, keys, kind, version, UUID, approver) is
its field `sound`. `marker` tells an empty marker from a written one, because a
command may die in between. `issued` is a history variable.

`ImplementsSingleUse` maps `holder[i]` to the commands past the marker of
approval `i`, `calls` to the delegate calls made, `issued` to the pairs of
operation and instance that the operator wrote under an id.

### TaskExecution

`pc[t]` follows `execute` of one task. A child is `running`, has `ended` by
itself or was `killed`; `held` is a descendant of it that keeps its pipes open.
`communicate()` returns when neither is left. Receipts are written by three
operations on the file system (`OpenTmp`, `FillTmp`, `Replace...`), each of
which may fail. `emit_peer_visible` is: scan, write the receipt, enqueue;
`EmitReplaced` is the live executor's second emission after a refused first
one, `EmitRaises` its refusal of that one too. While a task is `Busy` nothing else
runs on the event loop (`OnLoop`); children, descendants and crashes do not ask.
The SDK cancels through `Cancel` (its fixed event) and `ExecuteCancelled` (the
coroutine gets `CancelledError` at an await); both are modelled apart, since the
code neither orders nor joins them. `cancel` looks at nothing, so `Cancel` is possible
before, while and after `execute` runs. `Crash` loses executions, not files or
children.

A text is its size, in units that tell the two limits apart, and whether
`scan_peer_visible` finds something in it. `_clip_bytes` changes the size and
not the verdict of the scan: which bytes fall off is not modelled, and unsafe
text clipped to safe text would only make fewer refusals.

`ImplementsPeerBoundary` maps `vouched` to the texts of the message receipts
under their final names and `shown` to the outcomes enqueued (cancellations,
whose text is constant, apart).

### SidecarGroup

`pc` and `cur` follow `__aenter__` through `start()` of each runtime, then
`__aexit__` or the rollback through `stop()` of each in reverse. `port[p]` is who listens;
other processes take and release ports at any time. `http[r]` is uvicorn's task
from `create_task` on: it binds when the loop runs it (`UvicornBinds`), and if it
cannot it exits the process (`UvicornCannotBind`). One that is told to exit before it has
run (something else answered `wait_for_tcp` in its place) binds all the same once the loop
runs it, sees that it is told, and returns with its listener open: http `returned`, over
which `stop()` meets no error (`HttpReturned`). `StartInterrupted` is the
five-second wait that fails, and cancellation at any await of a start. `StopCancelled` is
cancellation at an await of a `stop()`: `except Exception` does not catch it, so neither the rest of that
`stop()` nor any further one happens; `cancelled` is a history variable that says so. A lone
`SidecarRuntime` is a group of one. Its own run is the one that finds the leak;
everything else about it is checked inside `TriadPilot`, whose steps include all
of its own.

### TriadPilot

A step of the group is a step of `SidecarGroup` with the pilot's variables left
alone (`Quiet`). Around it: the ports start free (`reserve_ports` held all of them
at once), `SeeDuring` is the snapshot inside the group's block, `Script` the
order of requests (each sidecar over HTTP, then each over gRPC), `Ask...` one request,
`LeaveBlock` the end of the block, `Judge` the assertions, `Exit` the end of
`asyncio.run`, with which the process's listeners are gone. A request reaches who
listens at the port *now*, or, over a kept HTTP connection, who did when it was
made (`Reached`). `answer` keeps who gave the asserted answer. `tasks` are the
task stores, one per binding: a gRPC `GetTask` finds what gRPC was sent.
`disturbed` is a history variable: something that is not the pilot's code went
wrong (a foreign listener, a failed wait, request or execution, a cancelled `stop()`).

What another process can answer is the parameter `ForeignAnswers`, assumed to be
no more than a card and a refusal: anyone can serve a file or a 403, but an
asserted completed task takes an A2A server. Another A2A server that completes
the task of any peer could not be told from the pilot's own by anything it asks.

### SoleServer

`holder` chooses one of four programs with one shape: create the HTTP server's
task, wait until something listens, (gRPC, for the service that has it), a body, and a `finally`
that stops gRPC, tells the HTTP server to exit, and awaits its task without a
limit. For a service the body is a sleep, for a pilot a smoke of three requests. `pc` is that
coroutine, `outer` the one that awaits it: for the LAN pilot its own coroutine,
which waits for the listener, looks (`PilotSees`) and joins its smoke task, or
cancels and reaps it (`PilotMisses`). `http` is uvicorn's task: it may be told to exit before it
has bound (it then returns and leaves its socket to the loop), it closes its socket
at once and ends when no request is `busy`. One operator's signal may
come at any time: uvicorn takes it while it serves and raises it again
when it ends, `asyncio.run` makes SIGINT a cancellation (`CancelMain`), SIGTERM ends a
process that has no handler. Cancelling an await in the clean-up cancels the task that
is awaited; `cut` says that this, or a failed gRPC stop, ended the clean-up early.
Nothing is looked at after the process has died.

### Roster

A roster is a record of what its YAML says after conversion, a row of it likewise;
`Accepted` is the conjunction of the rules of `parse_instances_config`, grouped by
what they are about (`ServesLocally`, `StaysSynthetic`, `Contained`,
`DistinctPorts`, `DistinctRows`). A path is the sequence of names it resolves
to below the run's directory. `Servable` is not in the code: it is what
`serve.py` takes for granted of a roster, and what `SidecarGroup` does of its
ports. Receipt roots may nest in each other; the rules allow it and nothing needs them not to.

### PilotRoster

`DefaultRoster` is what the triad pilot writes for the six ports it reserved, `Variants`
the copies with one fault each that it then shows to be denied. One row of that evidence
says less than its name: the copy with `duplicate_http_port` has a `base_url` that no longer
fits its port, so it would be denied without the rule that HTTP ports be distinct. `MCValidationRun`
has a copy (in `Faults`) that only that rule refuses.

### ValidationRun

Validators and servers load a roster in two reads (`Hash`, `Parse`), a validator
makes the receipt's directory and writes in place (`MakeDir`, `OpenReceipt`,
`WritePassed`), or writes a failure receipt over what is there
(`MarkFailure` ...), a server compares (`Bind`, `Refuse`). `--output` may send a receipt to another
directory than a server looks in. Two writers of one file may leave text that
is no JSON (`Written`). A content that is YAML says a roster (`Says`); those that
`Roster` accepts are `Valid`.

`ImplementsOneRoster` maps `decided[d]` to the path and sha of the validators that passed into
directory `d`, `bound` to what servers have bound, with the content they parsed. The receipt is in
neither: it may be torn, overwritten or mixed and the promise still stands.

### ServiceUnits

`env[u]` and `text[u]` are versions of the two files of a unit: each write first
opens (an empty version) and then fills. `loaded[u]` is what systemd read at the
last `daemon-reload`; `svc[u]` is the process and the versions it was started
from. An installer follows `write_units`, the `systemctl` calls,
`wait_for_ports` and `smoke_services`; the plugin's install has the same
steps for the one unit it was given, but does not look at the denied peer's answer
(`http_smokes_passed` in `cli.py`), hence `Rollouts`. A service with an empty
environment file has no token and lets every peer in (`Lets`). What a failed
`systemctl` call, assertion or approval costs is `ok`.

### PilotEvidence

Each run is one invocation of a pilot: `mkdir`, the exercise, the LAN pilot's own reachability
receipt, the run receipt, the synthesis shared by its kind, the hash, the readback of
`write_manifest`. Each file is truncated, then written. `Stops` is a script that raises or is
killed at any step. Two runs that write the synthesis at once may leave a mixed text
(`FillSynthesis`).

Two assertions are told apart: `"exercised"`, that everything the run did came out as asserted,
and the LAN pilot's `"unreachable"`, that unlisted hosts cannot reach it. `held` is those that held, as
the run receipt keeps them beside the status they come to (`Status`). A synthesis names the
run and gives it a status (`Says`) and a list of what it has `Proven`. Those lines are
constants in all four scripts, but for the LAN pilot's on reachability, which follows its probe.


## 3 What the runs check

Runs that pass:

| Run | Instance | What it shows |
|---|---|---|
| `approval_gate` | 2 commands over 6 command lines, 1 id, 2 paths (both in the approvals directory), 4 approval files, 3 instants | `AtMostOneHolder`, `ConsumedMeansTaken`, `SpentOnlyAsIssued`, `SpentInsideWindow`, `MarkersStay`, and that the gate implements `SingleUse` |
| `task_execution_boundary` | one live and one echo task, 3 requests, 6 child outputs, texts of size 0 to 3 around the limits 1 and 2 | `ReceiptBeforeExposure`, `ReceiptsAreSound`, `CompletesOnlyCleanly`, that the executors implement `PeerBoundary`, and `Settles` |
| `triad_pilot` | 2 sidecars with HTTP and gRPC, 4 ports, 12 requests, foreign processes that serve cards and refusals | `StoppedMeansClosed`, `ServesOnOwnListeners`, `GroupSettles` of the group inside it; `PassedAnsweredItself`, `FailsOnlyIfDisturbed`, `PilotEnds` of the pilot |
| `sole_server` | each of the four programs, foreign processes, one signal | `PassedServedItself`, `OverMeansClosed`, `RunningHasItsServers`, `RunningIsMadeGood`, `CleanUpEnds` |
| `validation_run` | 2 validators, 1 server, 2 interchangeable roster files (`PathSymmetry`); contents the triad's own roster, or one in which a gRPC port is another sidecar's HTTP port, or none | `OnlyOnePasses`, `BoundUnderReceipt`, `BoundIsServable`, `UsedUpStaysUsedUp`, that a run id implements `OneRoster`; and, before it starts, `RosterAssumption`: the pilot's roster is accepted, its faulty copies and further rosters with one fault each are refused |
| `service_units` | a rollout of 2 units beside a plugin install of one of them, one service failure or operator step | `PassedRanOwnOrLater`, `UncontestedRanOwn`, `InForceIsRun` |
| `pilot_evidence` | 2 runs, live or LAN, 2 ids | `StatusIsReceipted`, `PassedIsBacked`, `ReceiptsAreFinal` |

`StoppedMeansClosed` says what is still open once a group was left or could not be entered. The
clean-up goes from the last sidecar to the first and ends before that only if it is cancelled at an
await of a `stop()`, or, in a rollback, if a `stop()` raises (leaving collects errors and goes on). All
sidecars it came past have closed, whatever happened at others, with three exceptions: one
whose own `stop()` raised, the one whose `start()` raised (the leak of section 5), and
the HTTP listener of a server that was told to exit before it ran. The run reaches each of them.

`StatusIsReceipted` is what holds of the syntheses: the status given to a run is that of its receipt, what
is said of the reachability is borne out by it, and so is all that is listed as proven of a run that passed. That a failed or
blocked run is listed as proven too is not excluded: it is part of the disagreement of section 5, stated by
`SynthesisIsReceipted`, which the passing run does not claim.

The symmetry of `validation_run` is sound: paths are only compared with each other, and its properties are
all safety properties.

Each also checks the module's `TypeOK` (`PilotTypeOK`). The properties are stated, with the code
they are about, above their definitions.

**Bounds and why they are enough.** In every module the conflicts are between
pairs: two commands at one marker, two tasks in one event loop, two validators
at one directory, two installers of one unit, two runs of one kind. Two actors
with every interleaving have them all, and where theorems exist they hold for any
number. The other bounds:

- `MaxClock = 2` has instants before, at and after an approval's issue and
  expiry; `MaxTTL = 2` makes one approval of the instance exactly as long as
  allowed and one too long.
- One approval id: approvals with different ids share no file, marker or guard.
- Two sidecars in `triad_pilot`: one to be rolled back when the other fails, one
  to be asked before the other. With three the run takes more than five
  minutes; the safety properties are proved for any number. The leak is looked for with three, one of
  them without gRPC.
- One signal in a behaviour of `sole_server`. A second one, on which uvicorn or
  `asyncio.run` may give up at once, is not modelled.
- Sizes 0 to 3 are nothing, within the visible limit, over it, and over the
  private limit.
- `MaxTrouble = 1`: one thing going wrong by itself at any moment; with two
  the state space no longer fits a five-minute run. Retries of systemd are not bounded.
- Two contents: one valid, one with the one fault that only rows taken together show.
  Content that is not even YAML, which only makes a loader raise, and any other roster,
  are covered by the proofs.

**Fairness.** `TaskExecution`, `TriadPilot` and `SoleServer` have liveness properties.

- `PatientSpec`: weak fairness of each task's `Execute` (the event loop runs
  what is ready; no step of another task can disable it forever, as every step
  between two awaits ends) and of `TimesOut` (the timer of `wait_for`). Nothing is
  assumed of children: a child may hang for ever. `FairSpec` adds that
  descendants which keep pipes open end; `Settles` needs it, which is the finding
  on `TimeoutEndsInvocation`. A crash ends an execution; no fairness is assumed
  for restarts.
- `PilotSpec` of `TriadPilot` has `SidecarGroup`'s: weak fairness of `Start` (each wait in it has its
  five seconds), `StopGrpc`, `StopHttpTimesOut` (`wait_for` with five seconds),
  `HttpReturned` (the wait for a task that has returned), `Stopped` and uvicorn's tasks.
  There is none for `StopCancelled`, which nobody has to do, nor for `StopHttp`: whether a
  server stops when told is not up to the loop. Nor for other processes, so ports
  may stay taken for ever. It adds the pilot's own steps: its HTTP client gives up after
  ten seconds, its gRPC calls reach a server of its own event loop or fail, and the rest
  it does without waiting.
- `SoleServer`'s `FairSpec`: weak fairness of `Hold` (the coroutine, with the five
  seconds of its waits and the grace of a gRPC stop), `Uvicorn`, `Pilot`, `Exit`, and of
  `RequestEnds`: the unlimited wait of the clean-up ends because every execution
  does, which is `Settles` of `TaskExecution`, under its assumption that descendants
  let go of pipes. Without that one, the finding on `TimeoutEndsInvocation` reaches here too.

**Deadlock** is checked except where the system really stops: `ServiceUnits`
(installers are over, services settled and `MaxTrouble` used up),
`PilotEvidence` (all runs are over), `TriadPilot` and `SoleServer` (the process
has ended).

Runs that find a violation, each of one property taken from a document or comment:
`task_execution_timeout`, `task_execution_orphan`, `sidecar_group_leak`,
`pilot_evidence_triad`, `pilot_evidence_lan`; see section 5.


## 4 What is proved

All proofs are checked by tlapm 1.4.5 down to their leaves, for any sets of
processes, tasks, ids, files and any bounds that meet the named assumptions
above the constants (types, absent values that are not values, `MaxVisible <=
MaxPrivate`, and the like). Three theorems have one of their own: `Receipted` of
`PilotEvidence` has no triad among the kinds, and `DefaultAccepted` and
`VariantsDenied` take the ports that the operating system reserved, six different ones.

| Theorem | Says |
|---|---|
| `ApprovalGate_proofs`: `TypeCorrect`, `OneHolder`, `AsIssued`, `InsideWindow`, `ConsumedIsTaken`, `Permanent` | each property of the run `approval_gate` |
| `ApprovalGate_proofs`: `Refinement` | the gate implements `SingleUse` |
| `TaskExecution_proofs`: `TypeCorrect`, `ReceiptsFirst`, `SoundOnDisk`, `CleanCompletion` | each safety property of `task_execution_boundary` |
| `TaskExecution_proofs`: `Refinement` | the executors implement `PeerBoundary` |
| `TaskExecution_proofs`: `OrphansWereCutOff` | a child outlives its execution only where the SDK cancelled its task or the sidecar died |
| `TaskExecution_proofs`: `Permanent`, `OneOutcome` | no receipt under its final name is touched again; a task is shown with at most one outcome, which nothing replaces or takes back (a late cancellation adds its notice to it) |
| `SidecarGroup_proofs`: `TypeCorrect`, `LeavingCloses`, `ServesItself` | `StoppedMeansClosed`, `ServesOnOwnListeners`, of any number of sidecars |
| `TriadPilot_proofs`: `DrivesTheGroup`, `PilotGroup` | every step of the pilot is a step of `SidecarGroup`, or `ProcessDies`, or none; so the two hold of the group inside the pilot |
| `TriadPilot_proofs`: `PilotTypeCorrect`, `PassedIsOwn`, `FailureHasCause` | each safety property of `triad_pilot`, for any number of sidecars |
| `TriadPilot_proofs`: `AskedOnce`, `EndIsFinal` | no answer is replaced by a later one; a pilot whose process has ended listens nowhere and takes no step: what `PilotEnds` is about, but for coming to it |
| `SoleServer_proofs`: `TypeCorrect`, `OverIsClosed`, `RunningHas`, `PassedIsOwn` | each safety property of `sole_server` |
| `ValidationRun_proofs`: `TypeCorrect`, `OnePasses`, `BoundIsReceipted`, `UsedUpForever` | the properties of `validation_run` about receipts |
| `ValidationRun_proofs`: `BoundServable` | whatever roster a server binds, of all that can be written, its runtimes can serve |
| `ValidationRun_proofs`: `Refinement`, `ServersAgree` | a run id implements `OneRoster`; all servers of a run bind one path with one sha |
| `ValidationRun_proofs`: `DefaultAccepted`, `VariantsDenied` | for any six ports, the triad pilot's roster is accepted and each of its faulty copies is denied |
| `ServiceUnits_proofs`: `TypeCorrect`, `PassedRanOwn`, `UncontestedRan`, `InForceRuns` | each property of `service_units`, for any number of installers and units and any amount of trouble |
| `ServiceUnits_proofs`: `NeverBack` | no token or unit text goes back to an earlier version: in a file, in systemd or in a service |
| `PilotEvidence_proofs`: `TypeCorrect`, `Backed`, `Final`, `Receipted` | each property of `pilot_evidence` |
| `PilotEvidence_proofs`: `HowSynthesesDiffer`, `OnlyTheSuppliedExcuses` | with all kinds of pilots at once, a synthesis gives another status than its run's receipt only where the triad's says passed of a failed run, and lists as proven what the receipt does not bear out exactly where what was exercised did not hold, whichever pilot it is; a LAN pilot without proof of unreachability passes only with a supplied receipt |

The arguments. None of the properties is inductive on its own.

- **ApprovalGate**, `IInv`: types; every approval file lying about was issued
  (`FilesIssued`), so what a command read was, even if the file is gone;
  what is past `reading` was verified at its captured time
  (`InvocationsVerified`), which does not refer to the file any more; a holder's marker
  exists (`MarkersHeld`), so `O_EXCL` keeps a second one out (`AtMostOneHolder`); a marker exists only if
  somebody holds it, so "consumed" is never said of an untaken approval
  (`RefusedAfterHolder`). A dead command still holds.
- **TaskExecution**, one invariant per task, `TaskInv`: where `execute` is, its
  draft is safe or not yet scanned, the receipt being written is that of
  the draft, the earlier receipt is complete, no event has been enqueued before `ready`'s end. Steps of other tasks change
  nothing of it (`OthersSame`), so the step lemmas are about one task. The
  refinement has one lemma on the renaming of a message's receipt (`Vouch`), one on the
  enqueuing (`Show`); every other step is `Quiet`. What becomes of children and final receipts
  needs `Attended`, per task again: a running child has its execution at its `communicate()` or its
  execution was cut off, and an invocation's receipt is complete only past that point. `OneOutcome`
  adds `OneEach`, that what was exposed of a task is one thing.
- **ValidationRun**, `IInv`: who goes past `mkdir` made the directory
  (`OwnersMadeDir`) and is alone there (`OneOwner`); what was parsed is valid
  (`ParsedValid`); a receipt that says passed has an owner that had that path
  and sha (`PassedHasWriter`), however often failure receipts overwrote or mixed with it;
  so a server that accepted it is bound under that owner's (`BoundUnderReceipt`). For the
  refinement, `WritePassed` is `Decide` because its writer is alone in its directory, `Bind` is
  `OneRoster`'s `Bind`, and no other step moves anyone into or out of `passed` or `bound`.
- **PilotEvidence**, `IInv`: one invocation per directory gets past `mkdir`
  (`Alone`); where nobody did, nothing was written (`Untouched`); a run past its
  receipt has it complete on disk (`RunInv`), so a synthesis, written only after it, agrees with it
  in whatever order runs write theirs, but for its constant lines: `Agrees` says of a whole
  synthesis and the receipt it names how they may differ. `HowSynthesesDiffer` is that, and `Receipted`
  what is left of it where no triad runs.
- **BoundServable** needs no invariant beyond `BoundUnderReceipt`: what is bound
  parsed as valid, and the lemma `AcceptedServable` derives what runtimes take for
  granted from the separate rules (three rows and three expected ids, no id twice, hence each once;
  every listener has a port and no two the same one).
- **SidecarGroup**, `IInv`: a runtime's servers and the ports agree (`Listens`);
  while the group starts, those before `cur` are the ones `started`, and up, and those after it
  untouched (`StartOrder`); once it serves, all are up (`ServeAll`); while it stops and after, those
  it came past without an error are down, but for the listener of a server that returned, after a failed start those
  behind the one that raised still have never opened anything (`StopOrder`), and an ending short of the first
  sidecar has one of its two reasons (`Ending`).
- **TriadPilot** has `SidecarGroup`'s `IInv` (`DrivesTheGroup`: its steps are those of the group or leave
  it alone, and `Exit` is `ProcessDies`), and two more. `AskInv`: once a sidecar's HTTP server has completed a task,
  it serves until the block is left, so the connection kept, and the
  refusal asked for over it, are its own; that is what makes the refusal, which anybody
  could give, trustworthy, and why the order of requests matters (a mutant asks for the refusal
  first). `Undisturbed`: as long as nothing was disturbed, no foreign listener exists and what was asked was answered as asserted
  (`Smooth`), up to the place of the script that is next.
- **SoleServer**, `IInv`: where each coroutine and server can be at once (`Places`,
  `GrpcUp`, `HttpCut`, ...), who listens (`Listeners`), and for the smokes
  that the server which completed the task serves on, or closes because of a
  signal (`StillOwn`): a foreign refusal after that goes with a signal that was taken and
  will be raised, so that the smoke's pilot does not pass (`Suspect`). That a service that sleeps
  still has its servers (`RunningHas`) needs more: a signal is only ever taken by a server that had bound
  (`Taken`), and an HTTP server that ends takes the coroutine or the process with it in the same step, so that none is
  missing from `create_task` to the body (`HttpRuns`, and `GrpcRuns` from gRPC's bind).
- **ServiceUnits**, `IInv`: whatever holds a version of a file (systemd, a process,
  an installer's memory) holds the present one or a strictly earlier one
  (`AllDated`); and per installer, by where it is: after its `daemon-reload` what
  is loaded is its own or later, after its restart so is what runs, and what has answered it
  was (`Progress`). Steps of systemd, operators and other installers take nothing of that back
  (`World`, `BystanderStep`); `OwnStep` advances it. The answers it was given are dated likewise (`AnsweredDated`), so
  that an answer which was its own or later is exactly its own as long as nothing later was written:
  `UncontestedRan`.

Only model-checked: liveness (`Settles`, `GroupSettles`, `PilotEnds`,
`RunningIsMadeGood`, `CleanUpEnds`; TLAPS has no `ENABLED`) and the violations. Stated by no run, and
so proved only: `ServersAgree`, as the instance has one server; the extents of findings (`OrphansWereCutOff`,
`HowSynthesesDiffer`, `OnlyTheSuppliedExcuses`); and `Permanent` and `OneOutcome` of `TaskExecution`, `AskedOnce`, `EndIsFinal`,
`DrivesTheGroup`, `NeverBack`. For six arbitrary ports the two theorems on rosters are proved, for those below 7 TLC
evaluates `RosterAssumption`.


## 5 Disagreements between code and documentation

- **The timeout is not the end** (`live_executor.py:115`,
  `TimeoutEndsInvocation`). After the kill, `communicate()` is awaited without
  a limit: a descendant of the child that keeps its pipes open suspends the task.
- **A cancelled execution leaves its child running** (`live_executor.py:112`,
  `NoChildOutlives`). Only `TimeoutError` is caught. It is the only way besides the sidecar's death:
  `OrphansWereCutOff`.
- **A start that fails late leaves a listener** (`serve.py:163`,
  `FailedStartLeavesNothing`). The rollback covers the runtimes whose `start()`
  returned, not the one that raised after it had launched its HTTP server. The run's trace has no
  `stop()` that raised and no cancellation. What else a clean-up may leave open: `LeavingCloses`.
- **A failed triad's synthesis says PASSED** (`run_m17b_triad_pilot.py:389`,
  `SynthesisIsReceipted` under a triad). The line is a constant, and so are those under "Proven"
  (line 396). The "Proven" lines of the other pilots are constants too
  (`run_m17c_live_executor_pilot.py:245`, `run_m17d_service_rollout.py:377`, `run_m17e_lan_pilot.py:376`): their failed or
  blocked runs get the right status above lines that their receipts contradict. `HowSynthesesDiffer` proves both
  extents, for every kind.
- **A supplied reachability receipt outweighs the run's own probe**
  (`run_m17e_lan_pilot.py:290`, `InconclusiveIsBlocked`). README.md:127 says an
  inconclusive probe means blocked. Without a supplied receipt it does: `OnlyTheSuppliedExcuses`.

Met while modelling, and in the models, but contradicting no document: the manifest of a
passed pilot may hold the hash of another run's synthesis, or of a mixture; the
plugin's install passes a service without a token, as it does not look at the
denied peer's status; a smoke that raises leaves units running and no receipt;
a roster is hashed in one read and parsed in another; a service may say that it runs because
another process listens at its port (`RunningIsMadeGood` is what it is good for); a sidecar whose server
was told to exit before it ran keeps its listener without an error, and a cancelled leaving
abandons the sidecars it has not come to (`StoppedMeansClosed`). Read, but not
modelled: the LAN pilot's synthesis of a run with a supplied receipt and no probe says that no proof was
supplied (`run_m17e_lan_pilot.py:363`) above the line that says one was (line 386); docs/operator.md:72 gives `--management-root` a default, yet the plugin's delegates
get `None` without it (`hermes_a2a_plugin/cli.py:336`), so the service installer
raises after its approval was spent.


## 6 What is not modelled

- **The A2A SDK, uvicorn, grpc.aio, asyncio, systemd and the file system** are
  external: what the code relies on is modelled (when a server binds and
  closes, that `rename` replaces at once, that `O_EXCL` decides), their inside is
  not. What the SDK does with events, or with a coroutine that raised, is
  not, and neither is loss of power: a receipt that was renamed is on disk.
- **Patterns**: those of the projection's scan and of the roster's secret scan, of ids and run
  ids, and where `_clip_bytes` cuts a character. A text or a roster has a flag
  that says what a scan found; ids are the few that occur.
- **Other processes at the ports of systemd's services**, restarts that
  systemd gives up on, and the reload that `systemctl enable` does by itself: the scripts reload before it.
- **Signals in a group**: uvicorn takes one while it serves and ends; `SoleServer` has that for one server,
  `SidecarGroup` does not for several. What a group's block is told then is not modelled.
- **Liveness of a rollout**: the model with fairness is too large for TLC.
- **What else the pilots assert** (names and interfaces of a card, receipt counts,
  the launcher's probe): one answer each in `PilotEvidence`. M17a is a sequential smoke of one
  gRPC server.
- **The extended card's API key and push configurations** (`handler.py`, `policy.py`): predicates
  on one request. No program of the repository asks for either.
- **Agent card**: one constant message.
- **Conformance helpers** (`conformance.py`, `validate_local_conformance.py`): scan files for labels
  and count the rows of a matrix, after marking all of them passed
  (`validate_local_conformance.py:168`): reporting without state, order or failure to model.
- **Plugin tools, views and read-only commands**: they compute from what they read,
  keep no state, and check their arguments against lists.


## 7 Plan

Done, in the order of their importance: `ApprovalGate` with `SingleUse`;
`TaskExecution` with `PeerBoundary`; `SidecarGroup`; `ValidationRun`;
`ServiceUnits`; `PilotEvidence`; `Bindings` and `TriadPilot`; `SoleServer`;
`Roster`; proofs of every safety property of a run that passes; `OneRoster`, the third promise;
`PilotRoster`; proofs of how far each safety finding goes.

Left, and worth less than what is there:

1. The triad pilot from its roster's validation on: `ValidationRun` and
   `TriadPilot` composed. `BoundIsServable` is the interface between them so far.
2. A rollout whose services are `SoleServer`'s: what systemd's clients see
   of a service is one step each in `ServiceUnits`.
3. A liveness property of a rollout, on an instance small enough for TLC.
