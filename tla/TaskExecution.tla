----------------------------- MODULE TaskExecution -----------------------------
(***************************************************************************)
(* How one sidecar process turns a peer's task into something the peer     *)
(* sees: SafeEchoExecutor and HermesProfileExecutor, the child process of  *)
(* a live invocation, the private receipts on disk and the events handed   *)
(* to the A2A SDK.                                                         *)
(*                                                                         *)
(* All tasks share one event loop: code between two awaits runs without    *)
(* any other task's, but children run on their own, a write may fail and   *)
(* the process may die at any point. What the SDK does with events and     *)
(* with a coroutine that raised is not modelled.                           *)
(***************************************************************************)
EXTENDS Integers

CONSTANTS
    Tasks,        \* the tasks peers send to the sidecar
    Executor,     \* Executor[t]: "echo" or "live", whom t is sent to
    Sizes,        \* sizes of texts, in units that tell the limits apart
    MaxVisible,   \* limits.max_peer_visible_text_bytes
    MaxPrivate,   \* limits.max_private_stdout_stderr_bytes
    NoticeSize,   \* the size of the executor's own fixed notices
    Requests,     \* what peers may ask, and with which task ids
    Outputs,      \* what children may leave behind when they end by themselves
    NoText        \* no text

(* A text is its size and whether scan_peer_visible finds nothing in it. *)
Text == [size : Sizes, safe : BOOLEAN]
Notice == [size |-> NoticeSize, safe |-> TRUE]

ASSUME ExecutorAssumption == Executor \in [Tasks -> {"echo", "live"}]
ASSUME SizesAssumption ==
    /\ Sizes \subseteq Nat /\ 0 \in Sizes /\ NoticeSize \in Sizes /\ MaxPrivate \in Sizes
    /\ MaxVisible \in Nat /\ MaxVisible <= MaxPrivate
    /\ 0 < NoticeSize /\ NoticeSize <= MaxVisible
ASSUME NoTextAssumption == NoText \notin Text

Request == [text : Text, ids_safe : BOOLEAN]
Output == [exit : {"zero", "nonzero"}, stdout : Text, stderr : Text]
ASSUME InputsAssumption == Requests \subseteq Request /\ Outputs \subseteq Output

Kinds == {"invocation", "message"}
File == [name : {"none", "tmp", "final"}, whole : BOOLEAN, text : Text \cup {NoText}]
NoFile == [name |-> "none", whole |-> FALSE, text |-> NoText]

VARIABLES
    up,         \* whether the sidecar process runs
    pc,         \* where execute is, for each task
    asked,      \* the peer's text, and whether the task's ids pass the scan
    child,      \* the child process of a live invocation
    held,       \* whether a descendant of the child keeps its pipes open
    output,     \* what communicate() returns
    late,       \* result.timed_out
    draft,      \* the outcome about to be emitted: a state and a text
    writing,    \* the kind of receipt being written
    file,       \* file[t][k]: the receipt file of kind k
    cancels,    \* whether the SDK was asked to cancel the task
    events      \* the events enqueued, which peers may see from then on

vars == <<up, pc, asked, child, held, output, late, draft, writing, file, cancels, events>>

(* execute is suspended in an await, or is in code no other task runs beside. *)
Awaits == {"new", "running", "reaping", "ready"}
Busy == {"opening", "filling", "replacing", "emitting"}
Over == {"done", "raised", "cancelled", "lost"}

Outcome == [state : {"completed", "failed"}, text : Text]
Event == [state : {"completed", "failed", "canceled"}, text : Text, refs : SUBSET Kinds]

NoOutput == [exit |-> "none", stdout |-> NoText, stderr |-> NoText]
NoDraft == [state |-> "none", text |-> NoText]

TypeOK ==
    /\ up \in BOOLEAN
    /\ pc \in [Tasks -> Awaits \cup Busy \cup Over]
    /\ asked \in [Tasks -> Requests]
    /\ child \in [Tasks -> {"none", "running", "ended", "killed"}]
    /\ held \in [Tasks -> BOOLEAN]
    /\ output \in [Tasks -> Outputs \cup {NoOutput}]
    /\ late \in [Tasks -> BOOLEAN]
    /\ draft \in [Tasks -> Outcome \cup {NoDraft}]
    /\ writing \in [Tasks -> Kinds]
    /\ file \in [Tasks -> [Kinds -> File]]
    /\ cancels \in [Tasks -> BOOLEAN]
    /\ events \in [Tasks -> SUBSET Event]

-----------------------------------------------------------------------------
(* What the executors compute.                                              *)

(* _clip_bytes *)
Clip(x) == [x EXCEPT !.size = IF x.size <= MaxPrivate THEN x.size ELSE MaxPrivate]

(* stdout, or else stderr, or else a fixed answer *)
Answer(out) ==
    LET said == {x \in {Clip(out.stdout), Clip(out.stderr)} : x.size > 0}
    IN  CASE said = {} -> Notice
          [] Clip(out.stdout) \in said -> Clip(out.stdout)
          [] OTHER -> Clip(out.stderr)

(* Faulty variant, for the checks of the checks: the timeout is not looked at. *)
JudgedByExitCode(out, timed_out) ==
    IF out.exit = "zero" /\ Answer(out).size <= MaxVisible
    THEN [state |-> "completed", text |-> Answer(out)]
    ELSE [state |-> "failed", text |-> Notice]

(* _peer_text_from_result *)
Judged(out, timed_out) ==
    IF ~timed_out /\ out.exit = "zero" /\ Answer(out).size <= MaxVisible
    THEN [state |-> "completed", text |-> Answer(out)]
    ELSE [state |-> "failed", text |-> Notice]

(* assert_safe_peer_visible on a message: its text and the ids it carries. *)
Passes(t, x) == x.safe /\ asked[t].ids_safe

-----------------------------------------------------------------------------
(* Steps of execute, on the sidecar's event loop.                           *)

OnLoop(t, point) ==
    /\ up
    /\ pc[t] = point
    /\ \A u \in Tasks \ {t} : pc[u] \notin Busy

Goto(t, point) == pc' = [pc EXCEPT ![t] = point]

(* faulty variant: the message is sent without its part *)
EchoNothing(t) ==
    /\ OnLoop(t, "new")
    /\ Executor[t] = "echo"
    /\ draft' = [draft EXCEPT ![t] = [state |-> "completed", text |-> NoText]]
    /\ Goto(t, "emitting")
    /\ UNCHANGED <<up, asked, child, held, output, late, writing, file, cancels, events>>

(* SafeEchoExecutor drafts a completed echo at once *)
Echo(t) ==
    /\ OnLoop(t, "new")
    /\ Executor[t] = "echo"
    /\ draft' = [draft EXCEPT ![t] = [state |-> "completed", text |-> asked[t].text]]
    /\ Goto(t, "emitting")
    /\ UNCHANGED <<up, asked, child, held, output, late, writing, file, cancels, events>>

Spawn(t) ==
    /\ OnLoop(t, "new")
    /\ Executor[t] = "live"
    /\ child' = [child EXCEPT ![t] = "running"]
    /\ Goto(t, "running")
    /\ UNCHANGED <<up, asked, held, output, late, draft, writing, file, cancels, events>>

SpawnFails(t) ==
    /\ OnLoop(t, "new")
    /\ Executor[t] = "live"
    /\ Goto(t, "raised")
    /\ UNCHANGED <<up, asked, child, held, output, late, draft, writing, file, cancels, events>>

(* communicate() returns once the child has ended and its pipes are closed *)
PipesClosed(t) == child[t] \in {"ended", "killed"} /\ ~held[t]

RecordInvocation(t) ==
    /\ writing' = [writing EXCEPT ![t] = "invocation"]
    /\ Goto(t, "opening")

Communicated(t) ==
    /\ OnLoop(t, "running")
    /\ PipesClosed(t)
    /\ RecordInvocation(t)
    /\ UNCHANGED <<up, asked, child, held, output, late, draft, file, cancels, events>>

(* faulty variant: the limit is only looked at once the output is in *)
TimesOutAfterOutput(t) ==
    /\ OnLoop(t, "running")
    /\ PipesClosed(t)
    /\ late' = [late EXCEPT ![t] = TRUE]
    /\ Goto(t, "reaping")
    /\ UNCHANGED <<up, asked, child, held, output, draft, writing, file, cancels, events>>

(* wait_for times out: whatever the child has done by then, it is killed, *)
(* and communicate() is awaited again, this time without a limit          *)
TimesOut(t) ==
    /\ OnLoop(t, "running")
    /\ child' = [child EXCEPT ![t] = IF @ = "running" THEN "killed" ELSE @]
    /\ late' = [late EXCEPT ![t] = TRUE]
    /\ Goto(t, "reaping")
    /\ UNCHANGED <<up, asked, held, output, draft, writing, file, cancels, events>>

(* the child was reaped just as the limit passed: kill() raises *)
KillTooLate(t) ==
    /\ OnLoop(t, "running")
    /\ PipesClosed(t)
    /\ Goto(t, "raised")
    /\ UNCHANGED <<up, asked, child, held, output, late, draft, writing, file, cancels, events>>

Reaped(t) ==
    /\ OnLoop(t, "reaping")
    /\ PipesClosed(t)
    /\ RecordInvocation(t)
    /\ UNCHANGED <<up, asked, child, held, output, late, draft, file, cancels, events>>

(* faulty variant: the receipt is written in place *)
OpenInPlace(t) ==
    /\ OnLoop(t, "opening")
    /\ file' = [file EXCEPT ![t][writing[t]] =
                   [name |-> "final", whole |-> FALSE,
                    text |-> IF writing[t] = "message" THEN draft[t].text ELSE NoText]]
    /\ Goto(t, "filling")
    /\ UNCHANGED <<up, asked, child, held, output, late, draft, writing, cancels, events>>

(* Each receipt is written to a temporary name: the file is created ... *)
OpenTmp(t) ==
    /\ OnLoop(t, "opening")
    /\ file' = [file EXCEPT ![t][writing[t]] =
                   [name |-> "tmp", whole |-> FALSE,
                    text |-> IF writing[t] = "message" THEN draft[t].text ELSE NoText]]
    /\ Goto(t, "filling")
    /\ UNCHANGED <<up, asked, child, held, output, late, draft, writing, cancels, events>>

(* ... filled and closed ... *)
FillTmp(t) ==
    /\ OnLoop(t, "filling")
    /\ file' = [file EXCEPT ![t][writing[t]].whole = TRUE]
    /\ Goto(t, "replacing")
    /\ UNCHANGED <<up, asked, child, held, output, late, draft, writing, cancels, events>>

(* ... and renamed. After the invocation's receipt the result is judged. *)
ReplaceInvocation(t) ==
    /\ OnLoop(t, "replacing")
    /\ writing[t] = "invocation"
    /\ file' = [file EXCEPT ![t]["invocation"].name = "final"]
    /\ draft' = [draft EXCEPT ![t] = Judged(output[t], late[t])]
    /\ Goto(t, "emitting")
    /\ UNCHANGED <<up, asked, child, held, output, late, writing, cancels, events>>

(* faulty variant: the message's receipt is renamed some other time *)
ReplaceMessageLater(t) ==
    /\ OnLoop(t, "replacing")
    /\ writing[t] = "message"
    /\ Goto(t, "ready")
    /\ UNCHANGED <<up, asked, child, held, output, late, draft, writing, file, cancels, events>>

ReplaceMessage(t) ==
    /\ OnLoop(t, "replacing")
    /\ writing[t] = "message"
    /\ file' = [file EXCEPT ![t]["message"].name = "final"]
    /\ Goto(t, "ready")
    /\ UNCHANGED <<up, asked, child, held, output, late, draft, writing, cancels, events>>

(* any of those file operations fails *)
WriteFails(t) ==
    /\ \E point \in {"opening", "filling", "replacing"} : OnLoop(t, point)
    /\ Goto(t, "raised")
    /\ UNCHANGED <<up, asked, child, held, output, late, draft, writing, file, cancels, events>>

(* emit_peer_visible scans the message before it writes its receipt *)
EmitPasses(t) ==
    /\ OnLoop(t, "emitting")
    /\ Passes(t, draft[t].text)
    /\ writing' = [writing EXCEPT ![t] = "message"]
    /\ Goto(t, "opening")
    /\ UNCHANGED <<up, asked, child, held, output, late, draft, file, cancels, events>>

(* faulty variant: the outcome is replaced, the text is not *)
EmitRefusedText(t) ==
    /\ OnLoop(t, "emitting")
    /\ ~Passes(t, draft[t].text)
    /\ Executor[t] = "live"
    /\ draft' = [draft EXCEPT ![t].state = "failed"]
    /\ writing' = [writing EXCEPT ![t] = "message"]
    /\ Goto(t, "opening")
    /\ UNCHANGED <<up, asked, child, held, output, late, file, cancels, events>>

(* a live answer that does not pass is replaced by a notice, and scanned again *)
EmitReplaced(t) ==
    /\ OnLoop(t, "emitting")
    /\ ~Passes(t, draft[t].text)
    /\ Executor[t] = "live"
    /\ Passes(t, Notice)
    /\ draft' = [draft EXCEPT ![t] = [state |-> "failed", text |-> Notice]]
    /\ writing' = [writing EXCEPT ![t] = "message"]
    /\ Goto(t, "opening")
    /\ UNCHANGED <<up, asked, child, held, output, late, file, cancels, events>>

(* an echo that does not pass, or a message whose ids do not, is never sent *)
EmitRaises(t) ==
    /\ OnLoop(t, "emitting")
    /\ ~Passes(t, draft[t].text)
    /\ Executor[t] = "echo" \/ ~Passes(t, Notice)
    /\ Goto(t, "raised")
    /\ UNCHANGED <<up, asked, child, held, output, late, draft, writing, file, cancels, events>>

(* the receipts the metadata of the status names *)
Refs(t) == IF Executor[t] = "live" THEN Kinds ELSE {"message"}

UpdateStatus(t) ==
    /\ OnLoop(t, "ready")
    /\ events' = [events EXCEPT ![t] = @ \cup
                     {[state |-> draft[t].state, text |-> draft[t].text, refs |-> Refs(t)]}]
    /\ Goto(t, "done")
    /\ UNCHANGED <<up, asked, child, held, output, late, draft, writing, file, cancels>>

-----------------------------------------------------------------------------
(* Cancellation, children, and the process itself.                          *)

(* cancel() looks at nothing: it enqueues "Canceled" whenever the SDK calls  *)
(* it, which may be before, while or after execute runs, though never inside *)
(* a stretch of it that has no await                                         *)
Cancel(t) ==
    /\ up /\ \A u \in Tasks : pc[u] \notin Busy
    /\ ~cancels[t]
    /\ cancels' = [cancels EXCEPT ![t] = TRUE]
    /\ events' = [events EXCEPT ![t] = @ \cup
                     {[state |-> "canceled", text |-> Notice, refs |-> {}]}]
    /\ UNCHANGED <<up, pc, asked, child, held, output, late, draft, writing, file>>

(* the SDK cancels the coroutine then, too, which nothing in execute catches *)
ExecuteCancelled(t) ==
    /\ \E point \in Awaits : OnLoop(t, point)
    /\ cancels[t]
    /\ Goto(t, "cancelled")
    /\ UNCHANGED <<up, asked, child, held, output, late, draft, writing, file, cancels, events>>

(* the child starts a descendant that shares its pipes; either may end, or *)
(* the child be killed, before the other                                    *)
Forks(t) ==
    /\ child[t] = "running" /\ ~held[t]
    /\ held' = [held EXCEPT ![t] = TRUE]
    /\ UNCHANGED <<up, pc, asked, child, output, late, draft, writing, file, cancels, events>>

ChildEnds(t, out) ==
    /\ child[t] = "running"
    /\ child' = [child EXCEPT ![t] = "ended"]
    /\ output' = [output EXCEPT ![t] = out]
    /\ UNCHANGED <<up, pc, asked, held, late, draft, writing, file, cancels, events>>

DescendantEnds(t) ==
    /\ held[t]
    /\ held' = [held EXCEPT ![t] = FALSE]
    /\ UNCHANGED <<up, pc, asked, child, output, late, draft, writing, file, cancels, events>>

(* the sidecar dies: executions are lost, files and children are not *)
Crash ==
    /\ up
    /\ up' = FALSE
    /\ pc' = [t \in Tasks |-> IF pc[t] = "new" \/ pc[t] \in Over THEN pc[t] ELSE "lost"]
    /\ UNCHANGED <<asked, child, held, output, late, draft, writing, file, cancels, events>>

Restart ==
    /\ ~up
    /\ up' = TRUE
    /\ UNCHANGED <<pc, asked, child, held, output, late, draft, writing, file, cancels, events>>

Init ==
    /\ up = TRUE
    /\ pc = [t \in Tasks |-> "new"]
    /\ asked \in [Tasks -> Requests]
    /\ child = [t \in Tasks |-> "none"]
    /\ held = [t \in Tasks |-> FALSE]
    /\ output = [t \in Tasks |-> NoOutput]
    /\ late = [t \in Tasks |-> FALSE]
    /\ draft = [t \in Tasks |-> NoDraft]
    /\ writing = [t \in Tasks |-> "message"]
    /\ file = [t \in Tasks |-> [k \in Kinds |-> NoFile]]
    /\ cancels = [t \in Tasks |-> FALSE]
    /\ events = [t \in Tasks |-> {}]

Execute(t) ==
    \/ Echo(t) \/ Spawn(t) \/ SpawnFails(t)
    \/ Communicated(t) \/ KillTooLate(t) \/ Reaped(t)
    \/ OpenTmp(t) \/ FillTmp(t) \/ ReplaceInvocation(t) \/ ReplaceMessage(t) \/ WriteFails(t)
    \/ EmitPasses(t) \/ EmitReplaced(t) \/ EmitRaises(t)
    \/ UpdateStatus(t)

Environment(t) ==
    \/ Cancel(t) \/ ExecuteCancelled(t)
    \/ Forks(t) \/ DescendantEnds(t)
    \/ \E out \in Outputs : ChildEnds(t, out)

Next ==
    \/ \E t \in Tasks : Execute(t) \/ TimesOut(t) \/ Environment(t)
    \/ Crash \/ Restart

Spec == Init /\ [][Next]_vars

(* The event loop runs what is ready, and the timer of wait_for expires. A  *)
(* descendant that keeps the pipes open does not have to end ...            *)
PatientSpec == Spec /\ \A t \in Tasks : WF_vars(Execute(t)) /\ WF_vars(TimesOut(t))

(* ... unless it is assumed to. *)
FairSpec == PatientSpec /\ \A t \in Tasks : WF_vars(DescendantEnds(t))
-----------------------------------------------------------------------------
(* Properties.                                                              *)

Exposed(t) == {e \in events[t] : e.state # "canceled"}

(* Before a peer can see an outcome, every receipt its metadata names is    *)
(* complete on disk under its final name, the message's being of that very  *)
(* text, and a live outcome names its invocation's receipt too: whatever    *)
(* write failed, and wherever the process died.                             *)
ReceiptBeforeExposure ==
    \A t \in Tasks : \A e \in Exposed(t) :
        /\ "message" \in e.refs /\ file[t]["message"].text = e.text
        /\ Executor[t] = "live" => "invocation" \in e.refs
        /\ \A k \in e.refs : file[t][k].name = "final" /\ file[t][k].whole

(* No crash or failed write leaves half a receipt under a final name, and   *)
(* none is ever written of a text that the scan would have refused.         *)
ReceiptsAreSound ==
    \A t \in Tasks, k \in Kinds : file[t][k].name = "final" =>
        /\ file[t][k].whole
        /\ k = "message" => Passes(t, file[t][k].text)

(* A live task is completed only by a child that ended by itself, in time,  *)
(* with exit code 0, and only with what that child said, safe and within    *)
(* the limit, or with the fixed notice: a timeout racing the child's end,   *)
(* an error exit, an oversized or unsafe answer all end otherwise.          *)
CompletesOnlyCleanly ==
    \A t \in Tasks : \A e \in Exposed(t) :
        Executor[t] = "live" /\ e.state = "completed" =>
            /\ child[t] = "ended" /\ ~late[t] /\ output[t].exit = "zero"
            /\ e.text \in {Clip(output[t].stdout), Clip(output[t].stderr), Notice}
            /\ e.text.safe /\ e.text.size <= MaxVisible

(* Every task a sidecar has started on gets somewhere: an outcome, an       *)
(* exception for the SDK, a cancellation or the sidecar's own death. Needs  *)
(* the fairness of FairSpec: a child that hangs is killed by the timeout,   *)
(* but the reaping afterwards has no limit.                                 *)
Settles ==
    \A t \in Tasks : pc[t] \notin Over \cup {"new"} ~> pc[t] \in Over

(* The executors implement PeerBoundary, in what execute shows to peers; a  *)
(* cancellation's fixed notice is not part of it.                           *)
Vouched == [t \in Tasks |->
    IF file[t]["message"].name = "final" THEN {file[t]["message"].text} ELSE {}]
Shown == [t \in Tasks |-> {[state |-> e.state, text |-> e.text] : e \in Exposed(t)}]
FittingAnswers == [t \in Tasks |->
    IF Executor[t] = "live" THEN {x \in Text : x.size <= MaxVisible} ELSE Text]

Boundary == INSTANCE PeerBoundary WITH
    Texts <- Text, Safe <- {x \in Text : x.safe}, Answers <- FittingAnswers,
    vouched <- Vouched, shown <- Shown

ImplementsPeerBoundary == Boundary!Spec

(* "Fail-closed bounds for one live Hermes invocation" (live_executor.py:25): *)
(* once its time is up, an invocation is over, without waiting for anything   *)
(* but its own child's death.                                                 *)
TimeoutEndsInvocation ==
    \A t \in Tasks : pc[t] = "reaping" ~> pc[t] # "reaping"

(* An execution that is over, in a sidecar that runs, has no child running. *)
NoChildOutlives ==
    \A t \in Tasks : up /\ pc[t] \in {"done", "raised", "cancelled"} => child[t] # "running"
================================================================================
