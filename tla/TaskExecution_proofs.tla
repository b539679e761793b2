-------------------------- MODULE TaskExecution_proofs --------------------------
(***************************************************************************)
(* Proofs about TaskExecution, for any number of tasks, any limits, peers' *)
(* requests and children's outputs.                                        *)
(***************************************************************************)
EXTENDS TaskExecution, TLAPS

WritePoints == {"opening", "filling", "replacing"}
OnMessage(t) == pc[t] \in WritePoints /\ writing[t] = "message"
OnInvocation(t) == pc[t] \in WritePoints /\ writing[t] = "invocation"

(* What makes a completed live outcome a clean one. *)
Clean(t, o) ==
    Executor[t] = "live" /\ o.state = "completed" =>
        /\ child[t] = "ended" /\ ~late[t] /\ output[t].exit = "zero"
        /\ o.text \in {Clip(output[t].stdout), Clip(output[t].stderr), Notice}
        /\ o.text.size <= MaxVisible

(* The receipt being written is a temporary file of the drafted text, until  *)
(* it is renamed whole.                                                      *)
WritesDraft(t) ==
    /\ pc[t] \in {"filling", "replacing"} =>
          /\ file[t][writing[t]].name = "tmp"
          /\ writing[t] = "message" => file[t]["message"].text = draft[t].text
    /\ pc[t] = "replacing" => file[t][writing[t]].whole

(* A draft is an outcome; from the scan on it has passed it. *)
DraftsOutcome(t) ==
    /\ pc[t] \in {"emitting", "ready"} \/ OnMessage(t) =>
          draft[t] \in Outcome /\ Clean(t, draft[t])
    /\ pc[t] = "ready" \/ OnMessage(t) => Passes(t, draft[t].text)

(* Receipts come in order: the invocation's before the draft, the message's  *)
(* before the status.                                                        *)
ReceiptsInOrder(t) ==
    /\ Executor[t] = "live" /\ (pc[t] \in {"emitting", "ready"} \/ OnMessage(t)) =>
          file[t]["invocation"].name = "final" /\ file[t]["invocation"].whole
    /\ pc[t] = "ready" =>
          /\ file[t]["message"].name = "final" /\ file[t]["message"].whole
          /\ file[t]["message"].text = draft[t].text
    /\ file[t]["message"].name = "final" => pc[t] \in {"ready"} \cup Over

OnlyLiveHasChild(t) ==
    /\ pc[t] \in {"running", "reaping"} \/ OnInvocation(t) => Executor[t] = "live"
    /\ output[t].exit # "none" => child[t] = "ended"
    /\ pc[t] = "new" => child[t] = "none"

(* Outcomes are exposed once, and then nothing changes under them. *)
ExposedWhenDone(t) == Exposed(t) # {} => pc[t] = "done"

ExposedSoundly(t) ==
    \A e \in Exposed(t) :
        /\ e.refs = Refs(t) /\ file[t]["message"].text = e.text
        /\ \A k \in Refs(t) : file[t][k].name = "final" /\ file[t][k].whole
        /\ Passes(t, e.text) /\ Clean(t, e)

SoundReceipts(t) ==
    \A k \in Kinds : file[t][k].name = "final" =>
        /\ file[t][k].whole
        /\ k = "message" => Passes(t, file[t][k].text)

(* The inductive invariant, task by task: no task's step touches another's.  *)
TaskInv(t) ==
    /\ WritesDraft(t) /\ DraftsOutcome(t) /\ ReceiptsInOrder(t)
    /\ OnlyLiveHasChild(t) /\ ExposedWhenDone(t) /\ ExposedSoundly(t) /\ SoundReceipts(t)

IInv == TypeOK /\ \A t \in Tasks : TaskInv(t)

-----------------------------------------------------------------------------
(* What the executors compute. *)

(* The fixed notices of the executor are texts within the visible limit.    *)
LEMMA NoticeIsText == Notice \in Text /\ Notice.size <= MaxVisible
  BY SizesAssumption DEF Notice, Text

(* Clipping leaves a text.                                                  *)
LEMMA ClipIsText == ASSUME NEW x \in Text PROVE Clip(x) \in Text
  BY SizesAssumption DEF Clip, Text

(* A child's output is judged to be an outcome, and completed only if clean. *)
LEMMA JudgedIsOutcome ==
    ASSUME NEW out \in Outputs \cup {NoOutput}, NEW timed_out \in BOOLEAN
    PROVE  /\ Judged(out, timed_out) \in Outcome
           /\ Judged(out, timed_out).state = "completed" =>
                 /\ ~timed_out /\ out.exit = "zero"
                 /\ Judged(out, timed_out).text \in {Clip(out.stdout), Clip(out.stderr), Notice}
                 /\ Judged(out, timed_out).text.size <= MaxVisible
<1>1. CASE ~timed_out /\ out.exit = "zero" /\ Answer(out).size <= MaxVisible
  <2>1. out \in Output
    BY <1>1, InputsAssumption DEF NoOutput
  <2>2. Clip(out.stdout) \in Text /\ Clip(out.stderr) \in Text
    BY <2>1, ClipIsText DEF Output
  <2>3. Answer(out) \in {Clip(out.stdout), Clip(out.stderr), Notice}
    <3> DEFINE said == {x \in {Clip(out.stdout), Clip(out.stderr)} : x.size > 0}
    <3>1. CASE said = {}
      BY <3>1 DEF Answer
    <3>2. CASE said # {} /\ Clip(out.stdout) \in said
      BY <3>2 DEF Answer
    <3>3. CASE said # {} /\ Clip(out.stdout) \notin said
      BY <3>3 DEF Answer
    <3>4. QED
      BY <3>1, <3>2, <3>3
  <2>4. Judged(out, timed_out) = [state |-> "completed", text |-> Answer(out)]
    BY <1>1 DEF Judged
  <2>5. QED
    BY <1>1, <2>2, <2>3, <2>4, NoticeIsText DEF Outcome
<1>2. CASE ~(~timed_out /\ out.exit = "zero" /\ Answer(out).size <= MaxVisible)
  <2>1. Judged(out, timed_out) = [state |-> "failed", text |-> Notice]
    BY <1>2 DEF Judged
  <2>2. QED
    BY <2>1, NoticeIsText DEF Outcome
<1>3. QED
  BY <1>1, <1>2

-----------------------------------------------------------------------------
(* Types. *)

(* The executors start well typed.                                          *)
LEMMA InitTyped == Init => TypeOK
  BY DEF Init, TypeOK, Awaits, NoFile, File, Kinds

(* Filling and renaming a file each change one of its fields. *)
LEMMA FileSteps ==
    ASSUME NEW x \in File
    PROVE  /\ [x EXCEPT !.whole = TRUE] \in File
           /\ [x EXCEPT !.whole = TRUE].whole
           /\ [x EXCEPT !.whole = TRUE].name = x.name
           /\ [x EXCEPT !.whole = TRUE].text = x.text
           /\ [x EXCEPT !.name = "final"] \in File
           /\ [x EXCEPT !.name = "final"].name = "final"
           /\ [x EXCEPT !.name = "final"].whole = x.whole
           /\ [x EXCEPT !.name = "final"].text = x.text
<1>1. /\ [x EXCEPT !.whole = TRUE] \in File
      /\ [x EXCEPT !.whole = TRUE].whole = TRUE
      /\ [x EXCEPT !.whole = TRUE].name = x.name
      /\ [x EXCEPT !.whole = TRUE].text = x.text
  BY DEF File
<1>2. /\ [x EXCEPT !.name = "final"] \in File
      /\ [x EXCEPT !.name = "final"].name = "final"
      /\ [x EXCEPT !.name = "final"].whole = x.whole
      /\ [x EXCEPT !.name = "final"].text = x.text
  BY DEF File
<1>3. QED
  BY <1>1, <1>2

(* Each file operation of a receipt changes one file into a file.           *)
LEMMA FilesSteps ==
    ASSUME NEW fs \in [Kinds -> File], NEW k \in Kinds
    PROVE  /\ [fs EXCEPT ![k].whole = TRUE] = [fs EXCEPT ![k] = [fs[k] EXCEPT !.whole = TRUE]]
           /\ [fs EXCEPT ![k].name = "final"] = [fs EXCEPT ![k] = [fs[k] EXCEPT !.name = "final"]]
           /\ [fs EXCEPT ![k].whole = TRUE] \in [Kinds -> File]
           /\ [fs EXCEPT ![k].name = "final"] \in [Kinds -> File]
<1>1. /\ [fs EXCEPT ![k].whole = TRUE] = [fs EXCEPT ![k] = [fs[k] EXCEPT !.whole = TRUE]]
      /\ [fs EXCEPT ![k].name = "final"] = [fs EXCEPT ![k] = [fs[k] EXCEPT !.name = "final"]]
  OBVIOUS
<1>2. [fs[k] EXCEPT !.whole = TRUE] \in File /\ [fs[k] EXCEPT !.name = "final"] \in File
  BY FileSteps
<1>3. QED
  BY <1>1, <1>2

(* Every step of execute keeps the state well typed.                        *)
LEMMA ExecuteTyped ==
    ASSUME TypeOK, NEW t \in Tasks, TaskInv(t), Execute(t) PROVE TypeOK'
<1> USE DEF TypeOK, Goto, OnLoop, Awaits, Busy, Over
<1>1. CASE Echo(t)
  <2>1. asked[t].text \in Text
    BY InputsAssumption DEF Request
  <2>2. [state |-> "completed", text |-> asked[t].text] \in Outcome
    BY <2>1 DEF Outcome
  <2>3. QED
    BY <1>1, <2>2 DEF Echo
<1>2. CASE Spawn(t) \/ SpawnFails(t) \/ KillTooLate(t) \/ WriteFails(t) \/ EmitRaises(t)
  BY <1>2 DEF Spawn, SpawnFails, KillTooLate, WriteFails, EmitRaises
<1>3. CASE Communicated(t) \/ Reaped(t) \/ EmitPasses(t)
  BY <1>3 DEF Communicated, Reaped, EmitPasses, RecordInvocation, Kinds
<1>4. CASE OpenTmp(t)
  <2> DEFINE opened == [name |-> "tmp", whole |-> FALSE,
                        text |-> IF writing[t] = "message" THEN draft[t].text ELSE NoText]
  <2>1. opened \in File
    BY <1>4 DEF OpenTmp, TaskInv, DraftsOutcome, OnMessage, WritePoints, Outcome, File, Kinds
  <2>2. file' = [file EXCEPT ![t] = [file[t] EXCEPT ![writing[t]] = opened]]
    BY <1>4 DEF OpenTmp
  <2>3. [file[t] EXCEPT ![writing[t]] = opened] \in [Kinds -> File]
    BY <2>1
  <2>4. file' \in [Tasks -> [Kinds -> File]]
    BY <2>2, <2>3
  <2>5. QED
    BY <1>4, <2>4 DEF OpenTmp
<1>5. CASE FillTmp(t)
  <2>1. [file[t] EXCEPT ![writing[t]].whole = TRUE] \in [Kinds -> File]
    BY FilesSteps
  <2>2. file' = [file EXCEPT ![t] = [file[t] EXCEPT ![writing[t]].whole = TRUE]]
    BY <1>5 DEF FillTmp
  <2>3. QED
    BY <1>5, <2>1, <2>2 DEF FillTmp
<1>6. CASE ReplaceInvocation(t)
  <2>1. [file[t] EXCEPT !["invocation"].name = "final"] \in [Kinds -> File]
    BY FilesSteps DEF Kinds
  <2>2. file' = [file EXCEPT ![t] = [file[t] EXCEPT !["invocation"].name = "final"]]
    BY <1>6 DEF ReplaceInvocation
  <2>3. Judged(output[t], late[t]) \in Outcome
    BY JudgedIsOutcome
  <2>4. QED
    BY <1>6, <2>1, <2>2, <2>3 DEF ReplaceInvocation
<1>7. CASE ReplaceMessage(t)
  <2>1. [file[t] EXCEPT !["message"].name = "final"] \in [Kinds -> File]
    BY FilesSteps DEF Kinds
  <2>2. file' = [file EXCEPT ![t] = [file[t] EXCEPT !["message"].name = "final"]]
    BY <1>7 DEF ReplaceMessage
  <2>3. QED
    BY <1>7, <2>1, <2>2 DEF ReplaceMessage
<1>8. CASE EmitReplaced(t)
  <2>1. [state |-> "failed", text |-> Notice] \in Outcome
    BY NoticeIsText DEF Outcome
  <2>2. QED
    BY <1>8, <2>1 DEF EmitReplaced, Kinds
<1>9. CASE UpdateStatus(t)
  <2>1. draft[t] \in Outcome
    BY <1>9 DEF UpdateStatus, TaskInv, DraftsOutcome
  <2>2. [state |-> draft[t].state, text |-> draft[t].text, refs |-> Refs(t)] \in Event
    BY <2>1 DEF Outcome, Event, Refs, Kinds
  <2>3. QED
    BY <1>9, <2>2 DEF UpdateStatus
<1>10. QED
  BY <1>1, <1>2, <1>3, <1>4, <1>5, <1>6, <1>7, <1>8, <1>9 DEF Execute

(* So does every other step.                                                *)
LEMMA OtherStepTyped ==
    ASSUME TypeOK,
           \/ UNCHANGED vars \/ Crash \/ Restart
           \/ \E t \in Tasks : TimesOut(t) \/ Environment(t)
    PROVE  TypeOK'
<1> USE DEF TypeOK, Goto, OnLoop, Awaits, Busy, Over
<1>1. CASE UNCHANGED vars
  BY <1>1 DEF vars
<1>2. CASE Crash \/ Restart
  BY <1>2 DEF Crash, Restart
<1>3. ASSUME NEW t \in Tasks, TimesOut(t) PROVE TypeOK'
  BY <1>3 DEF TimesOut
<1>4. ASSUME NEW t \in Tasks, Cancel(t) PROVE TypeOK'
  <2>1. [state |-> "canceled", text |-> Notice, refs |-> {}] \in Event
    BY NoticeIsText DEF Event
  <2>2. QED
    BY <1>4, <2>1 DEF Cancel
<1>5. ASSUME NEW t \in Tasks, ExecuteCancelled(t) \/ Forks(t) \/ DescendantEnds(t)
      PROVE TypeOK'
  BY <1>5 DEF ExecuteCancelled, Forks, DescendantEnds
<1>6. ASSUME NEW t \in Tasks, NEW out \in Outputs, ChildEnds(t, out) PROVE TypeOK'
  BY <1>6 DEF ChildEnds
<1>7. QED
  BY <1>1, <1>2, <1>3, <1>4, <1>5, <1>6 DEF Environment

-----------------------------------------------------------------------------
(* Steps that change little. *)

Same(t) ==
    /\ asked'[t] = asked[t] /\ child'[t] = child[t] /\ output'[t] = output[t]
    /\ late'[t] = late[t] /\ draft'[t] = draft[t] /\ writing'[t] = writing[t]
    /\ file'[t] = file[t] /\ Exposed(t)' = Exposed(t)

(* A task none of whose state changes keeps its invariant.                  *)
LEMMA SameKeeps ==
    ASSUME NEW t \in Tasks, TaskInv(t), Same(t), pc'[t] = pc[t] PROVE TaskInv(t)'
<1> USE DEF Same, TaskInv
<1>1. WritesDraft(t)'
  BY DEF WritesDraft
<1>2. DraftsOutcome(t)'
  BY DEF DraftsOutcome, Passes, Clean, OnMessage
<1>3. ReceiptsInOrder(t)'
  BY DEF ReceiptsInOrder, OnMessage
<1>4. OnlyLiveHasChild(t)' /\ ExposedWhenDone(t)'
  BY DEF OnlyLiveHasChild, ExposedWhenDone, OnInvocation
<1>5. ExposedSoundly(t)'
  BY DEF ExposedSoundly, Passes, Clean, Refs
<1>6. SoundReceipts(t)'
  BY DEF SoundReceipts, Passes
<1>7. QED
  BY <1>1, <1>2, <1>3, <1>4, <1>5, <1>6

(* An execution that ends without a status. *)
LEMMA RetireKeeps ==
    ASSUME NEW t \in Tasks, TaskInv(t), Same(t),
           pc[t] # "done", pc'[t] \in {"raised", "cancelled", "lost"}
    PROVE  TaskInv(t)'
<1> USE DEF Same, TaskInv
<1>1. WritesDraft(t)' /\ DraftsOutcome(t)'
  BY DEF WritesDraft, DraftsOutcome, OnMessage, WritePoints
<1>2. ReceiptsInOrder(t)'
  BY DEF ReceiptsInOrder, OnMessage, WritePoints, Over
<1>3. OnlyLiveHasChild(t)' /\ ExposedWhenDone(t)' /\ ExposedSoundly(t)'
  BY DEF OnlyLiveHasChild, OnInvocation, WritePoints, ExposedWhenDone, ExposedSoundly
<1>4. SoundReceipts(t)'
  BY DEF SoundReceipts, Passes
<1>5. QED
  BY <1>1, <1>2, <1>3, <1>4

(* The child ends, or is killed while communicate() is waited for. *)
LEMMA ChildEndsKeeps ==
    ASSUME TypeOK, NEW t \in Tasks, NEW out \in Outputs, TaskInv(t), ChildEnds(t, out)
    PROVE  TaskInv(t)'
<1> USE DEF TaskInv, ChildEnds, TypeOK
<1>1. Exposed(t)' = Exposed(t)
  BY DEF Exposed
<1>2. \A o \in Outcome \cup Event : Clean(t, o) => Clean(t, o)'
  BY DEF Clean
<1>3. WritesDraft(t)' /\ ReceiptsInOrder(t)' /\ ExposedWhenDone(t)' /\ SoundReceipts(t)'
  BY <1>1 DEF WritesDraft, ReceiptsInOrder, ExposedWhenDone, SoundReceipts, Passes, OnMessage
<1>4. OnlyLiveHasChild(t)'
  BY DEF OnlyLiveHasChild, OnInvocation
<1>5. DraftsOutcome(t)'
  BY <1>2 DEF DraftsOutcome, Passes, OnMessage
<1>6. Exposed(t) \subseteq Event
  BY DEF Exposed
<1>7. ExposedSoundly(t)'
  BY <1>1, <1>2, <1>6 DEF ExposedSoundly, Passes, Refs
<1>8. QED
  BY <1>3, <1>4, <1>5, <1>7

(* The timeout keeps the invariant of its task.                             *)
LEMMA TimesOutKeeps ==
    ASSUME TypeOK, NEW t \in Tasks, TaskInv(t), TimesOut(t) PROVE TaskInv(t)'
<1> USE DEF TaskInv, TimesOut, TypeOK, OnLoop, Goto
<1>1. Exposed(t)' = Exposed(t) /\ Exposed(t) = {}
  BY DEF Exposed, ExposedWhenDone
<1>2. WritesDraft(t)' /\ DraftsOutcome(t)'
  BY DEF WritesDraft, DraftsOutcome, OnMessage, WritePoints
<1>3. ReceiptsInOrder(t)' /\ ExposedWhenDone(t)' /\ ExposedSoundly(t)'
  BY <1>1 DEF ReceiptsInOrder, ExposedWhenDone, ExposedSoundly, OnMessage, WritePoints, Over
<1>4. OnlyLiveHasChild(t)' /\ SoundReceipts(t)'
  BY DEF OnlyLiveHasChild, OnInvocation, WritePoints, SoundReceipts, Passes
<1>5. QED
  BY <1>2, <1>3, <1>4

-----------------------------------------------------------------------------
(* Steps of an execution. *)

(* So does each step of execute before the first receipt.                   *)
LEMMA BeginningKeeps ==
    ASSUME TypeOK, NEW t \in Tasks, TaskInv(t),
           Echo(t) \/ Spawn(t) \/ Communicated(t) \/ Reaped(t)
    PROVE  TaskInv(t)'
<1> USE DEF TaskInv, TypeOK, OnLoop, Goto
<1>1. Exposed(t)' = Exposed(t) /\ Exposed(t) = {}
  BY DEF Exposed, ExposedWhenDone, Echo, Spawn, Communicated, Reaped, RecordInvocation
<1>2. ExposedWhenDone(t)' /\ ExposedSoundly(t)'
  BY <1>1 DEF ExposedWhenDone, ExposedSoundly
<1>3. /\ file' = file /\ output' = output /\ asked' = asked
      /\ file[t]["message"].name # "final"
  BY DEF ReceiptsInOrder, Over, Echo, Spawn, Communicated, Reaped, RecordInvocation
<1>4. SoundReceipts(t)'
  BY <1>3 DEF SoundReceipts, Passes
<1>5. CASE Echo(t)
  <2>1. asked[t].text \in Text
    BY InputsAssumption DEF Request
  <2>2. DraftsOutcome(t)'
    BY <1>5, <2>1 DEF Echo, DraftsOutcome, Outcome, Clean, OnMessage, WritePoints
  <2>3. WritesDraft(t)' /\ ReceiptsInOrder(t)' /\ OnlyLiveHasChild(t)'
    BY <1>3, <1>5 DEF Echo, WritesDraft, ReceiptsInOrder, OnlyLiveHasChild,
                     OnMessage, OnInvocation, WritePoints
  <2>4. QED
    BY <1>2, <1>4, <2>2, <2>3
<1>6. CASE Spawn(t)
  <2>1. DraftsOutcome(t)' /\ WritesDraft(t)' /\ ReceiptsInOrder(t)'
    BY <1>3, <1>6 DEF Spawn, DraftsOutcome, WritesDraft, ReceiptsInOrder, OnMessage, WritePoints
  <2>2. OnlyLiveHasChild(t)'
    BY <1>6 DEF Spawn, OnlyLiveHasChild, OnInvocation, WritePoints
  <2>3. QED
    BY <1>2, <1>4, <2>1, <2>2
<1>7. CASE Communicated(t) \/ Reaped(t)
  <2>1. DraftsOutcome(t)' /\ WritesDraft(t)' /\ ReceiptsInOrder(t)'
    BY <1>3, <1>7 DEF Communicated, Reaped, RecordInvocation, DraftsOutcome, WritesDraft,
                     ReceiptsInOrder, OnMessage, WritePoints
  <2>2. OnlyLiveHasChild(t)'
    BY <1>7 DEF Communicated, Reaped, RecordInvocation, OnlyLiveHasChild
  <2>3. QED
    BY <1>2, <1>4, <2>1, <2>2
<1>8. QED
  BY <1>5, <1>6, <1>7

(* So does creating a temporary receipt.                                    *)
LEMMA OpenTmpKeeps ==
    ASSUME TypeOK, NEW t \in Tasks, TaskInv(t), OpenTmp(t) PROVE TaskInv(t)'
<1> USE DEF TaskInv, TypeOK, OnLoop, Goto, OpenTmp
<1> DEFINE opened == [name |-> "tmp", whole |-> FALSE,
                      text |-> IF writing[t] = "message" THEN draft[t].text ELSE NoText]
<1>1. Exposed(t)' = Exposed(t) /\ Exposed(t) = {}
  BY DEF Exposed, ExposedWhenDone
<1>2. /\ file'[t][writing[t]] = opened
      /\ \A k \in Kinds \ {writing[t]} : file'[t][k] = file[t][k]
      /\ writing[t] \in Kinds
  OBVIOUS
<1>3. file[t]["message"].name # "final" \/ writing[t] # "message"
  BY DEF ReceiptsInOrder, Over
<1>4. WritesDraft(t)'
  BY <1>2 DEF WritesDraft
<1>5. DraftsOutcome(t)'
  BY DEF DraftsOutcome, OnMessage, WritePoints, Clean, Passes
<1>6. ReceiptsInOrder(t)'
  BY <1>2 DEF ReceiptsInOrder, OnMessage, WritePoints, Over, Kinds
<1>7. OnlyLiveHasChild(t)' /\ ExposedWhenDone(t)' /\ ExposedSoundly(t)'
  BY <1>1 DEF OnlyLiveHasChild, OnInvocation, WritePoints, ExposedWhenDone, ExposedSoundly
<1>8. SoundReceipts(t)'
  BY <1>2 DEF SoundReceipts, Passes
<1>9. QED
  BY <1>4, <1>5, <1>6, <1>7, <1>8

(* So does filling one.                                                     *)
LEMMA FillTmpKeeps ==
    ASSUME TypeOK, NEW t \in Tasks, TaskInv(t), FillTmp(t) PROVE TaskInv(t)'
<1> USE DEF TaskInv, TypeOK, OnLoop, Goto, FillTmp
<1>1. Exposed(t)' = Exposed(t) /\ Exposed(t) = {}
  BY DEF Exposed, ExposedWhenDone
<1>2. file'[t] = [file[t] EXCEPT ![writing[t]] = [file[t][writing[t]] EXCEPT !.whole = TRUE]]
  BY FilesSteps
<1>3. /\ file'[t][writing[t]].whole
      /\ file'[t][writing[t]].name = file[t][writing[t]].name
      /\ file'[t][writing[t]].text = file[t][writing[t]].text
      /\ \A k \in Kinds \ {writing[t]} : file'[t][k] = file[t][k]
      /\ writing[t] \in Kinds
  BY <1>2, FileSteps
<1>4. WritesDraft(t)'
  BY <1>3 DEF WritesDraft
<1>5. DraftsOutcome(t)'
  BY DEF DraftsOutcome, OnMessage, WritePoints, Clean, Passes
<1>6. ReceiptsInOrder(t)'
  BY <1>3 DEF ReceiptsInOrder, OnMessage, WritePoints, Over, Kinds, WritesDraft
<1>7. OnlyLiveHasChild(t)' /\ ExposedWhenDone(t)' /\ ExposedSoundly(t)'
  BY <1>1 DEF OnlyLiveHasChild, OnInvocation, WritePoints, ExposedWhenDone, ExposedSoundly
<1>8. SoundReceipts(t)'
  BY <1>3 DEF SoundReceipts, Passes, WritesDraft
<1>9. QED
  BY <1>4, <1>5, <1>6, <1>7, <1>8

(* So does renaming the receipt of an invocation, and judging its result.   *)
LEMMA ReplaceInvocationKeeps ==
    ASSUME TypeOK, NEW t \in Tasks, TaskInv(t), ReplaceInvocation(t) PROVE TaskInv(t)'
<1> USE DEF TaskInv, TypeOK, OnLoop, Goto, ReplaceInvocation
<1>1. Exposed(t)' = Exposed(t) /\ Exposed(t) = {}
  BY DEF Exposed, ExposedWhenDone
<1>2. file'[t] = [file[t] EXCEPT !["invocation"] = [file[t]["invocation"] EXCEPT !.name = "final"]]
  BY FilesSteps DEF Kinds
<1>3. /\ file'[t]["invocation"].name = "final"
      /\ file'[t]["invocation"].whole
      /\ file'[t]["message"] = file[t]["message"]
  BY <1>2, FileSteps DEF Kinds, WritesDraft
<1>4. /\ draft'[t] = Judged(output[t], late[t])
      /\ child' = child /\ late' = late /\ output' = output /\ asked' = asked
  OBVIOUS
<1>5. draft'[t] \in Outcome /\ Clean(t, draft[t])'
  <2>1. draft'[t] \in Outcome
    BY <1>4, JudgedIsOutcome
  <2>2. draft'[t].state = "completed" =>
            /\ ~late[t] /\ output[t].exit = "zero" /\ child[t] = "ended"
            /\ draft'[t].text \in {Clip(output[t].stdout), Clip(output[t].stderr), Notice}
            /\ draft'[t].text.size <= MaxVisible
    BY <1>4, JudgedIsOutcome DEF OnlyLiveHasChild
  <2>3. QED
    BY <1>4, <2>1, <2>2 DEF Clean
<1>6. WritesDraft(t)' /\ DraftsOutcome(t)'
  BY <1>5 DEF WritesDraft, DraftsOutcome, OnMessage, WritePoints
<1>7. ReceiptsInOrder(t)'
  BY <1>3 DEF ReceiptsInOrder, OnMessage, WritePoints, Over
<1>8. OnlyLiveHasChild(t)' /\ ExposedWhenDone(t)' /\ ExposedSoundly(t)'
  BY <1>1, <1>4 DEF OnlyLiveHasChild, OnInvocation, WritePoints, ExposedWhenDone, ExposedSoundly
<1>9. SoundReceipts(t)'
  BY <1>3, <1>4 DEF SoundReceipts, Passes, Kinds
<1>10. QED
  BY <1>6, <1>7, <1>8, <1>9

(* So does renaming the receipt of a message.                               *)
LEMMA ReplaceMessageKeeps ==
    ASSUME TypeOK, NEW t \in Tasks, TaskInv(t), ReplaceMessage(t) PROVE TaskInv(t)'
<1> USE DEF TaskInv, TypeOK, OnLoop, Goto, ReplaceMessage
<1>1. Exposed(t)' = Exposed(t) /\ Exposed(t) = {}
  BY DEF Exposed, ExposedWhenDone
<1>2. file'[t] = [file[t] EXCEPT !["message"] = [file[t]["message"] EXCEPT !.name = "final"]]
  BY FilesSteps DEF Kinds
<1>3. /\ file'[t]["message"].name = "final"
      /\ file'[t]["message"].whole
      /\ file'[t]["message"].text = draft[t].text
      /\ file'[t]["invocation"] = file[t]["invocation"]
  BY <1>2, FileSteps DEF Kinds, WritesDraft
<1>4. DraftsOutcome(t)' /\ WritesDraft(t)'
  BY DEF WritesDraft, DraftsOutcome, OnMessage, WritePoints, Passes, Clean
<1>5. ReceiptsInOrder(t)'
  BY <1>3 DEF ReceiptsInOrder, OnMessage, WritePoints
<1>6. OnlyLiveHasChild(t)' /\ ExposedWhenDone(t)' /\ ExposedSoundly(t)'
  BY <1>1 DEF OnlyLiveHasChild, OnInvocation, WritePoints, ExposedWhenDone, ExposedSoundly
<1>7. SoundReceipts(t)'
  BY <1>3 DEF SoundReceipts, Passes, Kinds, DraftsOutcome, OnMessage, WritePoints
<1>8. QED
  BY <1>4, <1>5, <1>6, <1>7

(* So does each way the scan of an outcome can go.                          *)
LEMMA EmitKeeps ==
    ASSUME TypeOK, NEW t \in Tasks, TaskInv(t), EmitPasses(t) \/ EmitReplaced(t)
    PROVE  TaskInv(t)'
<1> USE DEF TaskInv, TypeOK, OnLoop, Goto, EmitPasses, EmitReplaced
<1>1. Exposed(t)' = Exposed(t) /\ Exposed(t) = {}
  BY DEF Exposed, ExposedWhenDone
<1>2. DraftsOutcome(t)'
  <2>1. CASE EmitPasses(t)
    BY <2>1 DEF DraftsOutcome, Passes, Clean
  <2>2. CASE EmitReplaced(t)
    <3>1. draft'[t] = [state |-> "failed", text |-> Notice] /\ asked' = asked
      BY <2>2
    <3>2. draft'[t] \in Outcome /\ Clean(t, draft[t])' /\ Passes(t, draft[t].text)'
      BY <2>2, <3>1, NoticeIsText DEF Outcome, Clean, Passes
    <3>3. QED
      BY <3>2 DEF DraftsOutcome
  <2>3. QED
    BY <2>1, <2>2
<1>3. WritesDraft(t)' /\ ReceiptsInOrder(t)'
  BY DEF WritesDraft, ReceiptsInOrder, OnMessage, WritePoints, Over
<1>4. OnlyLiveHasChild(t)' /\ ExposedWhenDone(t)' /\ ExposedSoundly(t)' /\ SoundReceipts(t)'
  BY <1>1 DEF OnlyLiveHasChild, OnInvocation, ExposedWhenDone, ExposedSoundly, SoundReceipts, Passes
<1>5. QED
  BY <1>2, <1>3, <1>4

(* So does enqueuing the outcome.                                           *)
LEMMA UpdateStatusKeeps ==
    ASSUME TypeOK, NEW t \in Tasks, TaskInv(t), UpdateStatus(t) PROVE TaskInv(t)'
<1> USE DEF TaskInv, TypeOK, OnLoop, Goto, UpdateStatus
<1> DEFINE status == [state |-> draft[t].state, text |-> draft[t].text, refs |-> Refs(t)]
<1>1. Exposed(t) = {} /\ draft[t] \in Outcome
  BY DEF ExposedWhenDone, DraftsOutcome
<1>2. events'[t] = events[t] \cup {status} /\ status.state # "canceled"
  BY <1>1 DEF Outcome
<1>3. Exposed(t)' = {status}
  BY <1>1, <1>2 DEF Exposed
<1>4. WritesDraft(t)' /\ DraftsOutcome(t)'
  BY DEF WritesDraft, DraftsOutcome, OnMessage, WritePoints
<1>5. ReceiptsInOrder(t)' /\ OnlyLiveHasChild(t)' /\ SoundReceipts(t)' /\ ExposedWhenDone(t)'
  BY DEF ReceiptsInOrder, OnMessage, OnInvocation, WritePoints, Over, OnlyLiveHasChild,
         SoundReceipts, Passes, ExposedWhenDone
<1>6. ExposedSoundly(t)'
  <2>1. \A k \in Refs(t) : file[t][k].name = "final" /\ file[t][k].whole
    BY ExecutorAssumption DEF ReceiptsInOrder, Refs, Kinds
  <2>2. /\ file[t]["message"].text = status.text /\ status.refs = Refs(t)
        /\ Passes(t, status.text) /\ Clean(t, status)
    BY DEF ReceiptsInOrder, DraftsOutcome, Clean
  <2>3. QED
    BY <1>3, <2>1, <2>2 DEF ExposedSoundly, Refs, Passes, Clean
<1>7. QED
  BY <1>4, <1>5, <1>6

-----------------------------------------------------------------------------
(* The invariant is inductive. *)

(* A step of one task leaves every other task as it was.                    *)
LEMMA OthersSame ==
    ASSUME TypeOK, NEW t \in Tasks, Execute(t) \/ TimesOut(t) \/ Environment(t)
    PROVE  \A u \in Tasks \ {t} : Same(u) /\ pc'[u] = pc[u]
<1> USE DEF TypeOK, Same, Exposed, Goto
<1>1. CASE Echo(t) \/ Spawn(t) \/ SpawnFails(t) \/ Communicated(t) \/ KillTooLate(t) \/ Reaped(t)
  BY <1>1 DEF Echo, Spawn, SpawnFails, Communicated, KillTooLate, Reaped, RecordInvocation
<1>2. CASE OpenTmp(t) \/ FillTmp(t) \/ ReplaceInvocation(t) \/ ReplaceMessage(t) \/ WriteFails(t)
  BY <1>2 DEF OpenTmp, FillTmp, ReplaceInvocation, ReplaceMessage, WriteFails
<1>3. CASE EmitPasses(t) \/ EmitReplaced(t) \/ EmitRaises(t) \/ UpdateStatus(t)
  BY <1>3 DEF EmitPasses, EmitReplaced, EmitRaises, UpdateStatus
<1>4. CASE TimesOut(t) \/ Cancel(t) \/ ExecuteCancelled(t) \/ Forks(t) \/ DescendantEnds(t)
  BY <1>4 DEF TimesOut, Cancel, ExecuteCancelled, Forks, DescendantEnds
<1>5. ASSUME NEW out \in Outputs, ChildEnds(t, out)
      PROVE \A u \in Tasks \ {t} : Same(u) /\ pc'[u] = pc[u]
  BY <1>5 DEF ChildEnds
<1>6. QED
  BY <1>1, <1>2, <1>3, <1>4, <1>5 DEF Execute, Environment

(* So every step of execute keeps the invariant of its task.                *)
LEMMA ExecuteKeeps ==
    ASSUME TypeOK, NEW t \in Tasks, TaskInv(t), Execute(t) PROVE TaskInv(t)'
<1>1. CASE SpawnFails(t) \/ KillTooLate(t) \/ WriteFails(t) \/ EmitRaises(t)
  <2>1. Same(t)
    BY <1>1 DEF Same, Exposed, SpawnFails, KillTooLate, WriteFails, EmitRaises
  <2>2. pc[t] # "done" /\ pc'[t] = "raised"
    BY <1>1 DEF TypeOK, OnLoop, Goto, SpawnFails, KillTooLate, WriteFails, EmitRaises
  <2>3. QED
    BY <2>1, <2>2, RetireKeeps
<1>2. QED
  BY <1>1, BeginningKeeps, OpenTmpKeeps, FillTmpKeeps, ReplaceInvocationKeeps,
     ReplaceMessageKeeps, EmitKeeps, UpdateStatusKeeps DEF Execute

(* And so does every step of its child, of its descendants and of the SDK.  *)
LEMMA EnvironmentKeeps ==
    ASSUME TypeOK, NEW t \in Tasks, TaskInv(t), Environment(t) PROVE TaskInv(t)'
<1>1. CASE Cancel(t) \/ Forks(t) \/ DescendantEnds(t)
  <2>1. Exposed(t)' = Exposed(t)
    BY <1>1 DEF Exposed, Cancel, Forks, DescendantEnds, TypeOK
  <2>2. Same(t) /\ pc'[t] = pc[t]
    BY <1>1, <2>1 DEF Same, Cancel, Forks, DescendantEnds
  <2>3. QED
    BY <2>2, SameKeeps
<1>2. CASE ExecuteCancelled(t)
  <2>1. Same(t)
    BY <1>2 DEF Same, Exposed, ExecuteCancelled
  <2>2. pc[t] # "done" /\ pc'[t] = "cancelled"
    BY <1>2 DEF TypeOK, ExecuteCancelled, OnLoop, Goto, Awaits
  <2>3. QED
    BY <2>1, <2>2, RetireKeeps
<1>3. QED
  BY <1>1, <1>2, ChildEndsKeeps DEF Environment

(* The invariant of all tasks is inductive.                                 *)
LEMMA Inductive == IInv /\ [Next]_vars => IInv'
<1> SUFFICES ASSUME IInv, [Next]_vars PROVE IInv'
    OBVIOUS
<1>1. CASE UNCHANGED vars \/ Restart
  <2>1. TypeOK'
    BY <1>1, OtherStepTyped DEF IInv
  <2>2. ASSUME NEW t \in Tasks PROVE Same(t) /\ pc'[t] = pc[t]
    BY <1>1 DEF vars, Restart, Same, Exposed
  <2>3. QED
    BY <2>1, <2>2, SameKeeps DEF IInv
<1>2. CASE Crash
  <2>1. TypeOK'
    BY <1>2, OtherStepTyped DEF IInv
  <2>2. ASSUME NEW t \in Tasks PROVE TaskInv(t)'
    <3>1. Same(t)
      BY <1>2 DEF Crash, Same, Exposed
    <3>2. pc'[t] = pc[t] \/ (pc[t] # "done" /\ pc'[t] = "lost")
      BY <1>2 DEF Crash, Over
    <3>3. QED
      BY <3>1, <3>2, SameKeeps, RetireKeeps DEF IInv
  <2>3. QED
    BY <2>1, <2>2 DEF IInv
<1>3. ASSUME NEW t \in Tasks, Execute(t) \/ TimesOut(t) \/ Environment(t) PROVE IInv'
  <2>1. TypeOK'
    BY <1>3, ExecuteTyped, OtherStepTyped DEF IInv
  <2>2. TaskInv(t)'
    BY <1>3, ExecuteKeeps, TimesOutKeeps, EnvironmentKeeps DEF IInv
  <2>3. ASSUME NEW u \in Tasks \ {t} PROVE TaskInv(u)'
    BY <1>3, OthersSame, SameKeeps DEF IInv
  <2>4. QED
    BY <2>1, <2>2, <2>3 DEF IInv
<1>4. QED
  BY <1>1, <1>2, <1>3 DEF Next

(* It holds before any task has begun.                                      *)
LEMMA Initially == Init => IInv
<1> SUFFICES ASSUME Init PROVE IInv
    OBVIOUS
<1>1. ASSUME NEW t \in Tasks PROVE TaskInv(t)
  <2> USE DEF Init
  <2>1. WritesDraft(t) /\ DraftsOutcome(t) /\ ReceiptsInOrder(t)
    BY DEF WritesDraft, DraftsOutcome, ReceiptsInOrder, OnMessage, WritePoints, NoFile, Kinds
  <2>2. OnlyLiveHasChild(t)
    BY DEF OnlyLiveHasChild, OnInvocation, WritePoints, NoOutput
  <2>3. ExposedWhenDone(t) /\ ExposedSoundly(t)
    BY DEF ExposedWhenDone, ExposedSoundly, Exposed
  <2>4. SoundReceipts(t)
    BY DEF SoundReceipts, NoFile
  <2>5. QED
    BY <2>1, <2>2, <2>3, <2>4 DEF TaskInv
<1>2. QED
  BY <1>1, InitTyped DEF IInv

(* The inductive invariant holds throughout. *)
THEOREM Invariance == Spec => []IInv
  BY Initially, Inductive, PTL DEF Spec

(* Every reachable state is well typed. *)
THEOREM TypeCorrect == Spec => []TypeOK
<1>1. IInv => TypeOK
  BY DEF IInv
<1>2. QED
  BY <1>1, Invariance, PTL

(* No peer sees an outcome before its receipts are complete on disk under    *)
(* their final names, whatever write fails and wherever the process dies.    *)
THEOREM ReceiptsFirst == Spec => []ReceiptBeforeExposure
<1>1. IInv => ReceiptBeforeExposure
  <2> SUFFICES ASSUME IInv, NEW t \in Tasks, NEW e \in Exposed(t)
      PROVE /\ "message" \in e.refs /\ file[t]["message"].text = e.text
            /\ Executor[t] = "live" => "invocation" \in e.refs
            /\ \A k \in e.refs : file[t][k].name = "final" /\ file[t][k].whole
      BY DEF ReceiptBeforeExposure
  <2>1. ExposedSoundly(t)
    BY DEF IInv, TaskInv
  <2>2. QED
    BY <2>1 DEF ExposedSoundly, Refs, Kinds
<1>2. QED
  BY <1>1, Invariance, PTL

(* A receipt under a final name is whole, and of a text that passed the scan. *)
THEOREM SoundOnDisk == Spec => []ReceiptsAreSound
<1>1. IInv => ReceiptsAreSound
  BY DEF IInv, TaskInv, SoundReceipts, ReceiptsAreSound
<1>2. QED
  BY <1>1, Invariance, PTL

(* A live task is completed only by a child that ended by itself, in time and *)
(* without an error, with what it said, safe and within the limit.            *)
THEOREM CleanCompletion == Spec => []CompletesOnlyCleanly
<1>1. IInv => CompletesOnlyCleanly
  <2> SUFFICES ASSUME IInv, NEW t \in Tasks, NEW e \in Exposed(t),
                      Executor[t] = "live", e.state = "completed"
      PROVE /\ child[t] = "ended" /\ ~late[t] /\ output[t].exit = "zero"
            /\ e.text \in {Clip(output[t].stdout), Clip(output[t].stderr), Notice}
            /\ e.text.safe /\ e.text.size <= MaxVisible
      BY DEF CompletesOnlyCleanly
  <2>1. Passes(t, e.text) /\ Clean(t, e)
    BY DEF IInv, TaskInv, ExposedSoundly
  <2>2. QED
    BY <2>1 DEF Passes, Clean
<1>2. QED
  BY <1>1, Invariance, PTL
-----------------------------------------------------------------------------
(* Children and receipts after their execution. *)

(* Each child is attended by its execution, or that was cut off; and the     *)
(* receipt of its invocation is written once.                               *)
Attended(t) ==
    /\ child[t] = "running" => pc[t] \in {"running", "cancelled", "lost"}
    /\ pc[t] = "cancelled" => cancels[t]
    /\ file[t]["invocation"].name = "final" => pc[t] \notin {"new", "running", "reaping"} /\ ~OnInvocation(t)

EachAttended == \A t \in Tasks : Attended(t)

(* One task's step leaves the others attended as they were.                 *)
LEMMA OthersAttended ==
    ASSUME TypeOK, NEW t \in Tasks, Execute(t) \/ TimesOut(t) \/ Environment(t), NEW u \in Tasks \ {t}, Attended(u)
    PROVE  Attended(u)'
<1>1. cancels'[u] = cancels[u]
  BY DEF TypeOK, Execute, Environment, Echo, Spawn, SpawnFails, Communicated, KillTooLate, Reaped, OpenTmp, FillTmp,
     ReplaceInvocation, ReplaceMessage, WriteFails, EmitPasses, EmitReplaced, EmitRaises, UpdateStatus,
     TimesOut, Cancel, ExecuteCancelled, Forks, DescendantEnds, ChildEnds
<1>2. QED
  BY <1>1, OthersSame DEF Attended, OnInvocation, Same

(* A file operation changes only the receipt that is being written.         *)
LEMMA OtherReceipt ==
    ASSUME TypeOK, NEW t \in Tasks, Execute(t) \/ TimesOut(t) \/ Environment(t), NEW k \in Kinds,
           ~ (writing[t] = k /\ pc[t] \in WritePoints)
    PROVE  file'[t][k] = file[t][k]
<1> USE DEF TypeOK, OnLoop, WritePoints
<1>1. CASE OpenTmp(t)
  BY <1>1 DEF OpenTmp
<1>2. CASE FillTmp(t)
  <2>1. file'[t] = [file[t] EXCEPT ![writing[t]] = [file[t][writing[t]] EXCEPT !.whole = TRUE]]
    BY <1>2, FilesSteps DEF FillTmp
  <2>2. QED
    BY <1>2, <2>1 DEF FillTmp
<1>3. CASE ReplaceInvocation(t)
  <2>1. file'[t] = [file[t] EXCEPT !["invocation"] = [file[t]["invocation"] EXCEPT !.name = "final"]]
    BY <1>3, FilesSteps DEF ReplaceInvocation, Kinds
  <2>2. QED
    BY <1>3, <2>1 DEF ReplaceInvocation
<1>4. CASE ReplaceMessage(t)
  <2>1. file'[t] = [file[t] EXCEPT !["message"] = [file[t]["message"] EXCEPT !.name = "final"]]
    BY <1>4, FilesSteps DEF ReplaceMessage, Kinds
  <2>2. QED
    BY <1>4, <2>1 DEF ReplaceMessage
<1>5. CASE ~ (OpenTmp(t) \/ FillTmp(t) \/ ReplaceInvocation(t) \/ ReplaceMessage(t))
  BY <1>5 DEF Execute, Environment, Echo, Spawn, SpawnFails, Communicated, KillTooLate, Reaped, WriteFails,
     EmitPasses, EmitReplaced, EmitRaises, UpdateStatus, TimesOut, Cancel, ExecuteCancelled, Forks,
     DescendantEnds, ChildEnds
<1>6. QED
  BY <1>1, <1>2, <1>3, <1>4, <1>5

(* Every step of a task keeps it attended.                                  *)
LEMMA OwnAttended ==
    ASSUME TypeOK, NEW t \in Tasks, TaskInv(t), Attended(t), Execute(t) \/ TimesOut(t) \/ Environment(t)
    PROVE  Attended(t)'
<1> USE DEF TypeOK, Attended, OnLoop, Goto, OnInvocation, WritePoints
<1>1. CASE Echo(t) \/ Spawn(t) \/ SpawnFails(t)
  BY <1>1 DEF Echo, Spawn, SpawnFails, TaskInv, OnlyLiveHasChild
<1>2. CASE Communicated(t) \/ Reaped(t) \/ KillTooLate(t)
  BY <1>2 DEF Communicated, Reaped, KillTooLate, PipesClosed, RecordInvocation
<1>3. CASE OpenTmp(t)
  <2>1. writing[t] # "invocation" => file'[t]["invocation"] = file[t]["invocation"]
    BY <1>3, OtherReceipt DEF Execute, Kinds
  <2>2. writing[t] = "invocation" => file'[t]["invocation"].name = "tmp"
    BY <1>3 DEF OpenTmp
  <2>3. QED
    BY <1>3, <2>1, <2>2 DEF OpenTmp
<1>4. CASE FillTmp(t)
  <2>1. writing[t] # "invocation" => file'[t]["invocation"] = file[t]["invocation"]
    BY <1>4, OtherReceipt DEF Execute, Kinds
  <2>2. writing[t] = "invocation" => file'[t]["invocation"].name = file[t]["invocation"].name
    <3>1. file'[t] = [file[t] EXCEPT ![writing[t]] = [file[t][writing[t]] EXCEPT !.whole = TRUE]]
      BY <1>4, FilesSteps DEF FillTmp
    <3>2. QED
      BY <1>4, <3>1, FileSteps DEF FillTmp
  <2>3. QED
    BY <1>4, <2>1, <2>2 DEF FillTmp
<1>5. CASE ReplaceInvocation(t) \/ ReplaceMessage(t)
  BY <1>5 DEF ReplaceInvocation, ReplaceMessage
<1>6. CASE WriteFails(t) \/ EmitPasses(t) \/ EmitReplaced(t) \/ EmitRaises(t) \/ UpdateStatus(t)
  BY <1>6 DEF WriteFails, EmitPasses, EmitReplaced, EmitRaises, UpdateStatus
<1>7. CASE TimesOut(t) \/ Cancel(t) \/ ExecuteCancelled(t) \/ Forks(t) \/ DescendantEnds(t)
  BY <1>7 DEF TimesOut, Cancel, ExecuteCancelled, Forks, DescendantEnds
<1>8. ASSUME NEW out \in Outputs, ChildEnds(t, out) PROVE Attended(t)'
  BY <1>8 DEF ChildEnds
<1>9. QED
  BY <1>1, <1>2, <1>3, <1>4, <1>5, <1>6, <1>7, <1>8 DEF Execute, Environment

(* So every step keeps every task attended.                                 *)
LEMMA AllAttended ==
    ASSUME IInv, EachAttended, [Next]_vars
    PROVE  EachAttended'
<1> USE DEF EachAttended
<1>1. CASE UNCHANGED vars \/ Restart \/ Crash
  BY <1>1 DEF vars, Restart, Crash, Attended, OnInvocation, WritePoints, Over
<1>2. ASSUME NEW t \in Tasks, Execute(t) \/ TimesOut(t) \/ Environment(t)
      PROVE  \A u \in Tasks : Attended(u)'
  BY <1>2, OwnAttended, OthersAttended DEF IInv
<1>3. QED
  BY <1>1, <1>2 DEF Next

LEMMA AttendedHolds == Spec => []EachAttended
<1>1. Init => EachAttended
  <2> SUFFICES ASSUME Init, NEW t \in Tasks PROVE Attended(t)
    BY DEF EachAttended
  <2>1. pc[t] = "new" /\ child[t] = "none" /\ file[t]["invocation"].name = "none"
    BY DEF Init, NoFile, Kinds
  <2>2. QED
    BY <2>1 DEF Attended
<1>2. QED
  BY <1>1, AllAttended, Invariance, PTL DEF Spec

(* How far the orphans of NoChildOutlives go: a child whose execution is     *)
(* over runs on only where the SDK was asked to cancel that task, or where   *)
(* the sidecar died; no timeout, error of a write or refused answer leaves   *)
(* one behind (invoke_profile, HermesProfileExecutor.execute).               *)
THEOREM OrphansWereCutOff ==
    Spec => [](\A t \in Tasks : child[t] = "running" /\ pc[t] \in Over =>
                   (pc[t] = "cancelled" /\ cancels[t]) \/ pc[t] = "lost")
<1>1. EachAttended =>
          (\A t \in Tasks : child[t] = "running" /\ pc[t] \in Over =>
              (pc[t] = "cancelled" /\ cancels[t]) \/ pc[t] = "lost")
  BY DEF EachAttended, Attended, Over
<1>2. QED
  BY <1>1, AttendedHolds, PTL

(* A receipt under its final name is never touched again, by its execution,  *)
(* by another one's, or by a restarted sidecar (atomic_write_json).          *)
ReceiptsStand == \A t \in Tasks, k \in Kinds : file[t][k].name = "final" => file'[t][k] = file[t][k]

THEOREM Permanent == Spec => [][ReceiptsStand]_vars
<1>1. IInv /\ EachAttended /\ [Next]_vars => [ReceiptsStand]_vars
  <2> SUFFICES ASSUME IInv, EachAttended, [Next]_vars,
                      NEW t \in Tasks, NEW k \in Kinds, file[t][k].name = "final"
               PROVE  file'[t][k] = file[t][k]
    BY DEF ReceiptsStand
  <2>1. CASE UNCHANGED vars \/ Restart \/ Crash
    BY <2>1 DEF vars, Restart, Crash
  <2>2. ASSUME NEW u \in Tasks, Execute(u) \/ TimesOut(u) \/ Environment(u)
        PROVE  file'[t][k] = file[t][k]
    <3>1. CASE u # t
      BY <2>2, <3>1, OthersSame DEF IInv, Same
    <3>2. CASE u = t
      <4>1. ~ (writing[t] = k /\ pc[t] \in WritePoints)
        BY DEF IInv, TaskInv, ReceiptsInOrder, EachAttended, Attended, OnInvocation, WritePoints, Over, Kinds
      <4>2. QED
        BY <2>2, <3>2, <4>1, OtherReceipt DEF IInv
    <3>3. QED
      BY <3>1, <3>2
  <2>3. QED
    BY <2>1, <2>2 DEF Next
<1>2. QED
  BY <1>1, AttendedHolds, Invariance, PTL DEF Spec

-----------------------------------------------------------------------------
(* The executors implement PeerBoundary. *)

(* What the boundary sees of a task: its message's receipt, once it has its  *)
(* final name, and its outcomes.                                             *)
Quiet(t) ==
    /\ file'[t]["message"].name = "final" <=> file[t]["message"].name = "final"
    /\ file[t]["message"].name = "final" => file'[t]["message"].text = file[t]["message"].text
    /\ Exposed(t)' = Exposed(t)

(* What a task has vouched for, by its receipt.                             *)
LEMMA VouchedOf ==
    ASSUME NEW t \in Tasks
    PROVE  /\ Vouched[t] = IF file[t]["message"].name = "final"
                           THEN {file[t]["message"].text} ELSE {}
           /\ Vouched'[t] = IF file'[t]["message"].name = "final"
                            THEN {file'[t]["message"].text} ELSE {}
  BY DEF Vouched

(* What a task shows, by its events.                                        *)
LEMMA ShownOf ==
    ASSUME NEW t \in Tasks
    PROVE  /\ Shown[t] = {[state |-> e.state, text |-> e.text] : e \in Exposed(t)}
           /\ Shown'[t] = {[state |-> e.state, text |-> e.text] : e \in Exposed(t)'}
  BY DEF Shown

(* Where no event was enqueued, nothing else is shown.                      *)
LEMMA ShownStays ==
    ASSUME NEW t \in Tasks, Exposed(t)' = Exposed(t) PROVE Shown'[t] = Shown[t]
  BY ShownOf

(* The first outcome enqueued is the one that is shown.                     *)
LEMMA ShownFirst ==
    ASSUME NEW t \in Tasks, Exposed(t) = {}, NEW e, Exposed(t)' = {e}
    PROVE  Shown[t] = {} /\ Shown'[t] = {[state |-> e.state, text |-> e.text]}
<1>1. Shown[t] = {}
  BY ShownOf, Zenon
<1>2. Shown'[t] = {[state |-> d.state, text |-> d.text] : d \in {e}}
  BY ShownOf, Zenon
<1>3. QED
  BY <1>1, <1>2

(* The first receipt of a message under its final name vouches for its text. *)
LEMMA VouchedFirst ==
    ASSUME NEW t \in Tasks, file[t]["message"].name # "final",
           file'[t]["message"].name = "final"
    PROVE  Vouched[t] = {} /\ Vouched'[t] = {file'[t]["message"].text}
  BY VouchedOf

(* One task's step is quiet for the others: the boundary changes at one task. *)
LEMMA OnlyAt ==
    ASSUME NEW t \in Tasks, \A u \in Tasks \ {t} : Quiet(u),
           NEW v, Vouched'[t] = v, NEW s, Shown'[t] = s
    PROVE  /\ Vouched' = [Vouched EXCEPT ![t] = v]
           /\ Shown' = [Shown EXCEPT ![t] = s]
<1>1. \A u \in Tasks \ {t} : Vouched'[u] = Vouched[u] /\ Shown'[u] = Shown[u]
  BY VouchedOf, ShownOf DEF Quiet
<1>2. /\ Vouched = [u \in Tasks |-> Vouched[u]] /\ Vouched' = [u \in Tasks |-> Vouched'[u]]
      /\ Shown = [u \in Tasks |-> Shown[u]] /\ Shown' = [u \in Tasks |-> Shown'[u]]
  BY DEF Vouched, Shown
<1>3. QED
  BY <1>1, <1>2

(* Steps that show and vouch for nothing are none of the boundary.          *)
LEMMA QuietStutters ==
    ASSUME \A t \in Tasks : Quiet(t) PROVE UNCHANGED Boundary!pvars
<1>1. \A t \in Tasks : Vouched'[t] = Vouched[t] /\ Shown'[t] = Shown[t]
  BY VouchedOf, ShownOf DEF Quiet
<1>2. /\ Vouched = [u \in Tasks |-> Vouched[u]] /\ Vouched' = [u \in Tasks |-> Vouched'[u]]
      /\ Shown = [u \in Tasks |-> Shown[u]] /\ Shown' = [u \in Tasks |-> Shown'[u]]
  BY DEF Vouched, Shown
<1>3. QED
  BY <1>1, <1>2 DEF Boundary!pvars

(* A task none of whose state changes is quiet.                             *)
LEMMA SameIsQuiet == ASSUME NEW t \in Tasks, Same(t) PROVE Quiet(t)
  BY DEF Same, Quiet

(* The executors start where the boundary does.                             *)
LEMMA BoundaryInit == Init => Boundary!Init
  BY DEF Init, Boundary!Init, Vouched, Shown, Exposed, NoFile, Kinds

(* Renaming the message's receipt vouches for the drafted text. *)
LEMMA ReplaceVouches ==
    ASSUME TypeOK, NEW t \in Tasks, TaskInv(t), ReplaceMessage(t),
           \A u \in Tasks \ {t} : Quiet(u)
    PROVE  Boundary!Next
<1> DEFINE x == draft[t].text
<1> USE DEF TypeOK, OnLoop, Goto, ReplaceMessage
<1>1. file'[t] = [file[t] EXCEPT !["message"] = [file[t]["message"] EXCEPT !.name = "final"]]
  BY FilesSteps DEF Kinds
<1>2. file'[t]["message"].name = "final" /\ file'[t]["message"].text = x
  BY <1>1, FileSteps DEF Kinds, TaskInv, WritesDraft
<1>3. file[t]["message"].name # "final"
  BY DEF TaskInv, ReceiptsInOrder, Over
<1>4. x \in Text /\ x.safe
  BY DEF TaskInv, DraftsOutcome, OnMessage, WritePoints, Outcome, Passes
<1>5. Exposed(t)' = Exposed(t)
  BY DEF Exposed
<1>6. Vouched[t] = {} /\ Vouched'[t] = {x} /\ Shown'[t] = Shown[t]
  <2> HIDE DEF x, TypeOK, OnLoop, Goto, ReplaceMessage
  <2>1. Vouched[t] = {} /\ Vouched'[t] = {x}
    BY <1>2, <1>3, VouchedFirst
  <2>2. QED
    BY <1>5, <2>1, ShownStays
<1>7. Vouched' = [Vouched EXCEPT ![t] = @ \cup {x}] /\ Shown' = [Shown EXCEPT ![t] = Shown[t]]
  BY <1>6, OnlyAt
<1>8. Shown' = Shown
  BY <1>7 DEF Shown
<1>9. Boundary!Vouch(t, x)
  BY <1>4, <1>7, <1>8 DEF Boundary!Vouch
<1>10. QED
  BY <1>4, <1>9 DEF Boundary!Next

(* The status shows the outcome that was drafted and vouched for. *)
LEMMA UpdateShows ==
    ASSUME TypeOK, NEW t \in Tasks, TaskInv(t), UpdateStatus(t),
           \A u \in Tasks \ {t} : Quiet(u)
    PROVE  Boundary!Next
<1> DEFINE status == [state |-> draft[t].state, text |-> draft[t].text, refs |-> Refs(t)]
           o == [state |-> draft[t].state, text |-> draft[t].text]
<1> USE DEF TypeOK, OnLoop, Goto, UpdateStatus
<1>1. Exposed(t) = {} /\ draft[t] \in Outcome /\ Clean(t, draft[t])
  BY DEF TaskInv, ExposedWhenDone, DraftsOutcome
<1>2. events'[t] = events[t] \cup {status} /\ status.state # "canceled"
  BY <1>1 DEF Outcome
<1>3. Exposed(t)' = {status}
  BY <1>1, <1>2 DEF Exposed
<1>4. Shown[t] = {} /\ Shown'[t] = {o}
  <2> HIDE DEF TypeOK, OnLoop, Goto, UpdateStatus
  <2>1. Shown[t] = {} /\ Shown'[t] = {[state |-> status.state, text |-> status.text]}
    <3> HIDE DEF status
    <3>1. QED
      BY <1>1, <1>3, ShownFirst
  <2>2. QED
    BY <2>1
<1>5. Vouched[t] = {o.text} /\ Vouched'[t] = Vouched[t]
  BY VouchedOf DEF TaskInv, ReceiptsInOrder
<1>6. o.state = "completed" => o.text \in FittingAnswers[t]
  BY <1>1 DEF FittingAnswers, Clean, Outcome
<1>7. o \in Boundary!Outcome
  BY <1>1 DEF Boundary!Outcome, Outcome
<1>8. Shown' = [Shown EXCEPT ![t] = {o}] /\ Vouched' = [Vouched EXCEPT ![t] = Vouched[t]]
  BY <1>4, <1>5, OnlyAt
<1>9. Vouched' = Vouched
  BY <1>8 DEF Vouched
<1>10. Boundary!Show(t, o)
  BY <1>4, <1>5, <1>6, <1>8, <1>9 DEF Boundary!Show
<1>11. QED
  BY <1>7, <1>10 DEF Boundary!Next

(* Every other step of an execution is quiet for its own task, too. *)
LEMMA OwnStepQuiet ==
    ASSUME TypeOK, NEW t \in Tasks, TaskInv(t),
           Execute(t) \/ TimesOut(t) \/ Environment(t), ~ReplaceMessage(t), ~UpdateStatus(t)
    PROVE  Quiet(t)
<1> USE DEF TypeOK, Goto
<1>1. CASE \/ Echo(t) \/ Spawn(t) \/ SpawnFails(t) \/ Communicated(t) \/ KillTooLate(t)
           \/ Reaped(t) \/ WriteFails(t) \/ EmitPasses(t) \/ EmitReplaced(t) \/ EmitRaises(t)
  BY <1>1 DEF Quiet, Exposed, Echo, Spawn, SpawnFails, Communicated, KillTooLate, Reaped,
     RecordInvocation, WriteFails, EmitPasses, EmitReplaced, EmitRaises
<1>2. CASE TimesOut(t) \/ ExecuteCancelled(t) \/ Forks(t) \/ DescendantEnds(t)
  BY <1>2 DEF Quiet, Exposed, TimesOut, ExecuteCancelled, Forks, DescendantEnds
<1>3. CASE Cancel(t)
  BY <1>3 DEF Quiet, Exposed, Cancel
<1>4. ASSUME NEW out \in Outputs, ChildEnds(t, out) PROVE Quiet(t)
  BY <1>4 DEF Quiet, Exposed, ChildEnds
<1>5. CASE OpenTmp(t)
  <2>1. file[t]["message"].name # "final"
    BY <1>5 DEF OpenTmp, OnLoop, TaskInv, ReceiptsInOrder, Over
  <2>2. file'[t]["message"].name # "final"
    BY <1>5, <2>1 DEF OpenTmp, Kinds
  <2>3. QED
    BY <1>5, <2>1, <2>2 DEF Quiet, Exposed, OpenTmp
<1>6. CASE FillTmp(t)
  <2>1. file'[t] = [file[t] EXCEPT ![writing[t]] = [file[t][writing[t]] EXCEPT !.whole = TRUE]]
    BY <1>6, FilesSteps DEF FillTmp
  <2>2. /\ file'[t]["message"].name = file[t]["message"].name
        /\ file'[t]["message"].text = file[t]["message"].text
    BY <2>1, FileSteps DEF Kinds
  <2>3. QED
    BY <1>6, <2>2 DEF Quiet, Exposed, FillTmp
<1>7. CASE ReplaceInvocation(t)
  <2>1. file'[t] = [file[t] EXCEPT !["invocation"] = [file[t]["invocation"] EXCEPT !.name = "final"]]
    BY <1>7, FilesSteps DEF ReplaceInvocation, Kinds
  <2>2. file'[t]["message"] = file[t]["message"]
    BY <2>1 DEF Kinds
  <2>3. QED
    BY <1>7, <2>2 DEF Quiet, Exposed, ReplaceInvocation
<1>8. QED
  BY <1>1, <1>2, <1>3, <1>4, <1>5, <1>6, <1>7 DEF Execute, Environment

(* Every step of the executors is a step of the boundary, or none.          *)
LEMMA BoundaryStep == IInv /\ [Next]_vars => [Boundary!Next]_Boundary!pvars
<1> SUFFICES ASSUME IInv, [Next]_vars PROVE Boundary!Next \/ UNCHANGED Boundary!pvars
  OBVIOUS
<1>1. CASE UNCHANGED vars \/ Restart \/ Crash
  <2>1. \A t \in Tasks : Quiet(t)
    BY <1>1 DEF vars, Restart, Crash, Quiet, Exposed
  <2>2. QED
    BY <2>1, QuietStutters
<1>2. ASSUME NEW t \in Tasks, Execute(t) \/ TimesOut(t) \/ Environment(t)
      PROVE Boundary!Next \/ UNCHANGED Boundary!pvars
  <2>1. TypeOK /\ TaskInv(t)
    BY DEF IInv
  <2>2. \A u \in Tasks \ {t} : Quiet(u)
    BY <1>2, <2>1, OthersSame, SameIsQuiet
  <2>3. CASE ReplaceMessage(t) \/ UpdateStatus(t)
    BY <2>1, <2>2, <2>3, ReplaceVouches, UpdateShows
  <2>4. CASE ~ReplaceMessage(t) /\ ~UpdateStatus(t)
    <3>1. Quiet(t)
      BY <1>2, <2>1, <2>4, OwnStepQuiet
    <3>2. QED
      BY <2>2, <3>1, QuietStutters
  <2>5. QED
    BY <2>3, <2>4
<1>3. QED
  BY <1>1, <1>2 DEF Next

(* Whatever children answer, writes fail and processes die: peers are shown  *)
(* one outcome of a task at most, with a text vouched for before.            *)
THEOREM Refinement == Spec => ImplementsPeerBoundary
  BY BoundaryInit, BoundaryStep, Invariance, PTL
  DEF Spec, ImplementsPeerBoundary, Boundary!Spec

-----------------------------------------------------------------------------
(* One outcome. *)

OneEach == \A t \in Tasks : \A d, e \in Exposed(t) : d = e

LEMMA OneEachStep == IInv /\ OneEach /\ [Next]_vars => OneEach'
<1> SUFFICES ASSUME IInv, OneEach, [Next]_vars, NEW t \in Tasks, NEW d \in Exposed(t)', NEW e \in Exposed(t)'
             PROVE  d = e
  BY DEF OneEach
<1>1. CASE Exposed(t)' = Exposed(t)
  BY <1>1 DEF OneEach
<1>2. CASE UNCHANGED vars \/ Restart \/ Crash
  <2>1. Exposed(t)' = Exposed(t)
    BY <1>2 DEF vars, Restart, Crash, Exposed
  <2>2. QED
    BY <1>1, <2>1
<1>3. ASSUME NEW u \in Tasks, Execute(u) \/ TimesOut(u) \/ Environment(u) PROVE d = e
  <2>1. CASE u # t
    <3>1. Exposed(t)' = Exposed(t)
      BY <1>3, <2>1, OthersSame DEF IInv, Same
    <3>2. QED
      BY <1>1, <3>1
  <2>2. CASE u = t /\ UpdateStatus(t)
    <3> DEFINE status == [state |-> draft[t].state, text |-> draft[t].text, refs |-> Refs(t)]
    <3>1. Exposed(t) = {} /\ events'[t] = events[t] \cup {status}
      BY <2>2 DEF IInv, TypeOK, TaskInv, ExposedWhenDone, UpdateStatus, OnLoop
    <3>2. d = status /\ e = status
      BY <3>1 DEF Exposed
    <3>3. QED
      BY <3>2
  <2>3. CASE u = t /\ ~ UpdateStatus(t)
    <3>1. Exposed(t)' = Exposed(t)
      <4>1. CASE ReplaceMessage(t)
        BY <4>1 DEF ReplaceMessage, Exposed
      <4>2. CASE ~ ReplaceMessage(t)
        BY <1>3, <2>3, <4>2, OwnStepQuiet DEF IInv, Quiet
      <4>3. QED
        BY <4>1, <4>2
    <3>2. QED
      BY <1>1, <3>1
  <2>4. QED
    BY <2>1, <2>2, <2>3
<1>4. QED
  BY <1>2, <1>3 DEF Next

(* However a timeout, a cancellation, a refused answer and the child's end   *)
(* race, peers are shown at most one outcome of a task, and once they are,   *)
(* no later step, a cancellation's or a restarted sidecar's, replaces it or  *)
(* takes it back. The fixed notice of cancel(), which looks at nothing, may  *)
(* come before it, after it, or without it (execute, cancel).                *)
OutcomeStands == \A t \in Tasks : Exposed(t) # {} => Exposed(t)' = Exposed(t)

THEOREM OneOutcome ==
    Spec => [](\A t \in Tasks : \A d, e \in Exposed(t) : d = e) /\ [][OutcomeStands]_vars
<1>1. Init => OneEach
  BY DEF Init, OneEach, Exposed
<1>2. OneEach => \A t \in Tasks : \A d, e \in Exposed(t) : d = e
  BY DEF OneEach
<1>3. IInv /\ [Next]_vars => [OutcomeStands]_vars
  <2> SUFFICES ASSUME IInv, [Next]_vars, NEW t \in Tasks, Exposed(t) # {}
               PROVE  Exposed(t)' = Exposed(t)
    BY DEF OutcomeStands
  <2>1. pc[t] = "done"
    BY DEF IInv, TaskInv, ExposedWhenDone
  <2>2. CASE UNCHANGED vars \/ Restart \/ Crash
    BY <2>2 DEF vars, Restart, Crash, Exposed
  <2>3. ASSUME NEW u \in Tasks, Execute(u) \/ TimesOut(u) \/ Environment(u)
        PROVE  Exposed(t)' = Exposed(t)
    <3>1. CASE u # t
      BY <2>3, <3>1, OthersSame DEF IInv, Same
    <3>2. CASE u = t
      <4>1. ~ ReplaceMessage(t) /\ ~ UpdateStatus(t)
        BY <2>1 DEF ReplaceMessage, UpdateStatus, OnLoop
      <4>2. QED
        BY <2>3, <3>2, <4>1, OwnStepQuiet DEF IInv, Quiet
    <3>3. QED
      BY <3>1, <3>2
  <2>4. QED
    BY <2>2, <2>3 DEF Next
<1>4. QED
  BY <1>1, <1>2, <1>3, OneEachStep, Invariance, PTL DEF Spec
================================================================================
