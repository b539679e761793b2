----------------------------- MODULE PilotEvidence -----------------------------
(***************************************************************************)
(* The evidence the pilot scripts leave behind: M17b (triad), M17c (live), *)
(* M17d (rollout) and M17e (lan) each make a run directory, exercise what  *)
(* they are about, and write a run receipt, then a synthesis that all runs *)
(* of a kind share, then a manifest with the hashes of both, read back     *)
(* before the verdict. Any number of runs proceed at once, and any of them *)
(* may raise or be killed at any step. Files are truncated, then written.  *)
(*                                                                         *)
(* Of a run's assertions two are told apart: that what it exercised was as *)
(* it should be, and the LAN pilot's, that unlisted hosts cannot reach it. *)
(* The other files of a run directory are written like its receipt; nobody *)
(* reads them, nor the manifest, whose readback is what counts here.       *)
(***************************************************************************)
CONSTANTS
    Runs,          \* invocations of the scripts
    Ids,           \* run ids; two invocations may be given the same one
    Kinds,         \* the scripts at hand
    NoId           \* no run id

ASSUME KindsAssumption == Kinds \subseteq {"triad", "live", "rollout", "lan"}
ASSUME NoIdAssumption == NoId \notin Ids

Verdicts == {"passed", "failed", "blocked"}
Files == {"none", "torn"} \cup Verdicts
Assertions == {"exercised", "unreachable"}

(* A run receipt holds the assertions that held and what they come to. *)
NoReceipt == [status |-> "none", held |-> {}]
Torn == [status |-> "torn", held |-> {}]
Receipts == [status : Verdicts, held : SUBSET Assertions]

(* A synthesis names a run, its status, and what the run has proven. *)
Nothing == [id |-> NoId, says |-> "none", proven |-> {}]
Empty == [id |-> NoId, says |-> "empty", proven |-> {}]
Mixed == [id |-> NoId, says |-> "mixed", proven |-> {}]
Text == [id : Ids, says : Verdicts, proven : SUBSET Assertions]

(* What the LAN pilot's own probe found; "none" was asked for. *)
Probes == {"none", "proven", "reached", "inconclusive"}

VARIABLES
    dirs,       \* the run directories there are
    receipt,    \* receipt[k][id]: the run receipt
    negative,   \* negative[id]: the LAN pilot's own reachability receipt
    synthesis,  \* synthesis[k]
    pc,         \* where each invocation is
    kind, id,   \* what it runs, under which id
    supplied,   \* whether a reachability receipt was supplied and exists
    probe,      \* what its own probe found
    held,       \* its assertions that held
    hashed      \* the synthesis whose hash it took

evidence == <<dirs, receipt, negative, synthesis>>
asked == <<kind, id, supplied>>
vars == <<evidence, pc, asked, probe, held, hashed>>

Points == {"idle", "exercise", "negative", "negative_open", "receipt", "receipt_open",
           "synthesis", "synthesis_open", "hash", "readback"}
Over == Verdicts \cup {"over"}

TypeOK ==
    /\ dirs \subseteq Kinds \X Ids
    /\ receipt \in [Kinds -> [Ids -> Receipts \cup {NoReceipt, Torn}]]
    /\ negative \in [Ids -> Files]
    /\ synthesis \in [Kinds -> Text \cup {Nothing, Empty, Mixed}]
    /\ pc \in [Runs -> Points \cup Over]
    /\ kind \in [Runs -> Kinds]
    /\ id \in [Runs -> Ids]
    /\ supplied \in [Runs -> BOOLEAN]
    /\ probe \in [Runs -> Probes]
    /\ held \in [Runs -> SUBSET Assertions]
    /\ hashed \in [Runs -> Text \cup {Nothing, Empty, Mixed}]

-----------------------------------------------------------------------------
Goto(r, point) == pc' = [pc EXCEPT ![r] = point]

(* Faulty variant, for the checks of the checks: mkdir with exist_ok. *)
MakeAnyDir(r) ==
    /\ pc[r] = "idle"
    /\ dirs' = dirs \cup {<<kind[r], id[r]>>}
    /\ Goto(r, "exercise")
    /\ UNCHANGED <<receipt, negative, synthesis, asked, probe, held, hashed>>

(* The approval is there and the run directory is new. *)
MakeDir(r) ==
    /\ pc[r] = "idle"
    /\ <<kind[r], id[r]>> \notin dirs
    /\ dirs' = dirs \cup {<<kind[r], id[r]>>}
    /\ Goto(r, "exercise")
    /\ UNCHANGED <<receipt, negative, synthesis, asked, probe, held, hashed>>

(* Something is missing, or the directory is there; or, at any later point, *)
(* the script raises or is killed.                                          *)
Stops(r) ==
    /\ pc[r] \in Points
    /\ Goto(r, "over")
    /\ UNCHANGED <<evidence, asked, probe, held, hashed>>

(* The run and its assertions, for all but the LAN pilot. *)
Exercise(r) ==
    /\ pc[r] = "exercise" /\ kind[r] # "lan"
    /\ \E h \in SUBSET {"exercised"} : held' = [held EXCEPT ![r] = h]
    /\ Goto(r, "receipt")
    /\ UNCHANGED <<evidence, asked, probe, hashed>>

(* A proof is a probe that was refused, or a supplied receipt's existence. *)
NegativeProof(r, found) == found = "proven" \/ supplied[r]

ExerciseLan(r) ==
    /\ pc[r] = "exercise" /\ kind[r] = "lan"
    /\ \E h \in SUBSET {"exercised"}, found \in Probes :
          /\ probe' = [probe EXCEPT ![r] = found]
          /\ held' = [held EXCEPT ![r] = h \cup {a \in {"unreachable"} : NegativeProof(r, found)}]
          /\ Goto(r, IF found = "none" THEN "receipt" ELSE "negative")
    /\ UNCHANGED <<evidence, asked, hashed>>

(* What the assertions come to. *)
Status(r) ==
    IF kind[r] = "lan"
    THEN IF Assertions \subseteq held[r] THEN "passed" ELSE "blocked"
    ELSE IF "exercised" \in held[r] THEN "passed" ELSE "failed"

OpenNegative(r) ==
    /\ pc[r] = "negative"
    /\ negative' = [negative EXCEPT ![id[r]] = "torn"]
    /\ Goto(r, "negative_open")
    /\ UNCHANGED <<dirs, receipt, synthesis, asked, probe, held, hashed>>

(* faulty variant: the probe's own word for it *)
FillNegativeRaw(r) ==
    /\ pc[r] = "negative_open"
    /\ negative' = [negative EXCEPT ![id[r]] = probe[r]]
    /\ Goto(r, "receipt")
    /\ UNCHANGED <<dirs, receipt, synthesis, asked, probe, held, hashed>>

FillNegative(r) ==
    /\ pc[r] = "negative_open"
    /\ negative' = [negative EXCEPT ![id[r]] =
                        IF probe[r] = "proven" THEN "passed" ELSE "failed"]
    /\ Goto(r, "receipt")
    /\ UNCHANGED <<dirs, receipt, synthesis, asked, probe, held, hashed>>

OpenReceipt(r) ==
    /\ pc[r] = "receipt"
    /\ receipt' = [receipt EXCEPT ![kind[r]][id[r]] = Torn]
    /\ Goto(r, "receipt_open")
    /\ UNCHANGED <<dirs, negative, synthesis, asked, probe, held, hashed>>

(* faulty variant: the receipt is filled in when all else is done *)
FillReceiptLater(r) ==
    /\ pc[r] = "receipt_open"
    /\ Goto(r, "synthesis")
    /\ UNCHANGED <<evidence, asked, probe, held, hashed>>

FillReceipt(r) ==
    /\ pc[r] = "receipt_open"
    /\ receipt' = [receipt EXCEPT ![kind[r]][id[r]] = [status |-> Status(r), held |-> held[r]]]
    /\ Goto(r, "synthesis")
    /\ UNCHANGED <<dirs, negative, synthesis, asked, probe, held, hashed>>

OpenSynthesis(r) ==
    /\ pc[r] = "synthesis"
    /\ synthesis' = [synthesis EXCEPT ![kind[r]] = Empty]
    /\ Goto(r, "synthesis_open")
    /\ UNCHANGED <<dirs, receipt, negative, asked, probe, held, hashed>>

(* The triad's write_synthesis says "PASSED" whatever the status. *)
Says(r) == IF kind[r] = "triad" THEN "passed" ELSE Status(r)

(* What all of them list under "Proven" are constant lines, but for the LAN *)
(* pilot's, which says what its own probe found.                            *)
Proven(r) == {"exercised"} \cup {a \in {"unreachable"} : kind[r] = "lan" /\ probe[r] = "proven"}

(* Over what another run wrote since, the end of a longer text stays. *)
FillSynthesis(r) ==
    LET text == [id |-> id[r], says |-> Says(r), proven |-> Proven(r)]
    IN  /\ pc[r] = "synthesis_open"
        /\ \/ synthesis' = [synthesis EXCEPT ![kind[r]] = text]
           \/ /\ synthesis[kind[r]] # Empty
              /\ synthesis' = [synthesis EXCEPT ![kind[r]] = Mixed]
        /\ Goto(r, "hash")
        /\ UNCHANGED <<dirs, receipt, negative, asked, probe, held, hashed>>

(* artifact_entry: whatever the file holds by then *)
Hash(r) ==
    /\ pc[r] = "hash"
    /\ hashed' = [hashed EXCEPT ![r] = synthesis[kind[r]]]
    /\ Goto(r, "readback")
    /\ UNCHANGED <<evidence, asked, probe, held>>

(* faulty variant: the synthesis decides, if it is still what was hashed *)
ReadBackSays(r) ==
    /\ pc[r] = "readback"
    /\ LET text == synthesis[kind[r]]
       IN  Goto(r, IF text = hashed[r] /\ text \in Text THEN text.says ELSE "failed")
    /\ UNCHANGED <<evidence, asked, probe, held, hashed>>

(* write_manifest and the verdict: all is hashed again, and what differs *)
(* makes it a failure                                                    *)
ReadBack(r) ==
    /\ pc[r] = "readback"
    /\ Goto(r, IF synthesis[kind[r]] = hashed[r] THEN Status(r) ELSE "failed")
    /\ UNCHANGED <<evidence, asked, probe, held, hashed>>

Init ==
    /\ dirs = {}
    /\ receipt = [k \in Kinds |-> [i \in Ids |-> NoReceipt]]
    /\ negative = [i \in Ids |-> "none"]
    /\ synthesis = [k \in Kinds |-> Nothing]
    /\ pc = [r \in Runs |-> "idle"]
    /\ kind \in [Runs -> Kinds] /\ id \in [Runs -> Ids]
    /\ supplied \in [Runs -> BOOLEAN]
    /\ probe = [r \in Runs |-> "none"]
    /\ held = [r \in Runs |-> {}]
    /\ hashed = [r \in Runs |-> Nothing]

Run(r) ==
    \/ MakeDir(r) \/ Exercise(r) \/ ExerciseLan(r) \/ OpenNegative(r) \/ FillNegative(r)
    \/ OpenReceipt(r) \/ FillReceipt(r) \/ OpenSynthesis(r) \/ FillSynthesis(r)
    \/ Hash(r) \/ ReadBack(r) \/ Stops(r)

Next == \E r \in Runs : Run(r)

Spec == Init /\ [][Next]_vars
-----------------------------------------------------------------------------
(* Properties.                                                              *)

(* Whatever run a whole synthesis names, in whatever order runs wrote it    *)
(* and wherever they ended, the receipt of that run is complete, has the    *)
(* status that the synthesis gives it, and bears out what it says of the    *)
(* reachability and, if it says passed, all it lists as proven. (That a run *)
(* that did not pass is listed as proven all the same is not excluded: see  *)
(* SynthesisIsReceipted.)                                                   *)
StatusIsReceipted ==
    \A k \in Kinds : synthesis[k] \in Text =>
        LET text == synthesis[k]
            told == receipt[k][text.id]
        IN  /\ told \in Receipts /\ told.status = text.says
            /\ text.proven \subseteq told.held \cup {"exercised"}
            /\ text.says = "passed" => text.proven \subseteq told.held

(* run_m17b_triad_pilot.py:389 "Status: **PASSED**", 396 "## Proven": what  *)
(* a synthesis says of a run is what the receipt of that run says.          *)
SynthesisIsReceipted ==
    \A k \in Kinds : synthesis[k] \in Text =>
        LET told == receipt[k][synthesis[k].id]
        IN  told.status = synthesis[k].says /\ synthesis[k].proven \subseteq told.held

(* A verdict of "passed" has a passed run receipt under its id, written by  *)
(* no other invocation, and no LAN pilot passes without a supplied receipt  *)
(* or a complete negative receipt of its own.                               *)
PassedIsBacked ==
    \A r \in Runs : pc[r] = "passed" =>
        /\ receipt[kind[r]][id[r]].status = "passed"
        /\ \A q \in Runs \ {r} : <<kind[q], id[q]>> = <<kind[r], id[r]>> =>
               pc[q] \in {"idle", "over"}
        /\ kind[r] = "lan" /\ ~supplied[r] => negative[id[r]] = "passed"

(* A complete receipt, of a run or of a LAN pilot's reachability, is never  *)
(* touched again, by whichever invocation is given the same run id.         *)
ReceiptsAreFinal ==
    [][/\ \A k \in Kinds, i \in Ids :
             receipt[k][i] \in Receipts => receipt'[k][i] = receipt[k][i]
       /\ \A i \in Ids : negative[i] \in Verdicts => negative'[i] = negative[i]]_vars

(* "If the M17e negative probe is omitted or inconclusive, M17e writes a    *)
(* blocked manifest naming the missing negative reachability proof."        *)
(* (README.md:127)                                                          *)
InconclusiveIsBlocked ==
    \A r \in Runs : kind[r] = "lan" /\ probe[r] = "inconclusive" => pc[r] # "passed"
================================================================================
