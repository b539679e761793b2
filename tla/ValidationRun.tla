----------------------------- MODULE ValidationRun -----------------------------
(***************************************************************************)
(* The validation receipt of one run id (config.py): processes that        *)
(* validate a roster and write its receipt, processes that load a roster   *)
(* to serve it and require the receipt, and an editor that changes the     *)
(* roster between any two of their steps. Receipts are written in place,   *)
(* by `python -m hermes_a2a.config validate` and by `hermes a2a            *)
(* validate-config --write-receipt`; any process may die at any step.      *)
(***************************************************************************)
EXTENDS Roster

CONSTANTS
    Validators,    \* processes that validate the roster and write the receipt
    FailureWriters,\* those that also write a receipt of a failed validation
    Servers,       \* processes that serve the roster
    Paths,         \* roster files a process may be given with --config
    Contents,      \* what a roster file can hold; no two have the same sha256
    WellFormed,    \* those that are YAML
    Says,          \* Says[c]: the roster that a well-formed content is
    Dirs,          \* directories a receipt may be written to (--output)
    RunDir,        \* the run id's own, where a server looks
    NoFile         \* the absence of a file, of a read content

Procs == Validators \cup Servers

ASSUME ProcsAssumption == FailureWriters \subseteq Validators /\ Validators \cap Servers = {}
ASSUME ContentsAssumption == WellFormed \subseteq Contents /\ NoFile \notin Contents
ASSUME DirsAssumption == RunDir \in Dirs

(* Those that parse_instances_config accepts for this run id. *)
Valid == {c \in WellFormed : Accepted(Says[c])}

(* A receipt says that the content with a sha passed, or that some did not. *)
Passed == [status : {"passed"}, path : Paths, sha : Contents]
Failed == [status : {"failed"}, path : Paths, sha : {NoFile}]
NotJson == [status |-> "not_json", path |-> NoFile, sha |-> NoFile]
Absent == [status |-> "absent", path |-> NoFile, sha |-> NoFile]

VARIABLES
    file,      \* file[f]: the roster at path f
    dir,       \* whether each directory exists
    receipt,   \* receipt[d]: d/validation-receipt.json
    pc,        \* where each process is
    path,      \* the roster path it was given
    into,      \* the directory its receipt goes to
    sha,       \* source_sha256: the content it hashed
    read       \* the content it parsed

vars == <<file, dir, receipt, pc, path, into, sha, read>>

Points == {"idle", "hashed", "parsed", "invalid", "made", "opened", "marking", "marked",
           "passed", "failed", "raised", "refused", "bound", "dead"}

TypeOK ==
    /\ file \in [Paths -> Contents \cup {NoFile}]
    /\ dir \in [Dirs -> BOOLEAN]
    /\ receipt \in [Dirs -> Passed \cup Failed \cup {NotJson, Absent}]
    /\ pc \in [Procs -> Points]
    /\ path \in [Procs -> Paths]
    /\ into \in [Procs -> Dirs]
    /\ sha \in [Procs -> Contents \cup {NoFile}]
    /\ read \in [Procs -> Contents \cup {NoFile}]

-----------------------------------------------------------------------------
(* Loading a roster: validators and servers alike.                          *)

Goto(p, point) == pc' = [pc EXCEPT ![p] = point]

(* sha256_file: the roster is read a first time *)
Hash(p) ==
    /\ pc[p] = "idle"
    /\ file[path[p]] # NoFile
    /\ sha' = [sha EXCEPT ![p] = file[path[p]]]
    /\ Goto(p, "hashed")
    /\ UNCHANGED <<file, dir, receipt, path, into, read>>

NothingToHash(p) ==
    /\ pc[p] = "idle"
    /\ file[path[p]] = NoFile
    /\ Goto(p, "invalid")
    /\ UNCHANGED <<file, dir, receipt, path, into, sha, read>>

(* _load_yaml: it is read a second time, and parsed *)
Parse(p) ==
    /\ pc[p] = "hashed"
    /\ file[path[p]] # NoFile
    /\ read' = [read EXCEPT ![p] = file[path[p]]]
    /\ Goto(p, CASE file[path[p]] \in Valid -> "parsed"
                 [] file[path[p]] \in WellFormed \ Valid -> "invalid"
                 [] OTHER -> "raised")
    /\ UNCHANGED <<file, dir, receipt, path, into, sha>>

(* it is gone by now, which only the operating system has an error for *)
NothingToParse(p) ==
    /\ pc[p] = "hashed"
    /\ file[path[p]] = NoFile
    /\ Goto(p, "raised")
    /\ UNCHANGED <<file, dir, receipt, path, into, sha, read>>

-----------------------------------------------------------------------------
(* Validators.                                                              *)

(* Faulty variant, for the checks of the checks: any directory will do. *)
MakeAnyDir(v) ==
    /\ pc[v] = "parsed" /\ v \in Validators
    /\ dir' = [dir EXCEPT ![into[v]] = TRUE]
    /\ Goto(v, "made")
    /\ UNCHANGED <<file, receipt, path, into, sha, read>>

(* The receipt's directory must be new: whoever makes it goes on. *)
MakeDir(v) ==
    /\ pc[v] = "parsed" /\ v \in Validators
    /\ ~dir[into[v]]
    /\ dir' = [dir EXCEPT ![into[v]] = TRUE]
    /\ Goto(v, "made")
    /\ UNCHANGED <<file, receipt, path, into, sha, read>>

DirExists(v) ==
    /\ pc[v] = "parsed" /\ v \in Validators
    /\ dir[into[v]]
    /\ Goto(v, "raised")
    /\ UNCHANGED <<file, dir, receipt, path, into, sha, read>>

(* a failure receipt takes the directory as it finds it, or is not written *)
MarkFailure(v) ==
    /\ pc[v] = "invalid" /\ v \in FailureWriters
    /\ dir' = [dir EXCEPT ![into[v]] = TRUE]
    /\ Goto(v, "marking")
    /\ UNCHANGED <<file, receipt, path, into, sha, read>>

FailSilently(v) ==
    /\ pc[v] = "invalid" /\ v \in Validators \ FailureWriters
    /\ Goto(v, "failed")
    /\ UNCHANGED <<file, dir, receipt, path, into, sha, read>>

(* write_text truncates the file, then writes it *)
OpenReceipt(v) ==
    /\ pc[v] \in {"made", "marking"}
    /\ receipt' = [receipt EXCEPT ![into[v]] = NotJson]
    /\ Goto(v, IF pc[v] = "made" THEN "opened" ELSE "marked")
    /\ UNCHANGED <<file, dir, path, into, sha, read>>

(* what is left if another process wrote there since: the later one's text, *)
(* or with the end of a longer one behind it                                *)
Written(r, d) == {r} \cup (IF receipt[d] = NotJson THEN {} ELSE {NotJson})

WritePassed(v) ==
    /\ pc[v] = "opened"
    /\ \E r \in Written([status |-> "passed", path |-> path[v], sha |-> sha[v]], into[v]) :
            receipt' = [receipt EXCEPT ![into[v]] = r]
    /\ Goto(v, "passed")
    /\ UNCHANGED <<file, dir, path, into, sha, read>>

(* faulty variant: a failure receipt names the sha that failed *)
WriteFailedSha(v) ==
    /\ pc[v] = "marked"
    /\ receipt' = [receipt EXCEPT ![into[v]] =
                      [status |-> "failed", path |-> path[v], sha |-> sha[v]]]
    /\ Goto(v, "failed")
    /\ UNCHANGED <<file, dir, path, into, sha, read>>

WriteFailed(v) ==
    /\ pc[v] = "marked"
    /\ \E r \in Written([status |-> "failed", path |-> path[v], sha |-> NoFile], into[v]) :
            receipt' = [receipt EXCEPT ![into[v]] = r]
    /\ Goto(v, "failed")
    /\ UNCHANGED <<file, dir, path, into, sha, read>>

-----------------------------------------------------------------------------
(* Servers.                                                                 *)

(* faulty variant: the receipt of any roster file will do *)
AcceptsAnyPath(s) == receipt[RunDir].status = "passed" /\ receipt[RunDir].sha = sha[s]

(* _validate_existing_receipt *)
Accepts(s) ==
    /\ receipt[RunDir].status = "passed"
    /\ receipt[RunDir].sha = sha[s]
    /\ receipt[RunDir].path = path[s]

Bind(s) ==
    /\ pc[s] = "parsed" /\ s \in Servers
    /\ Accepts(s)
    /\ Goto(s, "bound")
    /\ UNCHANGED <<file, dir, receipt, path, into, sha, read>>

Refuse(s) ==
    /\ s \in Servers
    /\ pc[s] = "invalid" \/ (pc[s] = "parsed" /\ ~Accepts(s))
    /\ Goto(s, "refused")
    /\ UNCHANGED <<file, dir, receipt, path, into, sha, read>>

-----------------------------------------------------------------------------
(* The editor, and death between two steps; a write or a directory that the *)
(* operating system refuses ends a process in the same way.                 *)

Save(f, c) ==
    /\ file' = [file EXCEPT ![f] = c]
    /\ UNCHANGED <<dir, receipt, pc, path, into, sha, read>>

Die(p) ==
    /\ pc[p] \in {"hashed", "parsed", "made", "opened", "marking", "marked"}
    /\ Goto(p, "dead")
    /\ UNCHANGED <<file, dir, receipt, path, into, sha, read>>

Init ==
    /\ file \in [Paths -> Contents \cup {NoFile}]
    /\ dir = [d \in Dirs |-> FALSE]
    /\ receipt = [d \in Dirs |-> Absent]
    /\ pc = [p \in Procs |-> "idle"]
    /\ path \in [Procs -> Paths]
    /\ into \in [Procs -> Dirs]
    /\ \A s \in Servers : into[s] = RunDir
    /\ sha = [p \in Procs |-> NoFile]
    /\ read = [p \in Procs |-> NoFile]

Load(p) == Hash(p) \/ NothingToHash(p) \/ Parse(p) \/ NothingToParse(p)

Validate(v) ==
    \/ MakeDir(v) \/ DirExists(v) \/ MarkFailure(v) \/ FailSilently(v)
    \/ OpenReceipt(v) \/ WritePassed(v) \/ WriteFailed(v)

Serve(s) == Bind(s) \/ Refuse(s)

Next ==
    \/ \E p \in Procs : Load(p) \/ Die(p)
    \/ \E v \in Validators : Validate(v)
    \/ \E s \in Servers : Serve(s)
    \/ \E f \in Paths, c \in Contents \cup {NoFile} : Save(f, c)

Spec == Init /\ [][Next]_vars
-----------------------------------------------------------------------------
(* Properties.                                                              *)

Writing(d) == \E v \in Validators : into[v] = d /\ pc[v] \in {"made", "opened"}

(* However validators race, at most one of them ever reports that it passed *)
(* with a receipt in a given directory: making the directory decides.       *)
OnlyOnePasses ==
    \A v, w \in Validators :
        pc[v] = "passed" /\ pc[w] = "passed" /\ into[v] = into[w] => v = w

(* A directory that nobody is writing a passed receipt into and that holds  *)
(* none never holds one again: a run id that failed, or whose validator     *)
(* died, is used up.                                                        *)
UsedUpStaysUsedUp ==
    [][\A d \in Dirs :
          dir[d] /\ ~Writing(d) /\ receipt[d].status # "passed"
              => ~Writing(d)' /\ receipt'[d].status # "passed"]_vars

(* Nothing is bound but what parsed as valid, under a receipt that a        *)
(* validator which found a valid roster at that very path wrote for the run *)
(* and for the sha the server computed, however receipts were overwritten,  *)
(* torn or mixed meanwhile.                                                 *)
BoundUnderReceipt ==
    \A s \in Servers : pc[s] = "bound" =>
        /\ read[s] \in Valid
        /\ \E v \in Validators :
               /\ pc[v] = "passed" /\ into[v] = RunDir /\ read[v] \in Valid
               /\ path[v] = path[s] /\ sha[v] = sha[s]

(* All the servers of a run bind the same roster file with the same sha.    *)
BoundServersAgree ==
    \A s, z \in Servers :
        pc[s] = "bound" /\ pc[z] = "bound" => path[s] = path[z] /\ sha[s] = sha[z]

(* What a server binds is a roster that its runtimes can serve as they take *)
(* for granted: the rules that parse_instances_config checks one by one are *)
(* enough, and the roster they were checked on is the one that is bound.    *)
BoundIsServable ==
    \A s \in Servers : pc[s] = "bound" => Servable(Says[read[s]])

(* A run id keeps the promise of OneRoster: a directory is decided by the    *)
(* validator that passed into it, and a server binds what it decided for the *)
(* run, whatever becomes of the receipt that tells it so.                    *)
DecidedRosters == [d \in Dirs |->
    {[path |-> path[v], sha |-> sha[v]] :
        v \in {w \in Validators : pc[w] = "passed" /\ into[w] = d}}]
BoundRosters ==
    {[server |-> s, path |-> path[s], sha |-> sha[s], content |-> read[s]] :
        s \in {z \in Servers : pc[z] = "bound"}}

Promise == INSTANCE OneRoster WITH decided <- DecidedRosters, bound <- BoundRosters

ImplementsOneRoster == Promise!Spec
================================================================================
