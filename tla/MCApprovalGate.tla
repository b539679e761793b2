--------------------------- MODULE MCApprovalGate ---------------------------
(* Small instances of ApprovalGate.                                         *)
EXTENDS ApprovalGate

(* The file that the one approval id belongs in, and a copy beside it.      *)
MCCanonicalPath == [i \in Ids |-> "canonical"]

Approval(op, inst, from, to, sound) ==
    [id |-> "i1", operation |-> op, instance |-> inst,
     issued_at |-> from, expires_at |-> to, sound |-> sound]

CommandLine(op, inst, path) ==
    [operation |-> op, instance |-> inst, live_enabled |-> TRUE, yes |-> TRUE,
     env |-> TRUE, path |-> path]

(* Good, expired, over-long and malformed approvals, at canonical and copied *)
(* paths, for commands that race for them, with and without their flags.     *)
RuleReceipts == {Approval("task-smoke", "local", 1, 2, TRUE),
                 Approval("task-smoke", "local", 0, 3, TRUE),
                 Approval("task-smoke", "work", 0, 2, TRUE),
                 Approval("serve-live", "local", 0, 2, FALSE)}
RuleRequests == {CommandLine("task-smoke", "local", "canonical"),
                 CommandLine("task-smoke", "local", "copy"),
                 CommandLine("task-smoke", "work", "canonical"),
                 CommandLine("serve-live", "local", "canonical"),
                 [CommandLine("task-smoke", "local", "canonical")
                      EXCEPT !.yes = FALSE],
                 CommandLine("serve-synthetic", "work", NoPath)}
=============================================================================
