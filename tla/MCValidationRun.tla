---------------------------- MODULE MCValidationRun ----------------------------
(* A small instance of ValidationRun: of two validators, one writes failure   *)
(* receipts; a roster file holds a good roster, a bad one or is not there,   *)
(* and the hash of any of them may be taken before another one is parsed.     *)
EXTENDS ValidationRun, PilotRoster

TwoValidators == {"v1", "v2"}
OneServer == {"s1"}

(* Nothing tells one roster path from another.                              *)
PathSymmetry == Permutations(Paths)

(* What the triad pilot writes for the six ports it was given. *)
Triad == DefaultRoster([i \in 1..6 |-> i])

(* One sidecar's gRPC server would take another's HTTP port: the bad roster *)
(* of the run.                                                              *)
Crossed == [Triad EXCEPT !.instances[1].grpc_port = 2]

RosterOf == [c \in {"good", "bad"} |-> IF c = "good" THEN Triad ELSE Crossed]

(* Faults that negative_validation_evidence does not try, each the only one: *)
(* of its own, the port that two rows share also belies a base URL.          *)
Faults ==
    {[Triad EXCEPT !.instances[2].http_port = 1, !.instances[2].base_url.port = 1],
     [Triad EXCEPT !.instances[1].grpc_port = NoPort],
     [Triad EXCEPT !.instances[1].receipt_root = ReceiptBase],
     [Triad EXCEPT !.instances[1].receipt_root = @ \o <<"deeper">>, !.instances[1].symlinked = TRUE],
     [Triad EXCEPT !.instances[3].id = "agent:test:unauthorized"],
     [Triad EXCEPT !.instances = Append(@, @[1])]}

ASSUME RosterAssumption ==
    /\ \A ports \in Reserved(0..6) : Accepted(DefaultRoster(ports))
    /\ \A roster \in Variants(Triad) \cup Faults : ~ Accepted(roster)
================================================================================
