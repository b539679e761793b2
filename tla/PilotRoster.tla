------------------------------ MODULE PilotRoster ------------------------------
(***************************************************************************)
(* The roster that the triad pilot writes for the six ports it reserved    *)
(* (run_m17b_triad_pilot.py, default_config_data), and the faults it then  *)
(* puts into a copy of it, one at a time, to show that each is denied      *)
(* (negative_validation_evidence). Slugs stand for the directories named   *)
(* after them.                                                             *)
(***************************************************************************)
EXTENDS Roster

Row(id, slug, http_port, grpc_port, peers, boundary) ==
    [id |-> id, status |-> "synthetic", host_inventory_status |-> "not_checked", live_execution_enabled |-> FALSE,
     host |-> Loopback, http_port |-> http_port, grpc_port |-> grpc_port,
     base_url |-> [host |-> Loopback, port |-> http_port],
     jsonrpc |-> "required", rest |-> "required", grpc |-> "required", auth_mode |-> "test_ephemeral", key_env |-> "null",
     allowed_peer_ids |-> peers, receipt_root |-> <<"receipts", slug>>, symlinked |-> FALSE,
     work_boundary |-> boundary]

(* ports[1..3] are for HTTP, ports[4..6] for gRPC *)
Rows(ports) ==
    LET wsl == "agent:local:hermes-blinky-wsl"  windows == "agent:local:hermes-blinky-windows"
        work == "agent:work:hermes-work"
    IN  << Row(wsl, "local-hermes-blinky-wsl", ports[1], ports[4], {windows, work}, "local_only"),
           Row(windows, "local-hermes-blinky-windows", ports[2], ports[5], {wsl, work}, "local_only"),
           Row(work, "work-hermes-work", ports[3], ports[6], {wsl, windows}, "work_synthetic_only") >>

DefaultRoster(ports) ==
    [typed |-> TRUE, secret_like |-> FALSE, schema_version |-> 1, config_status |-> "validated",
     receipt_base |-> ReceiptBase, symlinked |-> FALSE, instances |-> Rows(ports)]

(* "a token-shaped value" is what the scan for secrets finds in the eighth *)
Variants(roster) ==
    {[roster EXCEPT !.instances[1].host = host] : host \in {"0.0.0.0", "::", "::1", "192.168.1.55"}} \cup
    {[roster EXCEPT !.instances[2].http_port = roster.instances[1].http_port],
     [roster EXCEPT !.instances[1].receipt_root = <<"tmp", "hermes-a2a-outside-receipts">>],
     [roster EXCEPT !.instances[1].auth_mode = "none"],
     [roster EXCEPT !.secret_like = TRUE],
     [roster EXCEPT !.instances[1].live_execution_enabled = TRUE]}

(* What the operating system may reserve: six ports, none of them twice. *)
Reserved(port) ==
    {ports \in [1..6 -> port \ {NoPort}] : \A i, j \in 1..6 : ports[i] = ports[j] => i = j}
================================================================================
