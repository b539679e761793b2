--------------------------------- MODULE Roster ---------------------------------
(***************************************************************************)
(* What a roster says and when parse_instances_config (config.py) accepts  *)
(* it. A roster is what its YAML says after the conversions of _mapping,   *)
(* _string, _bool, _port, _enum and _path: whether they were content with  *)
(* every field is one flag, and so is what the scan for secrets found. A   *)
(* path is where it resolves to, as names below the run's directory, with  *)
(* a flag for symbolic links on its way.                                   *)
(***************************************************************************)
EXTENDS Naturals, Sequences, SequencesExt

(* The ids of the triad, and others that AGENT_ID_RE matches. *)
LocalIds == {"agent:local:hermes-blinky-wsl", "agent:local:hermes-blinky-windows"}
WorkIds == {"agent:work:hermes-work"}
ExpectedIds == LocalIds \cup WorkIds
AgentIds == ExpectedIds \cup {"agent:test:unauthorized"}

NoPort == 0
ReceiptBase == <<"receipts">>

Loopback == "127.0.0.1"
InForce == {"required", "enabled"}

(* what an instance serves, and to whom *)
ServesLocally(row) ==
    /\ row.host = Loopback
    /\ row.http_port # NoPort
    /\ row.base_url = [host |-> Loopback, port |-> row.http_port]
    /\ row.jsonrpc \in InForce /\ row.rest \in InForce /\ row.grpc \in InForce
    /\ row.grpc \in InForce => row.grpc_port # NoPort
    /\ row.allowed_peer_ids # {} /\ row.allowed_peer_ids \subseteq AgentIds
    /\ row.auth_mode = "test_ephemeral" /\ row.key_env = "null"

(* what it may claim to be *)
StaysSynthetic(row) ==
    /\ row.status \in {"synthetic", "verified_pending"}
    /\ row.host_inventory_status = "not_checked"
    /\ ~ row.live_execution_enabled
    /\ row.id \in WorkIds => row.work_boundary = "work_synthetic_only"
    /\ row.id \in LocalIds => row.work_boundary = "local_only"

(* where its receipts go *)
Contained(row) ==
    /\ row.receipt_root # ReceiptBase
    /\ IsPrefix(ReceiptBase, row.receipt_root)
    /\ ~ row.symlinked

(* The listeners of a roster: every row has an HTTP port, and may have one  *)
(* for gRPC.                                                                *)
PortAt(roster, l) ==
    IF l[1] = "http" THEN roster.instances[l[2]].http_port ELSE roster.instances[l[2]].grpc_port
Listeners(roster) ==
    {l \in {"http", "grpc"} \X DOMAIN roster.instances : PortAt(roster, l) # NoPort}

(* Faulty variant, for the checks of the checks: gRPC's are not counted. *)
DistinctHttpPorts(roster) ==
    \A i, j \in DOMAIN roster.instances :
        roster.instances[i].http_port = roster.instances[j].http_port => i = j

DistinctPorts(roster) ==
    \A l, m \in Listeners(roster) : PortAt(roster, l) = PortAt(roster, m) => l = m

(* No two rows have the same id, or receipts in the same directory. *)
DistinctRows(roster) ==
    \A i, j \in DOMAIN roster.instances : i # j =>
        /\ roster.instances[i].id # roster.instances[j].id
        /\ roster.instances[i].receipt_root # roster.instances[j].receipt_root

Accepted(roster) ==
    /\ roster.typed /\ ~ roster.secret_like
    /\ roster.schema_version = 1 /\ roster.config_status = "validated"
    /\ roster.receipt_base = ReceiptBase /\ ~ roster.symlinked
    /\ Len(roster.instances) = 3
    /\ {roster.instances[i].id : i \in DOMAIN roster.instances} = ExpectedIds
    /\ \A i \in DOMAIN roster.instances :
          /\ ServesLocally(roster.instances[i])
          /\ StaysSynthetic(roster.instances[i])
          /\ Contained(roster.instances[i])
    /\ DistinctRows(roster)
    /\ DistinctPorts(roster)

-----------------------------------------------------------------------------
(* What the runtimes of a group take for granted: an id names one of them,  *)
(* each has a port for HTTP and one for gRPC that no other listener of the  *)
(* group has, its card sends peers to its own, and its receipts are its own *)
(* and below the run's.                                                     *)
Servable(roster) ==
    LET rows == DOMAIN roster.instances
    IN  /\ \A id \in ExpectedIds : \E i \in rows :
              \A j \in rows : roster.instances[j].id = id <=> j = i
        /\ \A l \in {"http", "grpc"} \X rows :
              /\ l \in Listeners(roster)
              /\ \A m \in {"http", "grpc"} \X rows : PortAt(roster, l) = PortAt(roster, m) => l = m
        /\ \A i \in rows : roster.instances[i].base_url.port = roster.instances[i].http_port
        /\ \A i, j \in rows :
              /\ roster.instances[i].receipt_root # roster.receipt_base
              /\ IsPrefix(roster.receipt_base, roster.instances[i].receipt_root)
              /\ roster.instances[i].receipt_root = roster.instances[j].receipt_root => i = j
=================================================================================
