------------------------------ MODULE MCSoleServer ------------------------------
(* All four programs, and processes that can serve a card and refuse a peer. *)
EXTENDS SoleServer

EveryHolder == {"service", "service with gRPC", "live pilot", "LAN pilot"}
CardAndRefusal == {"card", "denied"}
=================================================================================
