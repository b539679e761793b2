------------------------------ MODULE MCTriadPilot ------------------------------
(* Sidecars with all bindings, and processes that can serve a card and       *)
(* refuse a peer.                                                            *)
EXTENDS TriadPilot

Everyone == 1 .. N
CardAndRefusal == {"card", "denied"}
=================================================================================
