-------------------------------- MODULE Bindings --------------------------------
(***************************************************************************)
(* Who may ask an application built by build_app for what (app.py), and    *)
(* what it answers: the peer authorization middleware stands before the    *)
(* routes of the HTTP bindings, none stands before the gRPC handler.       *)
(*                                                                         *)
(* A request is a record of its path, the token and the peer id that its   *)
(* headers carry; an application is a record of build_app's arguments. A   *)
(* token is NoToken where the code has None, or the header is missing.     *)
(***************************************************************************)

NoToken == "no token"

PublicPaths == {"agent-card", "extendedAgentCard"}

(* faulty variant: a peer that knows the token is not asked who it is *)
AdmittedByToken(app, req) ==
    \/ ~ app.require_auth
    \/ req.path \in PublicPaths
    \/ app.test_token # NoToken /\ req.token = app.test_token

(* TestEphemeralPeerAuthMiddleware: what it lets through; it answers 403 to the rest *)
Admitted(app, req) ==
    \/ ~ app.require_auth
    \/ req.path \in PublicPaths
    \/ /\ app.test_token # NoToken
       /\ req.token = app.test_token
       /\ req.peer \in app.allowed_peer_ids

(* The requests by which the pilots exercise an application. *)
Requests(token, peer) ==
    [card    |-> [path |-> "agent-card", token |-> NoToken, peer |-> "nobody"],
     jsonrpc |-> [path |-> "/", token |-> token, peer |-> peer],
     rest    |-> [path |-> "message:send", token |-> token, peer |-> peer],
     denied  |-> [path |-> "/", token |-> token, peer |-> "unauthorized"]]

(* the ones by which a peer sends a task *)
HttpSends == {"jsonrpc", "rest", "denied"}

(* Whether an application's answer is the one a pilot asserts: 200 and a    *)
(* completed task to the peer it allows, 403 to the one it does not.        *)
AnswersAsAsserted(app, kind, req) == Admitted(app, req) <=> kind # "denied"
=================================================================================
