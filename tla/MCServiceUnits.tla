---------------------------- MODULE MCServiceUnits ----------------------------
(* Two installers: a rollout of both units, and the plugin's of the one unit *)
(* it was asked for, the second.                                             *)
EXTENDS ServiceUnits, TLC

CONSTANTS rollout, plugin

MCScope == (rollout :> {1, 2}) @@ (plugin :> {2})
===============================================================================
