----------------------------- MODULE MCSidecarGroup -----------------------------
(* The triad: three sidecars, one of them without gRPC.                      *)
EXTENDS SidecarGroup

Everyone == 1 .. 3
OddOnes == {1, 3}
=================================================================================
