---------------------------- MODULE MCArtifacts ----------------------------
(* A small instance of Artifacts. *)
EXTENDS Artifacts

CONSTANTS j1, j2
=============================================================================
