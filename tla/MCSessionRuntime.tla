-------------------------- MODULE MCSessionRuntime --------------------------
(***************************************************************************)
(* Instances of SessionRuntime for TLC.                                    *)
(***************************************************************************)
EXTENDS SessionRuntime
=============================================================================
