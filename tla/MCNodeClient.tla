---------------------------- MODULE MCNodeClient ----------------------------
(***************************************************************************)
(* The node client for TLC.  NodeClient_node.cfg gives the constants: two  *)
(* streams, so that a frame, a heartbeat or a lookup of the first can be   *)
(* under way while the second registers.                                   *)
(***************************************************************************)
EXTENDS NodeClient
=============================================================================
