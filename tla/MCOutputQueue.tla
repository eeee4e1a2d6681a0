--------------------------- MODULE MCOutputQueue ---------------------------
(* OutputQueue for TLC: one run, chunks of one or two bytes.  Four chunks  *)
(* are enough for the queue to hold several, to empty and to fill again    *)
(* around a lost connection.                                               *)
EXTENDS OutputQueue, TLC

MCLens == {1, 2}
=============================================================================
