-------------------------- MODULE MCSessionInputs --------------------------
(***************************************************************************)
(* Instances of SessionInputs for TLC.  Keys are interchangeable: no       *)
(* action compares them otherwise than for equality.                       *)
(***************************************************************************)
EXTENDS SessionInputs, TLC

CONSTANTS k1, k2

MCKeys == {k1, k2}
KeySymmetry == Permutations(MCKeys)
=============================================================================
