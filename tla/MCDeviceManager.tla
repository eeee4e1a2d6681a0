-------------------------- MODULE MCDeviceManager --------------------------
(* Instances of DeviceManager for TLC.                                     *)
EXTENDS DeviceManager, TLC

CONSTANTS h1, h2

\* The goroutines serving frames are interchangeable.
Symmetry == Permutations(Handlers)
=============================================================================
