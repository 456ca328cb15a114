-------------------------- MODULE MCConnectionCheck --------------------------
(* Instances of ConnectionCheck for TLC.                                   *)
EXTENDS ConnectionCheck, TLC

CONSTANTS in1, in2, ack1

\* The nodes of an account run the same status object.
Symmetry == Permutations(Nodes)
=============================================================================
