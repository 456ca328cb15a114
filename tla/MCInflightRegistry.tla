------------------------- MODULE MCInflightRegistry -------------------------
(* Instances of InflightRegistry for TLC.                                  *)
EXTENDS InflightRegistry, TLC

CONSTANTS k1, k2, k3, f1, f2, a1, a2

\* Two input nodes with different retry intervals on one queue.
RetryMixed == (f1 :> 1) @@ (f2 :> 2)

\* Messages and ACK items are interchangeable; input nodes and nonces are not.
Symmetry == Permutations(Keys) \union Permutations(Ackers)
=============================================================================
