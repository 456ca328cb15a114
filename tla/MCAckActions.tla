----------------------------- MODULE MCAckActions -----------------------------
(* Three messages, two of them in the chunk; the UIDs are interchangeable within each part. *)
EXTENDS AckActions, TLC
CONSTANTS u1, u2, u3
MCUids == {u1, u2, u3}
MCChunk == {u1, u2}
Symmetry == Permutations(MCChunk)
=============================================================================
