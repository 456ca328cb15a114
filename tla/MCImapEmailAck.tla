--------------------------- MODULE MCImapEmailAck ---------------------------
(* Instances of ImapEmailAck for TLC.                                      *)
EXTENDS ImapEmailAck, TLC

CONSTANTS x1, x2, i1, i2, i3, delete, move, noop

\* One node takes its ACKs one by one, the other in pairs.
MCBatchSize == [n \in Nodes |-> IF n = x1 THEN 2 ELSE 1]

\* ACK messages and IMAP plans are interchangeable; UIDs are ordered.
Symmetry == Permutations(Items) \union Permutations(Plans \ LocalPlans)
=============================================================================
