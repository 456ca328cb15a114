--------------------------- MODULE MCImapEmailIn ----------------------------
(* Instances of ImapEmailIn for TLC.                                       *)
EXTENDS ImapEmailIn

CONSTANTS r1, r2
=============================================================================
