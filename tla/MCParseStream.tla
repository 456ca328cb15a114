---------------------------- MODULE MCParseStream ----------------------------
(* Instances of ParseStream for TLC: every message of up to three parts.   *)
EXTENDS ParseStream

MCParts == [kind : {"text", "attachment"}, size : 1..2]
MCMessages == SeqOf(MCParts, 3)
=============================================================================
