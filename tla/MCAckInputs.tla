----------------------------- MODULE MCAckInputs -----------------------------
(* The pure helpers between an ACK message and the commands, over bounded   *)
(* inputs: lists of UIDs with empty flag requests, then flag requests with  *)
(* an empty list.                                                           *)
EXTENDS UidRange, AckPlan, SequencesExt

CONSTANTS none

MCInputs == SeqOf(0..6, 4) \union {<<1, 2, 3, 4, 5, 6>>, <<6, 2, 3, 3, 1, 5, 4>>}

\* Spellings of one system flag, of one keyword, and of names that are refused.
MCSpellings ==
  [name : {"seen", "work"}, escaped : {FALSE}, capital : BOOLEAN]
    \union [name : {"seen", "work", "recent"}, escaped : {TRUE}, capital : {FALSE}]
    \union [name : {"a b"}, escaped : {FALSE}, capital : {FALSE}]

MCRequests == Requests(SeqOf(MCSpellings, 2), SeqOf(MCSpellings, 1))

NoRequest == [from |-> "node", action |-> "flag", target |-> FALSE, seen |-> "ignore",
              add |-> <<>>, remove |-> <<>>]

MCInit ==
  /\ Init
  /\ request = NoRequest \/ (uids = <<>> /\ request \in MCRequests)

MCSpec == MCInit /\ [][Next /\ UNCHANGED request]_<<vars, request>>
=============================================================================
