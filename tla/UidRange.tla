------------------------------ MODULE UidRange ------------------------------
(***************************************************************************)
(* lib/uid-range.js: how a list of UIDs becomes the UID sets of IMAP        *)
(* commands.  chunkUids cuts the sorted list into chunks and compressUids   *)
(* writes each chunk as ranges; the two loops are one state machine here,   *)
(* one action per turn, so that what they compute can be stated as an       *)
(* invariant of their loops.  validateRange of lib/imap-delete.js is the    *)
(* receiver of the result.                                                  *)
(*                                                                          *)
(* A range is a record instead of the text "first:last", and a value that   *)
(* Number() does not turn into a safe integer is 0.                         *)
(***************************************************************************)
EXTENDS Integers, Sequences, FiniteSets

CONSTANTS
  Inputs,         \* lists of numbers the callers pass
  MaxPerChunk,    \* their maxUidsPerChunk
  MaxUid,         \* MAX_UID
  MaxDeleteUids   \* MAX_DELETE_UIDS

ASSUME InputAssumption == Inputs \subseteq Seq(Int)
ASSUME LimitAssumption == MaxPerChunk \in Int /\ MaxUid \in Nat /\ MaxDeleteUids \in Nat

VARIABLES
  uids,       \* the argument
  sorted,     \* normalizeUids(uids)
  i,          \* index of the chunk's first UID in sorted
  j,          \* index of the UID compressUids takes next
  start,      \* of the open range, 0: null
  previous,   \* last UID of the open range
  parts,      \* the chunk's closed ranges
  ranges      \* the chunks that are finished

vars == <<uids, sorted, i, j, start, previous, parts, ranges>>

Values(s) == {s[k] : k \in 1..Len(s)}

Valid(list) == {u \in Values(list) : u > 0}

Increasing(s) == \A a, b \in 1..Len(s) : a < b => s[a] < s[b]

\* normalizeUids: the positive integers of the list, each once, in order.
Normalized(list) ==
  {s \in [1..Cardinality(Valid(list)) -> Valid(list)] : Increasing(s) /\ Values(s) = Valid(list)}

Limit == IF MaxPerChunk > 1 THEN MaxPerChunk ELSE 1

Init ==
  /\ uids \in Inputs /\ sorted \in Normalized(uids)
  /\ i = 1 /\ j = 1
  /\ start = 0 /\ previous = 0
  /\ parts = <<>> /\ ranges = <<>>

\* Mutant: a chunk takes one UID of the next one along.
ChunkEnd_Wide == IF i + Limit > Len(sorted) THEN Len(sorted) ELSE i + Limit

\* sorted.slice(i, i + limit)
ChunkEnd == IF i + Limit - 1 > Len(sorted) THEN Len(sorted) ELSE i + Limit - 1

Span(a, b) == [first |-> a, last |-> b]

\* A turn of the loop of compressUids.
Open ==
  /\ j <= ChunkEnd /\ start = 0
  /\ start' = sorted[j] /\ previous' = sorted[j] /\ j' = j + 1
  /\ UNCHANGED <<uids, sorted, i, parts, ranges>>

Extend ==
  /\ j <= ChunkEnd /\ start # 0 /\ sorted[j] = previous + 1
  /\ previous' = sorted[j] /\ j' = j + 1
  /\ UNCHANGED <<uids, sorted, i, start, parts, ranges>>

\* Mutant: the new range begins after the UID that did not fit.
Split_Skips ==
  /\ j <= ChunkEnd /\ start # 0 /\ sorted[j] # previous + 1
  /\ parts' = Append(parts, Span(start, previous))
  /\ start' = 0 /\ previous' = sorted[j] /\ j' = j + 1
  /\ UNCHANGED <<uids, sorted, i, ranges>>

Split ==
  /\ j <= ChunkEnd /\ start # 0 /\ sorted[j] # previous + 1
  /\ parts' = Append(parts, Span(start, previous))
  /\ start' = sorted[j] /\ previous' = sorted[j] /\ j' = j + 1
  /\ UNCHANGED <<uids, sorted, i, ranges>>

\* The end of compressUids, and the next turn of the loop of chunkUids.
Finish ==
  /\ i <= Len(sorted) /\ j > ChunkEnd
  /\ ranges' = Append(ranges, Append(parts, Span(start, previous)))
  /\ parts' = <<>> /\ start' = 0 /\ previous' = 0
  /\ i' = i + Limit /\ j' = i + Limit
  /\ UNCHANGED <<uids, sorted>>

Next == Open \/ Extend \/ Split \/ Finish

Spec == Init /\ [][Next]_vars /\ WF_vars(Next)

-----------------------------------------------------------------------------
(* What is promised.                                                        *)

Covered(rs) == UNION {r.first..r.last : r \in Values(rs)}

\* The UIDs a finished chunk stands for, and those of the chunk in work.
Finished == UNION {Covered(c) : c \in Values(ranges)}
InWork == Covered(parts) \union (IF start = 0 THEN {} ELSE start..previous)

\* Neighbours in a list of ranges leave a gap, so the list is the shortest one.
Canonical(rs) ==
  /\ \A k \in 1..Len(rs) : rs[k].first <= rs[k].last
  /\ \A k, l \in 1..Len(rs) : k < l => rs[k].last + 1 < rs[l].first

\* At every turn the ranges written so far stand for exactly the UIDs taken so far, no more and no
\* less, and those of a chunk are canonical; at the end they stand for the list.
RangesExact ==
  /\ Finished \union InWork = {sorted[k] : k \in {m \in 1..Len(sorted) : m < j}}
  /\ \A c \in Values(ranges) : Canonical(c)
  /\ i > Len(sorted) => Finished = Valid(uids)

\* validateRange; a UID counts once for every range it is in.
Count(rs) == Cardinality(UNION {{k} \X (rs[k].first..rs[k].last) : k \in 1..Len(rs)})
ValidRange(rs) ==
  /\ rs # <<>>
  /\ \A r \in Values(rs) : r.first >= 1 /\ r.first <= r.last /\ r.last <= MaxUid
  /\ Count(rs) <= MaxDeleteUids

\* The delete helper accepts every chunk, if the callers' limit and UIDs are in its bounds; and no
\* UID is in two chunks, so none is acted on twice.
ChunksDeletable ==
  /\ (Limit <= MaxDeleteUids /\ \A u \in Valid(uids) : u <= MaxUid) =>
       \A c \in Values(ranges) : ValidRange(c)
  /\ \A k, l \in 1..Len(ranges) : k # l => Covered(ranges[k]) \intersect Covered(ranges[l]) = {}
=============================================================================
