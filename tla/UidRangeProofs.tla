--------------------------- MODULE UidRangeProofs ---------------------------
(***************************************************************************)
(* The two loops of lib/uid-range.js write exactly the UIDs of their list,  *)
(* for every list and every chunk size.  The invariant that makes it        *)
(* inductive says how far the open range reaches: it ends at the UID taken  *)
(* last, and every closed range of the chunk ends before the open one       *)
(* begins, with a gap between them.                                         *)
(***************************************************************************)
EXTENDS UidRange, FiniteSetTheorems, TLAPS

SpanType == [first : Int, last : Int]

TypeInv ==
  /\ sorted \in Seq(Int) /\ Increasing(sorted) /\ Values(sorted) = Valid(uids)
  /\ \A k \in 1..Len(sorted) : sorted[k] > 0
  /\ i \in Nat \ {0} /\ j \in Nat /\ start \in Nat /\ previous \in Int
  /\ parts \in Seq(SpanType) /\ ranges \in Seq(Seq(SpanType))

\* Where the loops stand.
Position ==
  /\ i <= j
  /\ start = 0 => j = i /\ parts = <<>>
  /\ start # 0 => /\ i < j /\ j <= ChunkEnd + 1 /\ i <= Len(sorted)
                  /\ start <= previous /\ previous = sorted[j - 1]

Gaps ==
  /\ Canonical(parts)
  /\ start # 0 => \A k \in 1..Len(parts) : parts[k].last + 1 < start
  /\ \A c \in Values(ranges) : Canonical(c)

Taken(n) == {sorted[k] : k \in {m \in 1..Len(sorted) : m < n}}

Exact == Finished \union InWork = Taken(j)

IInv == TypeInv /\ Position /\ Gaps /\ Exact

\* The step takes the UID at j.
TakesNext == j \in 1..Len(sorted) /\ j' = j + 1 /\ i <= j /\ InWork' = InWork \union {sorted[j]}

\* The step closes a chunk.
ClosesChunk ==
  /\ i <= Len(sorted) /\ i \in Nat /\ i' = i + Limit /\ j' = i'
  /\ InWork' = {}
  /\ {m \in 1..Len(sorted) : m < j} = {m \in 1..Len(sorted) : m < i + Limit}
  /\ \E c \in Seq(SpanType) : c # <<>> /\ ranges' = Append(ranges, c) /\ Covered(c) = InWork

-----------------------------------------------------------------------------
LEMMA ValuesAppend ==
  ASSUME NEW S, NEW s \in Seq(S), NEW x \in S
  PROVE  Values(Append(s, x)) = Values(s) \union {x}
<1> DEFINE t == Append(s, x)
<1>1. t \in Seq(S) /\ Len(t) = Len(s) + 1 /\ Len(s) \in Nat
  OBVIOUS
<1>2. \A k \in 1..Len(s) : t[k] = s[k]
  OBVIOUS
<1>3. t[Len(s) + 1] = x
  OBVIOUS
<1>4. 1..Len(t) = (1..Len(s)) \union {Len(s) + 1}
  BY <1>1
<1> HIDE DEF t
<1> QED
  BY <1>1, <1>2, <1>3, <1>4 DEF Values, t

LEMMA CoveredAppend ==
  ASSUME NEW s \in Seq(SpanType), NEW r \in SpanType
  PROVE  Covered(Append(s, r)) = Covered(s) \union r.first..r.last
<1>1. Values(Append(s, r)) = Values(s) \union {r}
  BY ValuesAppend
<1> QED
  BY <1>1 DEF Covered

LEMMA EmptyCovered == Covered(<<>>) = {} /\ Values(<<>>) = {}
  BY DEF Covered, Values

\* A range may follow those that end before it with a gap.
LEMMA CanonicalAppend ==
  ASSUME NEW s \in Seq(SpanType), NEW r \in SpanType, Canonical(s),
         r.first <= r.last, \A k \in 1..Len(s) : s[k].last + 1 < r.first
  PROVE  Canonical(Append(s, r))
<1> DEFINE t == Append(s, r)
<1>1. Len(t) = Len(s) + 1 /\ Len(s) \in Nat
  OBVIOUS
<1>2. \A k \in 1..Len(s) : t[k] = s[k] /\ s[k] \in SpanType
  OBVIOUS
<1>3. t[Len(s) + 1] = r
  OBVIOUS
<1> HIDE DEF t
<1>4. ASSUME NEW k \in 1..Len(t) PROVE t[k].first <= t[k].last
  BY <1>1, <1>2, <1>3, <1>4 DEF Canonical
<1>5. ASSUME NEW k \in 1..Len(t), NEW l \in 1..Len(t), k < l PROVE t[k].last + 1 < t[l].first
  <2>1. k \in 1..Len(s)
    BY <1>1, <1>5
  <2>2. CASE l = Len(s) + 1
    BY <2>1, <2>2, <1>2, <1>3
  <2>3. CASE l # Len(s) + 1
    <3>1. l \in 1..Len(s)
      BY <1>1, <2>3
    <3> QED
      BY <3>1, <2>1, <1>2, <1>5 DEF Canonical
  <2> QED
    BY <2>2, <2>3
<1>6. Canonical(t)
  BY <1>4, <1>5 DEF Canonical
<1> QED
  BY <1>6 DEF t

LEMMA LimitFacts == Limit \in Nat \ {0}
  BY LimitAssumption DEF Limit

\* The next UID is larger than the last one.
LEMMA NextLarger ==
  ASSUME TypeInv, j \in 1..Len(sorted), j > 1
  PROVE  sorted[j - 1] < sorted[j] /\ sorted[j] \in Nat \ {0} /\ sorted[j - 1] \in Nat \ {0}
<1>1. j - 1 \in 1..Len(sorted) /\ j - 1 < j
  BY DEF TypeInv
<1>2. \A k \in 1..Len(sorted) : sorted[k] \in Nat \ {0}
  BY DEF TypeInv
<1>3. Increasing(sorted)
  BY DEF TypeInv
<1> QED
  BY <1>1, <1>2, <1>3 DEF Increasing

\* The list does not change; a step keeps the type of the rest.
LEMMA TypeStep ==
  ASSUME TypeInv, UNCHANGED <<uids, sorted>>,
         i' \in Nat \ {0}, j' \in Nat, start' \in Nat, previous' \in Int,
         parts' \in Seq(SpanType), ranges' \in Seq(Seq(SpanType))
  PROVE  TypeInv'
<1>1. sorted' = sorted /\ uids' = uids
  OBVIOUS
<1>2. Increasing(sorted)' /\ Values(sorted)' = Values(sorted) /\ Valid(uids)' = Valid(uids)
  BY <1>1 DEF TypeInv, Increasing, Values, Valid
<1> QED
  BY <1>1, <1>2 DEF TypeInv

LEMMA TakenNext ==
  ASSUME TypeInv, j \in 1..Len(sorted)
  PROVE  Taken(j + 1) = Taken(j) \union {sorted[j]}
<1> DEFINE N == Len(sorted)
<1>1. N \in Nat /\ j \in 1..N
  BY DEF TypeInv
<1> HIDE DEF N
<1>2. {m \in 1..N : m < j + 1} = {m \in 1..N : m < j} \union {j}
  BY <1>1
<1> QED
  BY <1>2 DEF Taken, N

LEMMA ChunkEndFacts ==
  ASSUME TypeInv, i <= Len(sorted)
  PROVE  /\ ChunkEnd \in i..Len(sorted)
         /\ ChunkEnd = i + Limit - 1 \/ (ChunkEnd = Len(sorted) /\ Len(sorted) < i + Limit - 1)
<1>1. Len(sorted) \in Nat /\ i \in Nat \ {0}
  BY DEF TypeInv
<1> QED
  BY <1>1, LimitFacts DEF ChunkEnd

-----------------------------------------------------------------------------
LEMMA InitIInv == Init => IInv
<1> SUFFICES ASSUME Init PROVE IInv
  OBVIOUS
<1> DEFINE V == Valid(uids)
<1>1. uids \in Seq(Int)
  BY InputAssumption DEF Init
<1>2. V \subseteq Nat \ {0}
  BY <1>1 DEF Valid, Values
<1>3. \E n : sorted \in [1..n -> V] /\ n = Cardinality(V)
  BY DEF Init, Normalized
<1>4. Cardinality(V) \in Nat
  <2>1. IsFiniteSet(V)
    <3>1. V = {u \in {uids[k] : k \in 1..Len(uids)} : u > 0}
      BY DEF Valid, Values
    <3>2. IsFiniteSet(1..Len(uids))
      BY <1>1, FS_Interval
    <3>3. IsFiniteSet({uids[k] : k \in 1..Len(uids)})
      <4> DEFINE T == {uids[k] : k \in 1..Len(uids)}
      <4>1. [k \in 1..Len(uids) |-> uids[k]] \in Surjection(1..Len(uids), T)
        BY DEF Surjection
      <4> QED
        BY <3>2, <4>1, FS_Surjection
    <3> QED
      BY <3>1, <3>3, FS_Subset
  <2> QED
    BY <2>1, FS_CardinalityType
<1>5. sorted \in Seq(V)
  BY <1>3, <1>4
<1>6. sorted \in Seq(Int) /\ \A k \in 1..Len(sorted) : sorted[k] > 0
  BY <1>5, <1>2
<1>7. Increasing(sorted) /\ Values(sorted) = V
  BY DEF Init, Normalized
<1>8. TypeInv
  BY <1>6, <1>7 DEF Init, TypeInv
<1>9. Position
  BY DEF Init, Position
<1>10. Gaps
  BY EmptyCovered DEF Init, Gaps, Canonical
<1>11. Exact
  <2>1. Taken(j) = {}
    BY DEF Init, Taken
  <2>2. Finished = {} /\ InWork = {}
    BY EmptyCovered DEF Init, Finished, InWork
  <2> QED
    BY <2>1, <2>2 DEF Exact
<1> QED
  BY <1>8, <1>9, <1>10, <1>11 DEF IInv

LEMMA OpenIInv == IInv /\ Open => IInv' /\ TakesNext
<1> SUFFICES ASSUME IInv, Open PROVE IInv' /\ TakesNext
  OBVIOUS
<1>1. TypeInv /\ Position /\ Gaps /\ Exact
  BY DEF IInv
<1>2. start = 0 /\ j = i /\ parts = <<>>
  BY <1>1 DEF Open, Position
<1>3. j \in 1..Len(sorted) /\ j <= ChunkEnd
  <2>1. CASE i <= Len(sorted)
    BY <1>2, <2>1, <1>1, ChunkEndFacts DEF Open, TypeInv
  <2>2. CASE ~(i <= Len(sorted))
    <3>1. ChunkEnd = Len(sorted) /\ Len(sorted) \in Nat /\ i \in Nat
      BY <2>2, <1>1, LimitFacts DEF ChunkEnd, TypeInv
    <3> QED
      BY <3>1, <2>2, <1>2 DEF Open
  <2> QED
    BY <2>1, <2>2
<1>4. sorted[j] \in Nat \ {0}
  BY <1>3, <1>1 DEF TypeInv
<1>5. start' = sorted[j] /\ previous' = sorted[j] /\ j' = j + 1
      /\ UNCHANGED <<uids, sorted, i, parts, ranges>>
  BY DEF Open
<1>6. TypeInv'
  <2>1. i \in Nat \ {0} /\ j \in Nat /\ parts \in Seq(SpanType) /\ ranges \in Seq(Seq(SpanType))
    BY <1>1 DEF TypeInv
  <2>2. /\ i' \in Nat \ {0} /\ j' \in Nat /\ start' \in Nat /\ previous' \in Int
        /\ parts' \in Seq(SpanType) /\ ranges' \in Seq(Seq(SpanType)) /\ UNCHANGED <<uids, sorted>>
    BY <2>1, <1>4, <1>5
  <2> QED
    BY <2>2, <1>1, TypeStep
<1>7. Position'
  <2>1. ChunkEnd' = ChunkEnd
    BY <1>5 DEF ChunkEnd
  <2>2. i \in Nat /\ j \in Nat /\ (j + 1) - 1 = j /\ ChunkEnd \in Int
    BY <1>1, LimitFacts DEF TypeInv, ChunkEnd
  <2> QED
    BY <2>1, <2>2, <1>2, <1>3, <1>4, <1>5 DEF Position
<1>8. Gaps'
  BY <1>1, <1>2, <1>5 DEF Gaps, Canonical, Values
<1>9. Exact'
  <2>1. Finished' = Finished
    BY <1>5 DEF Finished
  <2>2. InWork = {}
    BY <1>2, EmptyCovered DEF InWork
  <2>3. InWork' = {sorted[j]}
    BY <1>2, <1>4, <1>5, EmptyCovered DEF InWork
  <2>4. Taken(j)' = Taken(j + 1)
    BY <1>5 DEF Taken
  <2> QED
    BY <2>1, <2>2, <2>3, <2>4, <1>1, <1>3, TakenNext DEF Exact
<1>10. TakesNext
  <2>1. InWork = {} /\ InWork' = {sorted[j]}
    BY <1>2, <1>4, <1>5, EmptyCovered DEF InWork
  <2>2. i <= j
    BY <1>2, <1>3
  <2> QED
    BY <2>1, <2>2, <1>3, <1>5 DEF TakesNext
<1> QED
  BY <1>6, <1>7, <1>8, <1>9, <1>10 DEF IInv

LEMMA ExtendIInv == IInv /\ Extend => IInv' /\ TakesNext
<1> SUFFICES ASSUME IInv, Extend PROVE IInv' /\ TakesNext
  OBVIOUS
<1>1. TypeInv /\ Position /\ Gaps /\ Exact
  BY DEF IInv
<1>2. start # 0 /\ i < j /\ i <= Len(sorted) /\ start <= previous /\ previous = sorted[j - 1]
  BY <1>1 DEF Extend, Position
<1>3. i \in Nat \ {0} /\ j \in Nat /\ start \in Nat /\ previous \in Int /\ Len(sorted) \in Nat
  BY <1>1 DEF TypeInv
<1>4. j \in 1..Len(sorted) /\ j > 1 /\ j <= ChunkEnd
  BY <1>1, <1>2, <1>3, ChunkEndFacts DEF Extend
<1>5. sorted[j] = previous + 1 /\ sorted[j] \in Nat
  BY <1>1, <1>4, NextLarger DEF Extend
<1>6. previous' = sorted[j] /\ j' = j + 1 /\ UNCHANGED <<uids, sorted, i, start, parts, ranges>>
  BY DEF Extend
<1>7. TypeInv'
  <2>1. parts \in Seq(SpanType) /\ ranges \in Seq(Seq(SpanType))
    BY <1>1 DEF TypeInv
  <2>2. /\ i' \in Nat \ {0} /\ j' \in Nat /\ start' \in Nat /\ previous' \in Int
        /\ parts' \in Seq(SpanType) /\ ranges' \in Seq(Seq(SpanType)) /\ UNCHANGED <<uids, sorted>>
    BY <2>1, <1>3, <1>5, <1>6
  <2> QED
    BY <2>2, <1>1, TypeStep
<1>8. Position'
  <2>1. ChunkEnd' = ChunkEnd
    BY <1>6 DEF ChunkEnd
  <2>2. ChunkEnd \in Int /\ (j + 1) - 1 = j
    BY <1>3, LimitFacts DEF ChunkEnd
  <2> QED
    BY <2>1, <2>2, <1>2, <1>3, <1>4, <1>5, <1>6 DEF Position
<1>9. Gaps'
  BY <1>1, <1>6 DEF Gaps, Canonical, Values
<1>10. Finished' = Finished /\ Covered(parts)' = Covered(parts)
  BY <1>6 DEF Finished, Covered
<1>11. TakesNext
  <2>1. start..(previous + 1) = start..previous \union {previous + 1}
    BY <1>2, <1>3
  <2>2. InWork' = InWork \union {sorted[j]}
    BY <1>10, <2>1, <1>2, <1>5, <1>6 DEF InWork
  <2>3. i <= j
    BY <1>2, <1>3
  <2> QED
    BY <2>2, <2>3, <1>4, <1>6 DEF TakesNext
<1>12. Exact'
  <2>1. Taken(j)' = Taken(j + 1)
    BY <1>6 DEF Taken
  <2> QED
    BY <2>1, <1>10, <1>11, <1>1, <1>4, TakenNext DEF Exact, TakesNext
<1> QED
  BY <1>7, <1>8, <1>9, <1>11, <1>12 DEF IInv

LEMMA SplitIInv == IInv /\ Split => IInv' /\ TakesNext
<1> SUFFICES ASSUME IInv, Split PROVE IInv' /\ TakesNext
  OBVIOUS
<1>1. TypeInv /\ Position /\ Gaps /\ Exact
  BY DEF IInv
<1>2. start # 0 /\ i < j /\ i <= Len(sorted) /\ start <= previous /\ previous = sorted[j - 1]
  BY <1>1 DEF Split, Position
<1>3. i \in Nat \ {0} /\ j \in Nat /\ start \in Nat /\ previous \in Int /\ Len(sorted) \in Nat
  BY <1>1 DEF TypeInv
<1>4. j \in 1..Len(sorted) /\ j > 1 /\ j <= ChunkEnd
  BY <1>1, <1>2, <1>3, ChunkEndFacts DEF Split
<1>5. sorted[j] \in Nat \ {0} /\ previous + 1 < sorted[j]
  <2>1. sorted[j - 1] < sorted[j] /\ sorted[j] \in Nat \ {0}
    BY <1>1, <1>4, NextLarger
  <2>2. sorted[j] # previous + 1
    BY DEF Split
  <2> QED
    BY <2>1, <2>2, <1>2, <1>3
<1> DEFINE r == Span(start, previous)
<1>6. /\ parts' = Append(parts, r)
      /\ start' = sorted[j] /\ previous' = sorted[j] /\ j' = j + 1 /\ UNCHANGED <<uids, sorted, i, ranges>>
  BY DEF Split
<1>7. r \in SpanType /\ r.first = start /\ r.last = previous
  BY <1>3 DEF SpanType, Span
<1>8. parts \in Seq(SpanType)
  BY <1>1 DEF TypeInv
<1> HIDE DEF r
<1>9. TypeInv'
  <2>1. parts' \in Seq(SpanType)
    BY <1>6, <1>7, <1>8
  <2>2. ranges \in Seq(Seq(SpanType))
    BY <1>1 DEF TypeInv
  <2>3. /\ i' \in Nat \ {0} /\ j' \in Nat /\ start' \in Nat /\ previous' \in Int
        /\ ranges' \in Seq(Seq(SpanType)) /\ UNCHANGED <<uids, sorted>>
    BY <2>2, <1>3, <1>5, <1>6
  <2> QED
    BY <2>1, <2>3, <1>1, TypeStep
<1>10. Position'
  <2>1. ChunkEnd' = ChunkEnd
    BY <1>6 DEF ChunkEnd
  <2>2. ChunkEnd \in Int /\ (j + 1) - 1 = j
    BY <1>3, LimitFacts DEF ChunkEnd
  <2> QED
    BY <2>1, <2>2, <1>2, <1>3, <1>4, <1>5, <1>6 DEF Position
<1>11. Gaps'
  <2>1. Canonical(parts) /\ \A k \in 1..Len(parts) : parts[k].last + 1 < start
    BY <1>1, <1>2 DEF Gaps
  <2>2. Canonical(Append(parts, r))
    BY <2>1, <1>2, <1>7, <1>8, CanonicalAppend
  <2>3. \A k \in 1..Len(parts)' : parts'[k].last + 1 < sorted[j]
    <3> SUFFICES ASSUME NEW k \in 1..Len(parts)' PROVE parts'[k].last + 1 < sorted[j]
      OBVIOUS
    <3>1. Len(parts)' = Len(parts) + 1 /\ Len(parts) \in Nat
      BY <1>6, <1>7, <1>8
    <3>2. CASE k = Len(parts) + 1
      <4>1. parts'[k] = r
        BY <3>2, <1>6, <1>7, <1>8
      <4> QED
        BY <4>1, <1>5, <1>7
    <3>3. CASE k # Len(parts) + 1
      <4>1. k \in 1..Len(parts)
        BY <3>1, <3>3
      <4>2. parts'[k] = parts[k] /\ parts[k] \in SpanType
        BY <4>1, <1>6, <1>7, <1>8
      <4>3. parts[k].last + 1 < start /\ parts[k].last \in Int
        BY <4>1, <4>2, <2>1 DEF SpanType
      <4>4. start < sorted[j] /\ start \in Nat /\ sorted[j] \in Nat
        BY <1>2, <1>3, <1>5
      <4>5. parts[k].last + 1 < sorted[j]
        BY <4>3, <4>4
      <4> QED
        BY <4>2, <4>5
    <3> QED
      BY <3>2, <3>3
  <2>4. Values(ranges)' = Values(ranges) /\ \A c \in Values(ranges) : Canonical(c)
    BY <1>1, <1>6 DEF Gaps, Values
  <2>5. Canonical(parts)'
    BY <2>2, <1>6 DEF Canonical
  <2>6. \A c \in Values(ranges)' : Canonical(c)
    BY <2>4
  <2> QED
    BY <2>3, <2>5, <2>6, <1>6 DEF Gaps
<1>12. TakesNext
  <2>1. i <= j
    BY <1>2, <1>3
  <2>2. Covered(parts') = Covered(parts) \union start..previous
    BY <1>6, <1>7, <1>8, CoveredAppend
  <2>3. sorted[j]..sorted[j] = {sorted[j]}
    BY <1>5
  <2>4. InWork' = InWork \union {sorted[j]}
    BY <2>2, <2>3, <1>2, <1>5, <1>6 DEF InWork, Covered, Values
  <2> QED
    BY <2>1, <2>4, <1>4, <1>6 DEF TakesNext
<1>13. Exact'
  <2>1. Finished' = Finished
    BY <1>6 DEF Finished, Values
  <2>2. Taken(j)' = Taken(j + 1)
    BY <1>6 DEF Taken
  <2> QED
    BY <2>1, <2>2, <1>1, <1>4, <1>12, TakenNext DEF Exact, TakesNext
<1> QED
  BY <1>9, <1>10, <1>11, <1>12, <1>13 DEF IInv

LEMMA FinishIInv == IInv /\ Finish => IInv' /\ ClosesChunk
<1> SUFFICES ASSUME IInv, Finish PROVE IInv' /\ ClosesChunk
  OBVIOUS
<1>1. TypeInv /\ Position /\ Gaps /\ Exact
  BY DEF IInv
<1>2. i \in Nat \ {0} /\ j \in Nat /\ start \in Nat /\ previous \in Int /\ Len(sorted) \in Nat
      /\ parts \in Seq(SpanType) /\ ranges \in Seq(Seq(SpanType))
  BY <1>1 DEF TypeInv
<1>3. i <= Len(sorted) /\ j > ChunkEnd /\ ChunkEnd \in i..Len(sorted)
  BY <1>1, ChunkEndFacts DEF Finish
<1>4. start # 0 /\ j = ChunkEnd + 1 /\ start <= previous
  BY <1>1, <1>2, <1>3 DEF Position
<1> DEFINE r == Span(start, previous)
           c == Append(parts, r)
<1>5. /\ ranges' = Append(ranges, c) /\ parts' = <<>> /\ start' = 0 /\ previous' = 0
      /\ i' = i + Limit /\ j' = i + Limit /\ UNCHANGED <<uids, sorted>>
  BY DEF Finish
<1>6. r \in SpanType /\ r.first = start /\ r.last = previous
  BY <1>2 DEF SpanType, Span
<1> HIDE DEF r
<1>7. c \in Seq(SpanType) /\ Covered(c) = Covered(parts) \union start..previous
  BY <1>2, <1>6, CoveredAppend
<1>8. Canonical(c)
  <2>1. Canonical(parts) /\ \A k \in 1..Len(parts) : parts[k].last + 1 < start
    BY <1>1, <1>4 DEF Gaps
  <2> QED
    BY <2>1, <1>2, <1>4, <1>6, CanonicalAppend
<1> HIDE DEF c
<1>9. Values(ranges') = Values(ranges) \union {c}
  BY <1>2, <1>5, <1>7, ValuesAppend
<1>10. TypeInv'
  <2>1. ranges' \in Seq(Seq(SpanType)) /\ parts' \in Seq(SpanType)
    BY <1>2, <1>5, <1>7
  <2>2. /\ i' \in Nat \ {0} /\ j' \in Nat /\ start' \in Nat /\ previous' \in Int
        /\ UNCHANGED <<uids, sorted>>
    BY <1>2, <1>5, LimitFacts
  <2> QED
    BY <2>1, <2>2, <1>1, TypeStep
<1>11. Position'
  BY <1>2, <1>5, LimitFacts DEF Position
<1>12. Gaps'
  <2>1. \A d \in Values(ranges)' : Canonical(d)
    BY <1>1, <1>8, <1>9 DEF Gaps, Values
  <2>2. Canonical(parts)'
    BY <1>5 DEF Canonical
  <2> QED
    BY <2>1, <2>2, <1>5 DEF Gaps
<1>13. InWork = Covered(c) /\ InWork' = {}
  <2>1. InWork = Covered(parts) \union start..previous
    BY <1>4 DEF InWork
  <2>2. InWork' = {}
    BY <1>5, EmptyCovered DEF InWork, Covered, Values
  <2> QED
    BY <1>7, <2>1, <2>2
<1>14. {m \in 1..Len(sorted) : m < i + Limit} = {m \in 1..Len(sorted) : m < j}
  BY <1>1, <1>2, <1>3, <1>4, LimitFacts, ChunkEndFacts
<1>15. ClosesChunk
  <2>1. c # <<>>
    BY <1>2, <1>6 DEF c
  <2> QED
    BY <1>2, <1>3, <1>5, <1>7, <1>13, <1>14, <2>1 DEF ClosesChunk
<1>16. Exact'
  <2>1. Finished' = Finished \union Covered(c)
    <3>1. Finished' = UNION {Covered(d) : d \in Values(ranges')}
      BY DEF Finished, Covered, Values
    <3>2. {Covered(d) : d \in Values(ranges')} = {Covered(d) : d \in Values(ranges)} \union {Covered(c)}
      BY <1>9
    <3> QED
      BY <3>1, <3>2 DEF Finished
  <2>2. Taken(j)' = Taken(j)
    BY <1>14, <1>5 DEF Taken
  <2> QED
    BY <2>1, <2>2, <1>1, <1>13 DEF Exact
<1> QED
  BY <1>10, <1>11, <1>12, <1>15, <1>16 DEF IInv

-----------------------------------------------------------------------------
LEMMA StutterIInv == IInv /\ UNCHANGED vars => IInv'
<1> SUFFICES ASSUME IInv, UNCHANGED vars PROVE IInv'
  OBVIOUS
<1>1. TypeInv'
  BY TypeStep DEF IInv, TypeInv, vars
<1>2. Position'
  BY DEF IInv, Position, ChunkEnd, vars
<1>3. Gaps'
  BY DEF IInv, Gaps, Canonical, Values, vars
<1>4. Exact'
  BY DEF IInv, Exact, Taken, Finished, InWork, Covered, Values, vars
<1> QED
  BY <1>1, <1>2, <1>3, <1>4 DEF IInv

\* Where the loops stand and what they have written, at every turn.
THEOREM Inductive == Spec => []IInv
<1>1. IInv /\ [Next]_vars => IInv'
  BY StutterIInv, OpenIInv, ExtendIInv, SplitIInv, FinishIInv DEF Next
<1> QED
  BY InitIInv, <1>1, PTL DEF Spec

\* The loops: at every turn the ranges stand for exactly the UIDs taken so far, and at the end for
\* the whole list, in the shortest form.
THEOREM RangesCorrect == Spec => []RangesExact
<1>1. IInv => RangesExact
  <2> SUFFICES ASSUME IInv PROVE RangesExact
    OBVIOUS
  <2>1. TypeInv /\ Position /\ Gaps /\ Exact
    BY DEF IInv
  <2>2. ASSUME i > Len(sorted) PROVE Finished = Valid(uids)
    <3>1. start = 0 /\ parts = <<>> /\ j >= i /\ Len(sorted) \in Nat /\ i \in Nat /\ j \in Nat
      BY <2>1, <2>2 DEF Position, TypeInv
    <3>2. InWork = {}
      BY <3>1, EmptyCovered DEF InWork
    <3>3. {m \in 1..Len(sorted) : m < j} = 1..Len(sorted)
      BY <3>1, <2>2
    <3>4. Taken(j) = Values(sorted)
      BY <3>3 DEF Taken, Values
    <3> QED
      BY <3>2, <3>4, <2>1 DEF Exact, TypeInv
  <2> QED
    BY <2>1, <2>2 DEF RangesExact, Exact, Gaps, Taken
<1> QED
  BY Inductive, <1>1, PTL

-----------------------------------------------------------------------------
(* The chunks.                                                              *)

Slice(a, b) == {sorted[m] : m \in {n \in 1..Len(sorted) : a <= n /\ n < b}}

\* A finished chunk stands for a stretch of the list no longer than the limit, the one in work for
\* what was taken since its first UID, and no UID is in two of them.
ChunkInv ==
  /\ InWork = Slice(i, j)
  /\ \A k \in 1..Len(ranges) :
       ranges[k] # <<>> /\ \E a \in Nat : a + Limit <= i /\ Covered(ranges[k]) = Slice(a, a + Limit)
  /\ \A k, l \in 1..Len(ranges) : k # l => Covered(ranges[k]) \intersect Covered(ranges[l]) = {}

LEMMA SliceStays ==
  ASSUME UNCHANGED sorted
  PROVE  \A a, b : Slice(a, b)' = Slice(a, b)
BY DEF Slice

\* Stretches of the list that follow each other have no UID in common.
LEMMA SlicesApart ==
  ASSUME TypeInv, NEW a \in Nat, NEW b \in Nat, NEW c \in Nat, NEW d \in Nat, b <= c
  PROVE  Slice(a, b) \intersect Slice(c, d) = {}
<1> SUFFICES ASSUME NEW m \in 1..Len(sorted), NEW n \in 1..Len(sorted), m < b, c <= n, sorted[m] = sorted[n]
             PROVE  FALSE
  BY DEF Slice
<1>1. m < n
  BY DEF TypeInv
<1>2. sorted[m] < sorted[n] /\ sorted[m] \in Int
  BY <1>1 DEF TypeInv, Increasing
<1> QED
  BY <1>2

LEMMA ChunkInit == Init => ChunkInv
<1> SUFFICES ASSUME Init PROVE ChunkInv
  OBVIOUS
<1>1. ranges = <<>> /\ Len(ranges) = 0
  BY DEF Init
<1>2. InWork = {} /\ Slice(i, j) = {}
  BY EmptyCovered DEF Init, InWork, Slice
<1> QED
  BY <1>1, <1>2 DEF ChunkInv

LEMMA ChunkTakes ==
  ASSUME IInv, ChunkInv, TakesNext, UNCHANGED <<sorted, i, ranges>>
  PROVE  ChunkInv'
<1>1. i \in Nat /\ j \in Nat /\ Len(sorted) \in Nat
  BY DEF IInv, TypeInv
<1>2. Slice(i, j + 1) = Slice(i, j) \union {sorted[j]}
  <2>1. {n \in 1..Len(sorted) : i <= n /\ n < j + 1} = {n \in 1..Len(sorted) : i <= n /\ n < j} \union {j}
    BY <1>1 DEF TakesNext
  <2> QED
    BY <2>1 DEF Slice
<1>3. InWork' = Slice(i, j + 1)
  BY <1>2 DEF ChunkInv, TakesNext
<1>4. Slice(i, j)' = Slice(i, j + 1)
  BY DEF Slice, TakesNext
<1>5. \A k \in 1..Len(ranges) : Covered(ranges[k])' = Covered(ranges[k])
  BY DEF Covered, Values
<1> QED
  BY <1>3, <1>4, <1>5, SliceStays DEF ChunkInv

LEMMA ChunkCloses ==
  ASSUME IInv, ChunkInv, ClosesChunk, UNCHANGED sorted
  PROVE  ChunkInv'
<1>1. TypeInv /\ i \in Nat /\ j \in Nat /\ Len(sorted) \in Nat /\ ranges \in Seq(Seq(SpanType)) /\ Limit \in Nat
  BY LimitFacts DEF IInv, TypeInv
<1>2. PICK c \in Seq(SpanType) : c # <<>> /\ ranges' = Append(ranges, c) /\ Covered(c) = InWork
  BY DEF ClosesChunk
<1>3. i' = i + Limit /\ j' = i' /\ InWork' = {}
  BY DEF ClosesChunk
<1>4. Covered(c) = Slice(i, i + Limit)
  <2>1. {n \in 1..Len(sorted) : i <= n /\ n < j} = {n \in 1..Len(sorted) : i <= n /\ n < i + Limit}
    BY DEF ClosesChunk
  <2> QED
    BY <1>2, <2>1 DEF ChunkInv, Slice
<1>5. /\ Len(ranges') = Len(ranges) + 1 /\ Len(ranges) \in Nat
      /\ \A k \in 1..Len(ranges) : ranges'[k] = ranges[k]
      /\ ranges'[Len(ranges) + 1] = c
  BY <1>1, <1>2
<1>6. Slice(i, j)' = {}
  BY <1>1, <1>3 DEF Slice
<1>7. ASSUME NEW k \in 1..Len(ranges')
      PROVE  ranges'[k] # <<>> /\ \E a \in Nat : a + Limit <= i' /\ Covered(ranges'[k]) = Slice(a, a + Limit)
  <2>1. CASE k = Len(ranges) + 1
    BY <1>1, <1>2, <1>3, <1>4, <1>5, <2>1
  <2>2. CASE k # Len(ranges) + 1
    <3>1. k \in 1..Len(ranges)
      BY <1>5, <2>2
    <3>2. PICK a \in Nat : a + Limit <= i /\ Covered(ranges[k]) = Slice(a, a + Limit)
      BY <3>1 DEF ChunkInv
    <3>3. a + Limit <= i'
      BY <1>1, <1>3, <3>2
    <3>4. ranges[k] # <<>>
      BY <3>1 DEF ChunkInv
    <3> QED
      BY <1>5, <3>1, <3>2, <3>3, <3>4
  <2> QED
    BY <2>1, <2>2
<1>8. ASSUME NEW k \in 1..Len(ranges)
      PROVE  Covered(ranges[k]) \intersect Covered(c) = {}
  <2>1. PICK a \in Nat : a + Limit <= i /\ Covered(ranges[k]) = Slice(a, a + Limit)
    BY DEF ChunkInv
  <2>2. a + Limit \in Nat /\ i + Limit \in Nat
    BY <1>1
  <2>3. Slice(a, a + Limit) \intersect Slice(i, i + Limit) = {}
    BY <1>1, <2>1, <2>2, SlicesApart
  <2> QED
    BY <1>4, <2>1, <2>3
<1>9. ASSUME NEW k \in 1..Len(ranges'), NEW l \in 1..Len(ranges'), k # l
      PROVE  Covered(ranges'[k]) \intersect Covered(ranges'[l]) = {}
  <2>1. CASE k # Len(ranges) + 1 /\ l # Len(ranges) + 1
    <3>1. k \in 1..Len(ranges) /\ l \in 1..Len(ranges)
      BY <1>5, <2>1
    <3> QED
      BY <1>5, <1>9, <3>1 DEF ChunkInv
  <2>2. CASE k = Len(ranges) + 1
    <3>1. l \in 1..Len(ranges)
      BY <1>5, <1>9, <2>2
    <3> QED
      BY <1>5, <1>8, <2>2, <3>1
  <2>3. CASE l = Len(ranges) + 1
    <3>1. k \in 1..Len(ranges)
      BY <1>5, <1>9, <2>3
    <3> QED
      BY <1>5, <1>8, <2>3, <3>1
  <2> QED
    BY <2>1, <2>2, <2>3
<1>10. \A k : Covered(ranges[k])' = Covered(ranges'[k])
  BY DEF Covered, Values
<1>11. \A a : Slice(a, a + Limit)' = Slice(a, a + Limit)
  BY DEF Slice
<1> QED
  BY <1>3, <1>6, <1>7, <1>9, <1>10, <1>11 DEF ChunkInv

\* The invariant of the chunks, on top of that of the loops.
THEOREM ChunksInductive == Spec => []ChunkInv
<1>1. IInv /\ ChunkInv /\ [Next]_vars => ChunkInv'
  <2> SUFFICES ASSUME IInv, ChunkInv, [Next]_vars PROVE ChunkInv'
    OBVIOUS
  <2>1. CASE UNCHANGED vars
    <3>1. UNCHANGED <<sorted, i, j, start, previous, parts, ranges>>
      BY <2>1 DEF vars
    <3>2. InWork' = InWork /\ Slice(i, j)' = Slice(i, j)
      BY <3>1 DEF InWork, Slice, Covered, Values
    <3>3. \A k : Covered(ranges[k])' = Covered(ranges[k])
      BY <3>1 DEF Covered, Values
    <3>4. \A a : Slice(a, a + Limit)' = Slice(a, a + Limit)
      BY <3>1 DEF Slice
    <3> QED
      BY <3>1, <3>2, <3>3, <3>4 DEF ChunkInv
  <2>2. CASE Open \/ Extend \/ Split
    <3>1. TakesNext
      BY <2>2, OpenIInv, ExtendIInv, SplitIInv
    <3>2. UNCHANGED <<sorted, i, ranges>>
      BY <2>2 DEF Open, Extend, Split
    <3> QED
      BY <3>1, <3>2, ChunkTakes
  <2>3. CASE Finish
    <3>1. ClosesChunk
      BY <2>3, FinishIInv
    <3>2. UNCHANGED sorted
      BY <2>3 DEF Finish
    <3> QED
      BY <3>1, <3>2, ChunkCloses
  <2> QED
    BY <2>1, <2>2, <2>3 DEF Next
<1> QED
  BY ChunkInit, Inductive, <1>1, PTL DEF Spec

-----------------------------------------------------------------------------
\* A stretch of the list has no more UIDs than positions.
LEMMA SliceSize ==
  ASSUME TypeInv, NEW a \in Nat
  PROVE  IsFiniteSet(Slice(a, a + Limit)) /\ Cardinality(Slice(a, a + Limit)) <= Limit
<1> DEFINE P == {n \in 1..Len(sorted) : a <= n /\ n < a + Limit}
           Q == a..(a + Limit - 1)
           f == [n \in P |-> sorted[n]]
           T == Slice(a, a + Limit)
<1>1. Len(sorted) \in Nat /\ Limit \in Nat \ {0}
  BY LimitFacts DEF TypeInv
<1>2. IsFiniteSet(Q) /\ Cardinality(Q) = Limit
  <2>1. a \in Int /\ a + Limit - 1 \in Int /\ a <= a + Limit - 1 /\ (a + Limit - 1) - a + 1 = Limit
    BY <1>1
  <2> HIDE DEF Q
  <2>2. IsFiniteSet(a..(a + Limit - 1)) /\ Cardinality(a..(a + Limit - 1)) = (a + Limit - 1) - a + 1
    BY <2>1, FS_Interval
  <2> QED
    BY <2>1, <2>2 DEF Q
<1>3. P \in SUBSET Q
  BY <1>1
<1>4. T = {sorted[n] : n \in P}
  BY DEF Slice
<1>5. f \in Surjection(P, T)
  BY <1>4 DEF Surjection
<1> HIDE DEF P, Q, f, T
<1>6. IsFiniteSet(P) /\ Cardinality(P) <= Limit
  BY <1>2, <1>3, FS_Subset
<1>7. IsFiniteSet(T) /\ Cardinality(T) <= Cardinality(P)
  BY <1>5, <1>6, FS_Surjection
<1>8. Cardinality(P) \in Nat /\ Cardinality(T) \in Nat
  BY <1>6, <1>7, FS_CardinalityType
<1>9. IsFiniteSet(T) /\ Cardinality(T) <= Limit
  BY <1>1, <1>6, <1>7, <1>8
<1> QED
  BY <1>9 DEF T

\* In a list of ranges with gaps between them every UID counts once.
LEMMA CountCanonical ==
  ASSUME NEW rs \in Seq(SpanType), Canonical(rs), IsFiniteSet(Covered(rs))
  PROVE  Count(rs) \in Nat /\ Count(rs) <= Cardinality(Covered(rs))
<1> DEFINE Pairs == UNION {{k} \X (rs[k].first..rs[k].last) : k \in 1..Len(rs)}
           f == [p \in Pairs |-> p[2]]
           T == Covered(rs)
<1>0. \A k \in 1..Len(rs) : rs[k].first \in Int /\ rs[k].last \in Int /\ rs[k] \in Values(rs)
  <2> SUFFICES ASSUME NEW k \in 1..Len(rs)
               PROVE  rs[k].first \in Int /\ rs[k].last \in Int /\ rs[k] \in Values(rs)
    OBVIOUS
  <2>1. rs[k] \in SpanType
    OBVIOUS
  <2> QED
    BY <2>1 DEF SpanType, Values
<1>1. \A p \in Pairs : p = <<p[1], p[2]>> /\ p[1] \in 1..Len(rs) /\ p[2] \in rs[p[1]].first..rs[p[1]].last
  OBVIOUS
<1>2. \A p \in Pairs : p[2] \in T
  <2> SUFFICES ASSUME NEW p \in Pairs
               PROVE  p[2] \in T
    OBVIOUS
  <2>1. p[1] \in 1..Len(rs) /\ p[2] \in rs[p[1]].first..rs[p[1]].last
    BY <1>1
  <2> HIDE DEF Pairs
  <2> QED
    BY <1>0, <2>1 DEF Covered
<1>3. ASSUME NEW p \in Pairs, NEW q \in Pairs, p[2] = q[2]
      PROVE  p = q
  <2>0. p = <<p[1], p[2]>> /\ q = <<q[1], q[2]>>
    BY <1>1
  <2>1. PICK k, l, u : k = p[1] /\ l = q[1] /\ u = p[2]
    OBVIOUS
  <2>2. /\ k \in 1..Len(rs) /\ u \in rs[k].first..rs[k].last
        /\ l \in 1..Len(rs) /\ u \in rs[l].first..rs[l].last
    BY <1>1, <1>3, <2>1
  <2> HIDE DEF Pairs
  <2>3. k \in Int /\ l \in Int /\ u \in Int
    BY <2>2
  <2>4. ASSUME k < l PROVE FALSE
    <3>1. rs[k].last + 1 < rs[l].first
      BY <2>2, <2>4 DEF Canonical
    <3> QED
      BY <1>0, <2>2, <2>3, <3>1
  <2>5. ASSUME l < k PROVE FALSE
    <3>1. rs[l].last + 1 < rs[k].first
      BY <2>2, <2>5 DEF Canonical
    <3> QED
      BY <1>0, <2>2, <2>3, <3>1
  <2>6. k = l
    BY <2>3, <2>4, <2>5
  <2> QED
    BY <1>3, <2>0, <2>1, <2>6
<1>4. f \in [Pairs -> T] /\ \A p, q \in Pairs : f[p] = f[q] => p = q
  BY <1>2, <1>3
<1>5. f \in Injection(Pairs, T)
  BY <1>4 DEF Injection, IsInjective
<1> HIDE DEF f, Pairs, T
<1>6. IsFiniteSet(T)
  BY DEF T
<1>7. IsFiniteSet(Pairs) /\ Cardinality(Pairs) <= Cardinality(T)
  BY <1>5, <1>6, FS_Injection
<1>8. Cardinality(Pairs) \in Nat
  BY <1>7, FS_CardinalityType
<1> QED
  BY <1>7, <1>8 DEF Count, Pairs, T

\* What the delete helper takes: a chunk within the callers' bounds is a list of valid ranges of at
\* most MAX_DELETE_UIDS UIDs, and no UID is handed over twice.
THEOREM ChunksCorrect == Spec => []ChunksDeletable
<1>1. ASSUME IInv, ChunkInv
      PROVE  ChunksDeletable
  <2>1. TypeInv /\ Gaps
    BY <1>1 DEF IInv
  <2>2. ASSUME Limit <= MaxDeleteUids, \A u \in Valid(uids) : u <= MaxUid, NEW c \in Values(ranges)
        PROVE  ValidRange(c)
    <3>1. PICK k \in 1..Len(ranges) : c = ranges[k]
      BY DEF Values
    <3>2. PICK a \in Nat : Covered(c) = Slice(a, a + Limit)
      BY <1>1, <3>1 DEF ChunkInv
    <3>3. c \in Seq(SpanType) /\ c # <<>> /\ Canonical(c)
      BY <1>1, <2>1, <3>1 DEF TypeInv, ChunkInv, Gaps
    <3>4. \A u \in Covered(c) : u \in Int /\ u >= 1 /\ u <= MaxUid
      <4> SUFFICES ASSUME NEW u \in Slice(a, a + Limit)
                   PROVE  u \in Int /\ u >= 1 /\ u <= MaxUid
        BY <3>2
      <4>1. PICK m \in 1..Len(sorted) : u = sorted[m]
        BY DEF Slice
      <4>2. u \in Values(sorted)
        BY <4>1 DEF Values
      <4>3. u \in Int /\ u > 0
        BY <2>1, <4>1 DEF TypeInv
      <4> QED
        BY <2>1, <2>2, <4>2, <4>3 DEF TypeInv
    <3>5. ASSUME NEW r \in Values(c)
          PROVE  r.first >= 1 /\ r.first <= r.last /\ r.last <= MaxUid
      <4>1. PICK l \in 1..Len(c) : r = c[l]
        BY DEF Values
      <4>2. r \in SpanType /\ r.first <= r.last
        BY <3>3, <4>1 DEF Canonical
      <4>3. r.first \in r.first..r.last /\ r.last \in r.first..r.last
        BY <4>2 DEF SpanType
      <4>4. r.first \in Covered(c) /\ r.last \in Covered(c)
        BY <4>3 DEF Covered
      <4> QED
        BY <3>4, <4>2, <4>4
    <3>6. Count(c) <= MaxDeleteUids
      <4>1. IsFiniteSet(Covered(c)) /\ Cardinality(Covered(c)) <= Limit
        BY <2>1, <3>2, SliceSize
      <4>2. Count(c) \in Nat /\ Count(c) <= Cardinality(Covered(c))
        BY <3>3, <4>1, CountCanonical
      <4>3. Cardinality(Covered(c)) \in Nat /\ Limit \in Nat /\ MaxDeleteUids \in Nat
        BY <4>1, FS_CardinalityType, LimitFacts, LimitAssumption
      <4> QED
        BY <2>2, <4>1, <4>2, <4>3
    <3> QED
      BY <3>3, <3>5, <3>6 DEF ValidRange
  <2> QED
    BY <1>1, <2>2 DEF ChunksDeletable, ChunkInv
<1> QED
  BY <1>1, Inductive, ChunksInductive, PTL
=============================================================================
