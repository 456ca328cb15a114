---------------------------- MODULE AckPlanProofs ----------------------------
(***************************************************************************)
(* A plan does what was asked for, for flag lists of every length.  What is  *)
(* to be shown is about dedupeFlags: the positions it keeps are numbered     *)
(* from one, each kept name once, and no name is lost, since the first       *)
(* position of a name is always kept.                                        *)
(***************************************************************************)
EXTENDS AckPlan, FiniteSetTheorems, SequenceTheorems, TLAPS

Below(S, u) == {v \in S : v <= u}

LEMMA BelowType ==
  ASSUME NEW S, S \subseteq Nat, IsFiniteSet(S), NEW u \in S
  PROVE  Cardinality(Below(S, u)) \in 1..Cardinality(S)
<1> DEFINE B == Below(S, u)
<1>1. B \in SUBSET S /\ u \in B
  BY DEF Below
<1> HIDE DEF B
<1>2. IsFiniteSet(B) /\ Cardinality(B) <= Cardinality(S)
  BY <1>1, FS_Subset
<1>3. Cardinality(B) \in Nat /\ Cardinality(S) \in Nat
  BY <1>2, FS_CardinalityType
<1>4. Cardinality(B) # 0
  BY <1>1, <1>2, FS_EmptySet
<1> QED
  BY <1>2, <1>3, <1>4 DEF B

LEMMA BelowGrows ==
  ASSUME NEW S, S \subseteq Nat, IsFiniteSet(S), NEW u \in S, NEW w \in S, u < w
  PROVE  Cardinality(Below(S, u)) < Cardinality(Below(S, w))
<1> DEFINE B == Below(S, u)
           C == Below(S, w)
<1>0. u \in Nat /\ w \in Nat /\ \A v \in S : v \in Nat
  OBVIOUS
<1>1. B \in SUBSET C /\ w \in C /\ w \notin B /\ C \in SUBSET S
  <2>1. \A v \in S : v <= u => v <= w
    BY <1>0
  <2>2. w <= w /\ ~(w <= u)
    BY <1>0
  <2> QED
    BY <2>1, <2>2 DEF Below
<1> HIDE DEF B, C
<1>2. IsFiniteSet(C)
  BY <1>1, FS_Subset
<1>3. IsFiniteSet(B) /\ Cardinality(B) <= Cardinality(C) /\ Cardinality(B) # Cardinality(C)
  BY <1>1, <1>2, FS_Subset
<1>4. Cardinality(B) \in Nat /\ Cardinality(C) \in Nat
  BY <1>2, <1>3, FS_CardinalityType
<1> QED
  BY <1>3, <1>4 DEF B, C

\* Every number up to the size of the set is the rank of one of its elements.
LEMMA Ranks ==
  ASSUME NEW S, S \subseteq Nat, IsFiniteSet(S), NEW i \in 1..Cardinality(S)
  PROVE  \E u \in S : Cardinality(Below(S, u)) = i
<1> DEFINE T == 1..Cardinality(S)
           f == [u \in S |-> Cardinality(Below(S, u))]
<1>1. Cardinality(S) \in Nat
  BY FS_CardinalityType
<1>2. IsFiniteSet(T) /\ Cardinality(T) = Cardinality(S)
  BY <1>1, FS_Interval
<1>3. f \in [S -> T]
  BY BelowType
<1>4. \A u, w \in S : f[u] = f[w] => u = w
  <2> SUFFICES ASSUME NEW u \in S, NEW w \in S, f[u] = f[w], u # w
               PROVE  FALSE
    OBVIOUS
  <2>1. f[u] = Cardinality(Below(S, u)) /\ f[w] = Cardinality(Below(S, w))
    OBVIOUS
  <2>2. f[u] \in Int /\ f[w] \in Int
    BY <1>3, <1>1
  <2>3. u \in Nat /\ w \in Nat
    OBVIOUS
  <2>4. CASE u < w
    <3>1. Cardinality(Below(S, u)) < Cardinality(Below(S, w))
      BY <2>4, BelowGrows
    <3> QED
      BY <2>1, <2>2, <3>1
  <2>5. CASE w < u
    <3>1. Cardinality(Below(S, w)) < Cardinality(Below(S, u))
      BY <2>5, BelowGrows
    <3> QED
      BY <2>1, <2>2, <3>1
  <2> QED
    BY <2>3, <2>4, <2>5
<1>5. f \in Injection(S, T)
  BY <1>3, <1>4 DEF Injection, IsInjective
<1> HIDE DEF f
<1>6. f \in Surjection(S, T)
  BY <1>2, <1>5, FS_Injection
<1>7. \E u \in S : f[u] = i
  BY <1>6 DEF Surjection
<1> QED
  BY <1>7 DEF f

\* Ranks are different.
LEMMA RanksDiffer ==
  ASSUME NEW S, S \subseteq Nat, IsFiniteSet(S), NEW u \in S, NEW w \in S,
         Cardinality(Below(S, u)) = Cardinality(Below(S, w))
  PROVE  u = w
<1>1. Cardinality(Below(S, u)) \in Nat /\ Cardinality(Below(S, w)) \in Nat
  <2>1. Below(S, u) \in SUBSET S /\ Below(S, w) \in SUBSET S
    BY DEF Below
  <2> QED
    BY <2>1, FS_Subset, FS_CardinalityType
<1>2. ASSUME u < w PROVE FALSE
  <2>1. Cardinality(Below(S, u)) < Cardinality(Below(S, w))
    BY <1>2, BelowGrows
  <2> QED
    BY <1>1, <2>1
<1>3. ASSUME w < u PROVE FALSE
  <2>1. Cardinality(Below(S, w)) < Cardinality(Below(S, u))
    BY <1>3, BelowGrows
  <2> QED
    BY <1>1, <2>1
<1>4. u \in Nat /\ w \in Nat
  OBVIOUS
<1> QED
  BY <1>2, <1>3, <1>4

\* A set of positions has a first one.
LEMMA First ==
  ASSUME NEW S, S \subseteq Nat, IsFiniteSet(S), S # {}
  PROVE  \E u \in S : \A v \in S : u <= v
<1>1. Cardinality(S) \in Nat /\ Cardinality(S) # 0
  BY FS_CardinalityType, FS_EmptySet
<1>2. 1 \in 1..Cardinality(S)
  BY <1>1
<1>3. PICK u \in S : Cardinality(Below(S, u)) = 1
  BY <1>2, Ranks
<1>4. ASSUME NEW v \in S, v < u
      PROVE  FALSE
  <2>1. Cardinality(Below(S, v)) \in 1..Cardinality(S)
    BY BelowType
  <2>2. Cardinality(Below(S, v)) < Cardinality(Below(S, u))
    BY <1>4, BelowGrows
  <2> QED
    BY <1>1, <1>3, <2>1, <2>2
<1>5. \A v \in S : v \in Nat
  OBVIOUS
<1> QED
  BY <1>4, <1>5

-----------------------------------------------------------------------------
(* Flag lists.                                                              *)

\* E has the entries of the list at the positions in P, in that order, and no others.
Picks(E, list, P) ==
  /\ \A n \in 1..Len(E) : \E k \in P : E[n] = list[k] /\ Cardinality(Below(P, k)) = n
  /\ \A k \in P : \E n \in 1..Len(E) : E[n] = list[k]

LEMMA EntriesOf ==
  ASSUME NEW T, NEW list \in Seq(T), NEW P, P \subseteq 1..Len(list), NEW E, E = Entries(list, P)
  PROVE  E \in Seq(T) /\ Picks(E, list, P)
<1> DEFINE C == Cardinality(P)
           at(n) == CHOOSE k \in P : Cardinality(Below(P, k)) = n
<1>1. Len(list) \in Nat
  OBVIOUS
<1>2. IsFiniteSet(P) /\ P \subseteq Nat /\ C \in Nat
  <2>1. IsFiniteSet(1..Len(list))
    BY <1>1, FS_Interval
  <2>2. P \in SUBSET (1..Len(list))
    OBVIOUS
  <2>3. IsFiniteSet(P)
    BY <2>1, <2>2, FS_Subset
  <2>4. P \subseteq Nat
    OBVIOUS
  <2> QED
    BY <2>3, <2>4, FS_CardinalityType
<1>3. E = [n \in 1..C |-> list[at(n)]]
  BY DEF Entries, Below
<1>4. ASSUME NEW n \in 1..C
      PROVE  at(n) \in P /\ Cardinality(Below(P, at(n))) = n
  <2>1. \E k \in P : Cardinality(Below(P, k)) = n
    BY <1>2, Ranks
  <2> QED
    BY <2>1
<1>5. ASSUME NEW k \in P
      PROVE  \E n \in 1..C : at(n) = k
  <2> DEFINE n == Cardinality(Below(P, k))
  <2>1. n \in 1..C
    BY <1>2, BelowType
  <2>2. at(n) \in P /\ Cardinality(Below(P, at(n))) = n
    BY <1>4, <2>1
  <2>3. at(n) = k
    <3> HIDE DEF at
    <3> QED
      BY <1>2, <2>2, RanksDiffer
  <2> HIDE DEF n, at
  <2> QED
    BY <2>1, <2>3
<1> HIDE DEF at
<1>6. ASSUME NEW n \in 1..C
      PROVE  list[at(n)] \in T
  <2>1. at(n) \in 1..Len(list)
    BY <1>4
  <2> QED
    BY <2>1
<1>7. E \in [1..C -> T]
  BY <1>3, <1>6
<1>8. E \in Seq(T) /\ Len(E) = C
  <2> HIDE DEF C
  <2> QED
    BY <1>2, <1>7
<1>9. \A n \in 1..C : E[n] = list[at(n)]
  BY <1>3
<1> HIDE DEF C
<1>10. \A n \in 1..Len(E) : \E k \in P : E[n] = list[k] /\ Cardinality(Below(P, k)) = n
  BY <1>4, <1>8, <1>9
<1>11. \A k \in P : \E n \in 1..Len(E) : E[n] = list[k]
  BY <1>5, <1>8, <1>9
<1> QED
  BY <1>8, <1>10, <1>11 DEF Picks

\* dedupeFlags loses no name and keeps each once.
LEMMA Deduped ==
  ASSUME NEW flags \in Seq(Spellings)
  PROVE  /\ DedupeFlags(flags) \in Seq(Spellings)
         /\ FlagsOf(DedupeFlags(flags)) = FlagsOf(flags)
         /\ \A n \in 1..Len(DedupeFlags(flags)) : \E k \in 1..Len(flags) : DedupeFlags(flags)[n] = flags[k]
         /\ \A n, m \in 1..Len(DedupeFlags(flags)) :
              DedupeFlags(flags)[n].name = DedupeFlags(flags)[m].name => n = m
<1> DEFINE P == {k \in 1..Len(flags) : \A l \in 1..(k - 1) : flags[l].name # flags[k].name}
           D == DedupeFlags(flags)
<1>1. P \subseteq 1..Len(flags) /\ D = Entries(flags, P)
  BY DEF DedupeFlags
<1>2. \A k, l \in P : flags[k].name = flags[l].name => k = l
  <2> SUFFICES ASSUME NEW k \in P, NEW l \in P, flags[k].name = flags[l].name
               PROVE  k = l
    OBVIOUS
  <2>1. k \in Nat \ {0} /\ l \in Nat \ {0}
    BY <1>1
  <2>2. ~(k < l)
    BY <2>1
  <2>3. ~(l < k)
    BY <2>1
  <2> QED
    BY <2>1, <2>2, <2>3
<1>3. ASSUME NEW k \in 1..Len(flags)
      PROVE  \E l \in P : flags[l].name = flags[k].name
  <2> DEFINE S == {l \in 1..Len(flags) : flags[l].name = flags[k].name}
  <2>1. S \in SUBSET (1..Len(flags)) /\ k \in S
    OBVIOUS
  <2>2. S \subseteq Nat /\ IsFiniteSet(S)
    <3>1. Len(flags) \in Nat /\ IsFiniteSet(1..Len(flags))
      BY FS_Interval
    <3>2. S \subseteq Nat
      OBVIOUS
    <3> HIDE DEF S
    <3>3. IsFiniteSet(S)
      BY <2>1, <3>1, FS_Subset
    <3> QED
      BY <3>2, <3>3
  <2>3. PICK l \in S : \A m \in S : l <= m
    <3> HIDE DEF S
    <3> QED
      BY <2>1, <2>2, First
  <2>4. l \in 1..Len(flags) /\ flags[l].name = flags[k].name
    BY <2>3
  <2>5. ASSUME NEW m \in 1..(l - 1), flags[m].name = flags[l].name
        PROVE  FALSE
    <3>1. m \in 1..Len(flags) /\ m < l /\ m \in Nat /\ l \in Nat
      BY <2>4
    <3>2. m \in S
      BY <2>4, <2>5, <3>1
    <3> QED
      BY <2>3, <3>1, <3>2
  <2> QED
    BY <2>4, <2>5
<1> HIDE DEF P, D
<1>4. /\ D \in Seq(Spellings)
      /\ \A n \in 1..Len(D) : \E k \in P : D[n] = flags[k] /\ Cardinality(Below(P, k)) = n
      /\ \A k \in P : \E n \in 1..Len(D) : D[n] = flags[k]
  <2>1. flags \in Seq(Spellings) /\ P \subseteq 1..Len(flags) /\ D = Entries(flags, P)
    BY <1>1
  <2>2. D \in Seq(Spellings) /\ Picks(D, flags, P)
    BY <2>1, EntriesOf
  <2> QED
    BY <2>2 DEF Picks
<1>5. FlagsOf(D) = FlagsOf(flags)
  <2>1. ASSUME NEW n \in 1..Len(D)
        PROVE  D[n].name \in FlagsOf(flags)
    <3>1. PICK k \in P : D[n] = flags[k]
      BY <1>4
    <3>2. k \in 1..Len(flags) /\ D[n].name = flags[k].name
      BY <1>1, <3>1
    <3> QED
      BY <3>2 DEF FlagsOf
  <2>2. ASSUME NEW k \in 1..Len(flags)
        PROVE  flags[k].name \in FlagsOf(D)
    <3>1. PICK l \in P : flags[l].name = flags[k].name
      BY <1>3
    <3>2. PICK n \in 1..Len(D) : D[n] = flags[l]
      BY <1>4
    <3>3. D[n].name = flags[k].name
      BY <3>1, <3>2
    <3> QED
      BY <3>3 DEF FlagsOf
  <2>3. FlagsOf(D) \subseteq FlagsOf(flags)
    BY <2>1 DEF FlagsOf
  <2>4. FlagsOf(flags) \subseteq FlagsOf(D)
    BY <2>2 DEF FlagsOf
  <2> QED
    BY <2>3, <2>4
<1>6. ASSUME NEW n \in 1..Len(D), NEW m \in 1..Len(D), D[n].name = D[m].name
      PROVE  n = m
  <2>1. PICK k \in P : D[n] = flags[k] /\ Cardinality(Below(P, k)) = n
    BY <1>4
  <2>2. PICK l \in P : D[m] = flags[l] /\ Cardinality(Below(P, l)) = m
    BY <1>4
  <2>3. k = l
    BY <1>2, <1>6, <2>1, <2>2
  <2> QED
    BY <2>1, <2>2, <2>3
<1>7. \A n \in 1..Len(D) : \E k \in 1..Len(flags) : D[n] = flags[k]
  BY <1>1, <1>4
<1> QED
  BY <1>4, <1>5, <1>6, <1>7 DEF D

\* What normalizeFlagName returns stays as it is when it is normalized again.
LEMMA NormalizedOnce ==
  ASSUME NEW f \in Spellings, ~Unusable(f)
  PROVE  /\ NormalizeFlagName(f) \in Spellings
         /\ NormalizeFlagName(f).name = f.name
         /\ ~Unusable(NormalizeFlagName(f))
         /\ NormalizeFlagName(NormalizeFlagName(f)) = NormalizeFlagName(f)
<1>1. CASE f.name \in SystemFlags
  <2>1. NormalizeFlagName(f) = System(f.name)
    BY <1>1 DEF NormalizeFlagName
  <2>2. System(f.name) \in Spellings /\ System(f.name).name = f.name
    BY <1>1 DEF System, Spellings, Names
  <2>3. ~Unusable(System(f.name))
    BY <1>1, <2>2, FlagAssumption DEF Unusable
  <2>4. NormalizeFlagName(System(f.name)) = System(f.name)
    BY <1>1, <2>2 DEF NormalizeFlagName
  <2> QED
    BY <2>1, <2>2, <2>3, <2>4
<1>2. CASE f.name \notin SystemFlags
  BY <1>2 DEF NormalizeFlagName
<1> QED
  BY <1>1, <1>2

Good(f) == f \in Spellings /\ ~Unusable(f) /\ NormalizeFlagName(f) = f

LEMMA SeenGood == Good(System("seen")) /\ System("seen").name = "seen"
<1>1. System("seen") \in Spellings /\ System("seen").name = "seen"
  BY FlagAssumption DEF System, Spellings, Names
<1>2. ~Unusable(System("seen"))
  BY <1>1, FlagAssumption DEF Unusable
<1>3. NormalizeFlagName(System("seen")) = System("seen")
  BY <1>1, FlagAssumption DEF NormalizeFlagName
<1> QED
  BY <1>1, <1>2, <1>3 DEF Good

\* One side of a plan has the flags that were asked for, normalized and each once.
LEMMA SideFaithful ==
  ASSUME NEW r, NEW value, NEW raw \in Seq(Spellings), \A k \in 1..Len(raw) : ~Unusable(raw[k]),
         NEW side, side = Side(r, value, raw)
  PROVE  /\ FlagsOf(side) = Asked(r, value, raw)
         /\ \A k, l \in 1..Len(side) : side[k].name = side[l].name => k = l
         /\ \A k \in 1..Len(side) : ~Unusable(side[k]) /\ NormalizeFlagName(side[k]) = side[k]
<1> DEFINE head == IF r.seen = value THEN <<System("seen")>> ELSE <<>>
           tail == [k \in 1..Len(raw) |-> NormalizeFlagName(raw[k])]
           flags == head \o tail
<1>1. \A k \in 1..Len(raw) : Good(tail[k]) /\ tail[k].name = raw[k].name
  BY NormalizedOnce DEF Good
<1>2. tail \in Seq(Spellings) /\ Len(tail) = Len(raw) /\ Len(raw) \in Nat
  <2>1. Len(raw) \in Nat
    OBVIOUS
  <2>2. tail \in [1..Len(raw) -> Spellings]
    BY <1>1 DEF Good
  <2> HIDE DEF tail
  <2> QED
    BY <2>1, <2>2
<1>3. /\ head \in Seq(Spellings)
      /\ \A k \in 1..Len(head) : head[k] = System("seen") /\ r.seen = value
      /\ Len(head) = IF r.seen = value THEN 1 ELSE 0
  BY SeenGood DEF Good
<1> HIDE DEF head, tail
<1>4. /\ flags \in Seq(Spellings) /\ Len(flags) = Len(head) + Len(tail)
      /\ \A k \in 1..Len(head) : flags[k] = head[k]
      /\ \A k \in 1..Len(tail) : flags[Len(head) + k] = tail[k]
  <2>1. /\ flags \in Seq(Spellings) /\ Len(flags) = Len(head) + Len(tail)
        /\ \A k \in 1..(Len(head) + Len(tail)) : flags[k] = IF k <= Len(head) THEN head[k] ELSE tail[k - Len(head)]
    <3>1. head \in Seq(Spellings) /\ tail \in Seq(Spellings)
      BY <1>2, <1>3
    <3> QED
      BY <3>1, ConcatProperties, Zenon
  <2> HIDE DEF flags
  <2>2. Len(head) \in Nat /\ Len(tail) \in Nat
    BY <1>2, <1>3
  <2>3. ASSUME NEW k \in 1..Len(tail)
        PROVE  flags[Len(head) + k] = tail[k]
    <3>1. Len(head) + k \in 1..(Len(head) + Len(tail)) /\ ~(Len(head) + k <= Len(head)) /\ (Len(head) + k) - Len(head) = k
      BY <2>2
    <3> QED
      BY <2>1, <3>1
  <2>4. ASSUME NEW k \in 1..Len(head)
        PROVE  flags[k] = head[k]
    <3>1. k \in 1..(Len(head) + Len(tail)) /\ k <= Len(head)
      BY <2>2
    <3> QED
      BY <2>1, <3>1
  <2> QED
    BY <2>1, <2>3, <2>4
<1> HIDE DEF flags
<1>5. Len(head) \in Nat /\ Len(tail) \in Nat
  BY <1>2, <1>3
<1>6. ASSUME NEW k \in 1..Len(flags)
      PROVE  \/ flags[k] = System("seen") /\ r.seen = value
             \/ \E l \in 1..Len(raw) : flags[k] = tail[l]
  <2>1. CASE k <= Len(head)
    <3>1. k \in 1..Len(head)
      BY <1>5, <2>1
    <3> QED
      BY <1>3, <1>4, <3>1
  <2>2. CASE ~(k <= Len(head))
    <3>1. k - Len(head) \in 1..Len(tail) /\ Len(head) + (k - Len(head)) = k
      BY <1>4, <1>5, <2>2
    <3>2. flags[k] = tail[k - Len(head)]
      BY <1>4, <3>1
    <3> QED
      BY <1>2, <3>1, <3>2
  <2> QED
    BY <2>1, <2>2
<1>7. \A k \in 1..Len(flags) : Good(flags[k])
  BY <1>1, <1>6, SeenGood
<1>8. FlagsOf(flags) = Asked(r, value, raw)
  <2>1. \A k \in 1..Len(flags) : flags[k].name \in Asked(r, value, raw)
    <3> SUFFICES ASSUME NEW k \in 1..Len(flags)
                 PROVE  flags[k].name \in Asked(r, value, raw)
      OBVIOUS
    <3>1. CASE flags[k] = System("seen") /\ r.seen = value
      BY <3>1, SeenGood DEF Asked
    <3>2. CASE \E l \in 1..Len(raw) : flags[k] = tail[l]
      BY <1>1, <3>2 DEF Asked, FlagsOf
    <3> QED
      BY <1>6, <3>1, <3>2
  <2>2. ASSUME NEW name \in Asked(r, value, raw)
        PROVE  \E k \in 1..Len(flags) : flags[k].name = name
    <3>1. CASE name = "seen" /\ r.seen = value
      <4>1. 1 \in 1..Len(head) /\ 1 \in 1..Len(flags)
        BY <1>3, <1>4, <1>5, <3>1
      <4> QED
        BY <1>3, <1>4, <3>1, <4>1, SeenGood
    <3>2. CASE name \in FlagsOf(raw)
      <4>1. PICK l \in 1..Len(raw) : raw[l].name = name
        BY <3>2 DEF FlagsOf
      <4>2. Len(head) + l \in 1..Len(flags)
        BY <1>2, <1>4, <1>5
      <4>3. flags[Len(head) + l] = tail[l]
        BY <1>2, <1>4
      <4> QED
        BY <1>1, <4>1, <4>2, <4>3
    <3> QED
      BY <2>2, <3>1, <3>2 DEF Asked
  <2> QED
    BY <2>1, <2>2 DEF FlagsOf
<1>9. side = DedupeFlags(flags)
  BY DEF Side, flags, head, tail
<1>10. /\ FlagsOf(side) = FlagsOf(flags)
       /\ \A n \in 1..Len(side) : \E k \in 1..Len(flags) : side[n] = flags[k]
       /\ \A n, m \in 1..Len(side) : side[n].name = side[m].name => n = m
  <2>1. flags \in Seq(Spellings)
    BY <1>4
  <2> QED
    BY <1>9, <2>1, Deduped
<1> QED
  BY <1>7, <1>8, <1>10 DEF Good

-----------------------------------------------------------------------------
\* Whatever flags a node's configuration or a message asks for, in lists of any length and spelt in any
\* way: normalizeAckAction throws, or its plan does what was asked for, and executing it, which
\* validates and normalizes it again, finds it as it is.
THEOREM PlansFaithful ==
  request \in Requests(Seq(Spellings), Seq(Spellings)) => PlanFaithful
<1> SUFFICES ASSUME request \in Requests(Seq(Spellings), Seq(Spellings)), Plan # Rejected
             PROVE  /\ FlagsOf(Plan.add) = Asked(request, "set", request.add)
                    /\ FlagsOf(Plan.remove) = Asked(request, "clear", request.remove)
                    /\ FlagsOf(Plan.add) \intersect FlagsOf(Plan.remove) = {}
                    /\ \A side \in {Plan.add, Plan.remove} :
                         /\ \A k, l \in 1..Len(side) : side[k].name = side[l].name => k = l
                         /\ \A k \in 1..Len(side) : ~Unusable(side[k]) /\ NormalizeFlagName(side[k]) = side[k]
                    /\ Plan.action = "delete" => request.action = "delete" \/ request.from = "node"
                    /\ Plan.target => request.target
  BY DEF PlanFaithful
<1> DEFINE add == Side(request, "set", request.add)
           remove == Side(request, "clear", request.remove)
           plan == [action |-> Action(request), target |-> request.target /\ Action(request) \in {"move", "copy"},
                    add |-> add, remove |-> remove]
<1>1. /\ request.add \in Seq(Spellings) /\ request.remove \in Seq(Spellings)
      /\ request.from \in {"node", "message"}
  BY DEF Requests
<1>2. /\ ~(request.from = "message" /\ request.action = "missing")
      /\ \A k \in 1..Len(request.add) : ~Unusable(request.add[k])
      /\ \A k \in 1..Len(request.remove) : ~Unusable(request.remove[k])
      /\ PlanValid(plan) /\ Plan = plan
  BY DEF Plan, NormalizeAckAction
<1> HIDE DEF add, remove
<1>3. Plan.add = add /\ Plan.remove = remove /\ Plan.action = Action(request) /\ (Plan.target => request.target)
  BY <1>2
<1>4. /\ FlagsOf(add) = Asked(request, "set", request.add)
      /\ \A k, l \in 1..Len(add) : add[k].name = add[l].name => k = l
      /\ \A k \in 1..Len(add) : ~Unusable(add[k]) /\ NormalizeFlagName(add[k]) = add[k]
  BY <1>1, <1>2, SideFaithful DEF add
<1>5. /\ FlagsOf(remove) = Asked(request, "clear", request.remove)
      /\ \A k, l \in 1..Len(remove) : remove[k].name = remove[l].name => k = l
      /\ \A k \in 1..Len(remove) : ~Unusable(remove[k]) /\ NormalizeFlagName(remove[k]) = remove[k]
  BY <1>1, <1>2, SideFaithful DEF remove
<1>6. FlagsOf(add) \intersect FlagsOf(remove) = {}
  BY <1>2 DEF PlanValid
<1>7. Plan.action = "delete" => request.action = "delete" \/ request.from = "node"
  BY <1>1, <1>2, <1>3 DEF Action
<1> QED
  BY <1>3, <1>4, <1>5, <1>6, <1>7
=============================================================================
