------------------------- MODULE ImapEmailInProofs --------------------------
(* Theorems about ImapEmailIn for every value of its constants.            *)
EXTENDS ImapEmailIn, TLAPS, FiniteSetTheorems, SequenceTheorems

Cursor == 1..(MaxUid + 1)
Cursor0 == 0..(MaxUid + 1)

Candidate == [uid : Uid, scan : Cursor0, new : Cursor0]

\* The types of a node's fields.
NodeState ==
  [scan : Cursor, validity : 0..MaxValidity, newUid : Cursor0,
   close : {"open", "closing", "finalized"},
   at : {"idle", "connect", "lock", "window", "expunge", "fetch", "content", "logout"},
   limit : Nat, session : 0..MaxValidity, exists : 0..MaxUid, next : Cursor0,
   kind : {"cursor", "backlog", "new"}, first : Cursor0, last : 0..MaxUid,
   newEnd : 0..MaxUid, seen : Nat, cands : Seq(Candidate), over : SUBSET Uid,
   deleted : SUBSET Uid, purge : SUBSET Uid, late : SUBSET Uid, expunged : Nat,
   after : Cursor0, retryScan : Cursor0, retryNew : Cursor0, fresh : BOOLEAN,
   startScan : Cursor0, startNew : Cursor0, closeScan : Cursor0, closeNew : Cursor0,
   pos : Nat, stale : BOOLEAN, how : {"none", "done", "interrupted", "thrown"}]

Distinct(cands) == \A i, j \in 1..Len(cands) : cands[i].uid = cands[j].uid => i = j

\* The messages seen flagged during the candidate loop were candidates before `pos`.
LateIsPast(s, pos) == \A u \in s.late : \E i \in 1..Len(s.cands) : i < pos /\ s.cands[i].uid = u

\* What holds of a cycle from the mailbox's selection to its end, wherever it stands.
Cycle(s) ==
  /\ s \in NodeState
  /\ Len(s.cands) <= s.limit /\ Distinct(s.cands)
  /\ s.startScan # 0 /\ s.after # 0 /\ s.session # 0

\* While windows are read, no candidate has been fetched.
Reading(s) == Cycle(s) /\ s.exists # 0 /\ s.late = {} /\ s.pos = 0

\* What the node's fields promise each other at each await.
Sound(s) ==
  /\ s \in NodeState
  /\ Len(s.cands) <= s.limit
  /\ s.at \in {"idle", "connect", "lock"} => s.cands = <<>> /\ s.late = {} /\ s.pos = 0
  /\ s.at # "idle" => s.startScan # 0
  /\ s.at \in {"window", "expunge", "fetch", "content"} => Cycle(s)
  /\ s.at = "window" => /\ Reading(s)
                        /\ s.first \in 1..s.last
                        /\ s.last <= IF s.kind = "new" THEN s.newEnd ELSE s.exists
  /\ s.at = "expunge" => s.purge # {} /\ (s.pos = 0 => s.late = {})
  /\ s.at \in {"fetch", "content"} => s.pos \in 1..Len(s.cands) /\ LateIsPast(s, s.pos)

\* The server's mailbox, the registry and the counters have their types and every node is sound.
IInv ==
  /\ mailbox \in Mailbox /\ active \subseteq Messages
  /\ errors \in 0..MaxErrors /\ changes \in 0..MaxChanges
  /\ node = [n \in Nodes |-> node[n]]
  /\ \A n \in Nodes : Sound(node[n])

\* The messages the cycle may still mark in flight.
Rest(s) ==
  IF s.at \in {"connect", "lock", "window"} \/ (s.at = "expunge" /\ s.pos = 0) THEN s.limit
  ELSE IF s.at \in {"fetch", "content"} THEN Len(s.cands) - s.pos + 1 ELSE 0

\* What is in flight and what the cycle may still add fit together.
Within(n) == Cardinality(active) + Rest(node[n]) <= MaxInflight
Room == \A n \in Nodes : Within(n)

-----------------------------------------------------------------------------
(* Finite sets of numbers: counting the smaller ones numbers the elements. *)

Below(S, u) == {v \in S : v <= u}

LEMMA UidFinite == IsFiniteSet(Uid) /\ \A S \in SUBSET Uid : IsFiniteSet(S) /\ Cardinality(S) \in Nat
<1>1. IsFiniteSet(Uid)
  BY BoundAssumption, FS_Interval DEF Uid
<1>2. \A S \in SUBSET Uid : IsFiniteSet(S)
  BY <1>1, FS_Subset
<1> QED
  BY <1>1, <1>2, FS_CardinalityType

LEMMA BelowType ==
  ASSUME NEW S, S \subseteq Nat, IsFiniteSet(S), NEW u \in S
  PROVE  Cardinality(Below(S, u)) \in 1..Cardinality(S)
<1> DEFINE B == Below(S, u)
<1>1. B \in SUBSET S /\ u \in B
  BY DEF Below
<1> HIDE DEF B
<1>2. IsFiniteSet(B) /\ Cardinality(B) <= Cardinality(S)
  BY <1>1, FS_Subset
<1>3. Cardinality(B) \in Nat /\ Cardinality(S) \in Nat
  BY <1>2, FS_CardinalityType
<1>4. Cardinality(B) # 0
  BY <1>1, <1>2, FS_EmptySet
<1> QED
  BY <1>2, <1>3, <1>4 DEF B

LEMMA BelowGrows ==
  ASSUME NEW S, S \subseteq Nat, IsFiniteSet(S), NEW u \in S, NEW w \in S, u < w
  PROVE  Cardinality(Below(S, u)) < Cardinality(Below(S, w))
<1> DEFINE B == Below(S, u)
           C == Below(S, w)
<1>0. u \in Nat /\ w \in Nat /\ \A v \in S : v \in Nat
  OBVIOUS
<1>1. B \in SUBSET C /\ w \in C /\ w \notin B /\ C \in SUBSET S
  <2>1. \A v \in S : v <= u => v <= w
    BY <1>0
  <2>2. w <= w /\ ~(w <= u)
    BY <1>0
  <2> QED
    BY <2>1, <2>2 DEF Below
<1> HIDE DEF B, C
<1>2. IsFiniteSet(C)
  BY <1>1, FS_Subset
<1>3. IsFiniteSet(B) /\ Cardinality(B) <= Cardinality(C) /\ Cardinality(B) # Cardinality(C)
  BY <1>1, <1>2, FS_Subset
<1>4. Cardinality(B) \in Nat /\ Cardinality(C) \in Nat
  BY <1>2, <1>3, FS_CardinalityType
<1> QED
  BY <1>3, <1>4 DEF B, C

\* Every number up to the size of the set is the rank of one of its elements.
LEMMA Ranks ==
  ASSUME NEW S, S \subseteq Nat, IsFiniteSet(S), NEW i \in 1..Cardinality(S)
  PROVE  \E u \in S : Cardinality(Below(S, u)) = i
<1> DEFINE T == 1..Cardinality(S)
           f == [u \in S |-> Cardinality(Below(S, u))]
<1>1. Cardinality(S) \in Nat
  BY FS_CardinalityType
<1>2. IsFiniteSet(T) /\ Cardinality(T) = Cardinality(S)
  BY <1>1, FS_Interval
<1>3. f \in [S -> T]
  BY BelowType
<1>4. \A u, w \in S : f[u] = f[w] => u = w
  <2> SUFFICES ASSUME NEW u \in S, NEW w \in S, f[u] = f[w], u # w
               PROVE  FALSE
    OBVIOUS
  <2>1. f[u] = Cardinality(Below(S, u)) /\ f[w] = Cardinality(Below(S, w))
    OBVIOUS
  <2>2. f[u] \in Int /\ f[w] \in Int
    BY <1>3, <1>1
  <2>3. u \in Nat /\ w \in Nat
    OBVIOUS
  <2>4. CASE u < w
    <3>1. Cardinality(Below(S, u)) < Cardinality(Below(S, w))
      BY <2>4, BelowGrows
    <3> QED
      BY <2>1, <2>2, <3>1
  <2>5. CASE w < u
    <3>1. Cardinality(Below(S, w)) < Cardinality(Below(S, u))
      BY <2>5, BelowGrows
    <3> QED
      BY <2>1, <2>2, <3>1
  <2> QED
    BY <2>3, <2>4, <2>5
<1>5. f \in Injection(S, T)
  BY <1>3, <1>4 DEF Injection, IsInjective
<1> HIDE DEF f
<1>6. f \in Surjection(S, T)
  BY <1>2, <1>5, FS_Injection
<1>7. \E u \in S : f[u] = i
  BY <1>6 DEF Surjection
<1> QED
  BY <1>7 DEF f

\* A set of numbers has a least and a greatest element.
LEMMA Extremes ==
  ASSUME NEW S, S \subseteq Nat, IsFiniteSet(S), S # {}
  PROVE  /\ \E u \in S : \A v \in S : u <= v
         /\ \E u \in S : Below(S, u) = S
<1> DEFINE c == Cardinality(S)
<1>1. c \in Nat /\ c # 0
  BY FS_CardinalityType, FS_EmptySet
<1>0. 1 \in 1..Cardinality(S) /\ c \in 1..Cardinality(S)
  BY <1>1
<1> HIDE DEF c
<1>2. PICK u \in S : Cardinality(Below(S, u)) = 1
  BY <1>0, Ranks
<1>3. PICK w \in S : Cardinality(Below(S, w)) = c
  BY <1>0, Ranks
<1> USE DEF c
<1>4. \A v \in S : u <= v
  <2> SUFFICES ASSUME NEW v \in S, v < u
               PROVE  FALSE
    OBVIOUS
  <2>1. Cardinality(Below(S, v)) \in 1..c
    BY BelowType
  <2>2. Cardinality(Below(S, v)) < Cardinality(Below(S, u))
    BY BelowGrows
  <2> QED
    BY <1>1, <1>2, <2>1, <2>2
<1>5. Below(S, w) \in SUBSET S
  BY DEF Below
<1>6. Below(S, w) = S
  BY <1>3, <1>5, FS_Subset
<1> QED
  BY <1>4, <1>6

LEMMA LeastUid ==
  ASSUME NEW S, S \subseteq Uid, S # {}
  PROVE  MinOf(S) \in S /\ \A v \in S : MinOf(S) <= v
<1>1. S \subseteq Nat /\ IsFiniteSet(S)
  BY UidFinite, BoundAssumption DEF Uid
<1>2. \E u \in S : \A v \in S : u <= v
  BY <1>1, Extremes
<1> QED
  BY <1>2 DEF MinOf

\* The k smallest elements of a set are at most k.
LEMMA SmallestBound ==
  ASSUME NEW S, S \subseteq Uid, NEW k \in Int
  PROVE  /\ Smallest(S, k) \subseteq S
         /\ k >= 0 => Cardinality(Smallest(S, k)) <= k
         /\ S # {} /\ k >= 1 => Smallest(S, k) # {}
<1> DEFINE C == Smallest(S, k)
<1>1. C \in SUBSET S
  BY DEF Smallest
<1>2. IsFiniteSet(C) /\ C \subseteq Nat /\ Cardinality(C) \in Nat
  <2> HIDE DEF C
  <2>1. C \in SUBSET Uid
    BY <1>1
  <2>2. Uid \subseteq Nat
    BY BoundAssumption DEF Uid
  <2> QED
    BY <2>1, <2>2, UidFinite
<1>3. ASSUME k >= 0, C # {}
      PROVE  Cardinality(C) <= k
  <2>1. PICK u \in C : Below(C, u) = C
    BY <1>2, <1>3, Extremes
  <2> DEFINE L == {v \in S : v < u}
  <2>2. Cardinality(L) < k
    BY <2>1 DEF Smallest
  <2>3. C \ {u} \in SUBSET L
    BY <1>1, <1>2, <2>1 DEF Below
  <2> HIDE DEF C, L
  <2>4. Cardinality(C \ {u}) = Cardinality(C) - 1
    BY <1>2, <2>1, FS_RemoveElement
  <2>5. L \in SUBSET Uid
    BY DEF L
  <2>6. IsFiniteSet(L) /\ Cardinality(L) \in Nat
    BY <2>5, UidFinite
  <2>7. Cardinality(C \ {u}) <= Cardinality(L)
    BY <2>3, <2>6, FS_Subset
  <2> QED
    BY <1>2, <2>2, <2>4, <2>6, <2>7
<1>4. ASSUME k >= 0, C = {}
      PROVE  Cardinality(C) <= k
  BY <1>4, FS_EmptySet
<1>5. ASSUME S # {}, k >= 1
      PROVE  C # {}
  <2>1. S \subseteq Nat /\ IsFiniteSet(S)
    BY UidFinite, BoundAssumption DEF Uid
  <2>2. PICK u \in S : \A v \in S : u <= v
    BY <2>1, <1>5, Extremes
  <2>3. {v \in S : v < u} = {}
    <3>1. \A v \in S : v \in Nat /\ u \in Nat /\ u <= v
      BY <2>1, <2>2
    <3>2. \A v \in S : ~(v < u)
      BY <3>1
    <3> QED
      BY <3>2
  <2>4. u \in C
    BY <1>5, <2>3, FS_EmptySet DEF Smallest
  <2> QED
    BY <2>4
<1> QED
  BY <1>1, <1>3, <1>4, <1>5

\* What is left out comes after what is taken.
LEMMA SmallestFirst ==
  ASSUME NEW S, S \subseteq Uid, NEW k \in Int, NEW v \in Smallest(S, k),
         NEW u \in S, u \notin Smallest(S, k)
  PROVE  v < u
<1>1. v \in S /\ u \in Nat /\ v \in Nat
  BY BoundAssumption DEF Smallest, Uid
<1> SUFFICES ASSUME u <= v
             PROVE  FALSE
  BY <1>1
<1> DEFINE L == {w \in S : w < u}
           M == {w \in S : w < v}
<1>2. L \in SUBSET M /\ M \in SUBSET Uid
  <2>1. \A w \in S : w \in Nat
    BY BoundAssumption DEF Uid
  <2>2. \A w \in S : w < u => w < v
    BY <1>1, <2>1
  <2>3. L \subseteq M
    BY <2>2
  <2>4. M \subseteq Uid
    OBVIOUS
  <2> HIDE DEF L, M
  <2> QED
    BY <2>3, <2>4
<1>3. Cardinality(M) < k /\ ~(Cardinality(L) < k)
  BY DEF Smallest
<1> HIDE DEF L, M
<1>4. IsFiniteSet(M) /\ Cardinality(M) \in Nat
  BY <1>2, UidFinite
<1>5. Cardinality(L) \in Nat /\ Cardinality(L) <= Cardinality(M)
  BY <1>2, <1>4, FS_Subset, FS_CardinalityType
<1> QED
  BY <1>3, <1>4, <1>5

-----------------------------------------------------------------------------
(* The synchronous parts of the cycle keep a node sound.                   *)

\* What a cycle purges is not in flight.
Spares(s) == s.at = "expunge" => \A u \in s.purge : ~InFlight(s, u)

\* A sound node that may mark at most `room` messages and purges none in flight.
Fits(s, room) == Sound(s) /\ Spares(s) /\ Rest(s) <= room

\* A node state stays one when a field gets a value of its type.
LEMMA Updates ==
  ASSUME NEW s \in NodeState
  PROVE  /\ \A x \in Cursor : [s EXCEPT !.scan = x] \in NodeState
         /\ \A x \in 0..MaxValidity : [s EXCEPT !.validity = x] \in NodeState
         /\ \A x \in Cursor0 : [s EXCEPT !.newUid = x] \in NodeState
         /\ \A x \in {"open", "closing", "finalized"} : [s EXCEPT !.close = x] \in NodeState
         /\ \A x \in {"idle", "connect", "lock", "window", "expunge", "fetch", "content", "logout"} :
              [s EXCEPT !.at = x] \in NodeState
         /\ \A x \in Nat : [s EXCEPT !.limit = x] \in NodeState
         /\ \A x \in 0..MaxValidity : [s EXCEPT !.session = x] \in NodeState
         /\ \A x \in 0..MaxUid : [s EXCEPT !.exists = x] \in NodeState
         /\ \A x \in Cursor0 : [s EXCEPT !.next = x] \in NodeState
         /\ \A x \in {"cursor", "backlog", "new"} : [s EXCEPT !.kind = x] \in NodeState
         /\ \A x \in Cursor0 : [s EXCEPT !.first = x] \in NodeState
         /\ \A x \in 0..MaxUid : [s EXCEPT !.last = x] \in NodeState
         /\ \A x \in Nat : [s EXCEPT !.seen = x] \in NodeState
         /\ \A x \in 0..MaxUid : [s EXCEPT !.newEnd = x] \in NodeState
         /\ \A x \in Seq(Candidate) : [s EXCEPT !.cands = x] \in NodeState
         /\ \A x \in SUBSET Uid : [s EXCEPT !.over = x] \in NodeState
         /\ \A x \in SUBSET Uid : [s EXCEPT !.deleted = x] \in NodeState
         /\ \A x \in SUBSET Uid : [s EXCEPT !.purge = x] \in NodeState
         /\ \A x \in SUBSET Uid : [s EXCEPT !.late = x] \in NodeState
         /\ \A x \in Nat : [s EXCEPT !.expunged = x] \in NodeState
         /\ \A x \in Cursor0 : [s EXCEPT !.after = x] \in NodeState
         /\ \A x \in Cursor0 : [s EXCEPT !.retryScan = x] \in NodeState
         /\ \A x \in Cursor0 : [s EXCEPT !.retryNew = x] \in NodeState
         /\ \A x \in BOOLEAN : [s EXCEPT !.fresh = x] \in NodeState
         /\ \A x \in Cursor0 : [s EXCEPT !.startScan = x] \in NodeState
         /\ \A x \in Cursor0 : [s EXCEPT !.startNew = x] \in NodeState
         /\ \A x \in Cursor0 : [s EXCEPT !.closeScan = x] \in NodeState
         /\ \A x \in Cursor0 : [s EXCEPT !.closeNew = x] \in NodeState
         /\ \A x \in Nat : [s EXCEPT !.pos = x] \in NodeState
         /\ \A x \in BOOLEAN : [s EXCEPT !.stale = x] \in NodeState
         /\ \A x \in {"none", "done", "interrupted", "thrown"} :
              [s EXCEPT !.how = x] \in NodeState
<1>1. \A x \in Cursor : [s EXCEPT !.scan = x] \in NodeState
  BY DEF NodeState
<1>2. \A x \in 0..MaxValidity : [s EXCEPT !.validity = x] \in NodeState
  BY DEF NodeState
<1>3. \A x \in Cursor0 : [s EXCEPT !.newUid = x] \in NodeState
  BY DEF NodeState
<1>4. \A x \in {"open", "closing", "finalized"} : [s EXCEPT !.close = x] \in NodeState
  BY DEF NodeState
<1>5. \A x \in {"idle", "connect", "lock", "window", "expunge", "fetch", "content", "logout"} :
              [s EXCEPT !.at = x] \in NodeState
  <2> SUFFICES ASSUME NEW x \in {"idle", "connect", "lock", "window", "expunge", "fetch",
                                  "content", "logout"}
               PROVE  [s EXCEPT !.at = x] \in NodeState
    OBVIOUS
  <2> QED
    BY DEF NodeState
<1>6. \A x \in Nat : [s EXCEPT !.limit = x] \in NodeState
  BY DEF NodeState
<1>7. \A x \in 0..MaxValidity : [s EXCEPT !.session = x] \in NodeState
  BY DEF NodeState
<1>8. \A x \in 0..MaxUid : [s EXCEPT !.exists = x] \in NodeState
  BY DEF NodeState
<1>9. \A x \in Cursor0 : [s EXCEPT !.next = x] \in NodeState
  BY DEF NodeState
<1>10. \A x \in {"cursor", "backlog", "new"} : [s EXCEPT !.kind = x] \in NodeState
  BY DEF NodeState
<1>11. \A x \in Cursor0 : [s EXCEPT !.first = x] \in NodeState
  BY DEF NodeState
<1>12. \A x \in 0..MaxUid : [s EXCEPT !.last = x] \in NodeState
  BY DEF NodeState
<1>13. \A x \in Nat : [s EXCEPT !.seen = x] \in NodeState
  BY DEF NodeState
<1>14. \A x \in 0..MaxUid : [s EXCEPT !.newEnd = x] \in NodeState
  BY DEF NodeState
<1>15. \A x \in Seq(Candidate) : [s EXCEPT !.cands = x] \in NodeState
  BY DEF NodeState
<1>16. \A x \in SUBSET Uid : [s EXCEPT !.over = x] \in NodeState
  BY DEF NodeState
<1>17. \A x \in SUBSET Uid : [s EXCEPT !.deleted = x] \in NodeState
  BY DEF NodeState
<1>18. \A x \in SUBSET Uid : [s EXCEPT !.purge = x] \in NodeState
  BY DEF NodeState
<1>19. \A x \in SUBSET Uid : [s EXCEPT !.late = x] \in NodeState
  BY DEF NodeState
<1>20. \A x \in Nat : [s EXCEPT !.expunged = x] \in NodeState
  BY DEF NodeState
<1>21. \A x \in Cursor0 : [s EXCEPT !.after = x] \in NodeState
  BY DEF NodeState
<1>22. \A x \in Cursor0 : [s EXCEPT !.retryScan = x] \in NodeState
  BY DEF NodeState
<1>23. \A x \in Cursor0 : [s EXCEPT !.retryNew = x] \in NodeState
  BY DEF NodeState
<1>24. \A x \in BOOLEAN : [s EXCEPT !.fresh = x] \in NodeState
  BY DEF NodeState
<1>25. \A x \in Cursor0 : [s EXCEPT !.startScan = x] \in NodeState
  BY DEF NodeState
<1>26. \A x \in Cursor0 : [s EXCEPT !.startNew = x] \in NodeState
  BY DEF NodeState
<1>27. \A x \in Cursor0 : [s EXCEPT !.closeScan = x] \in NodeState
  BY DEF NodeState
<1>28. \A x \in Cursor0 : [s EXCEPT !.closeNew = x] \in NodeState
  BY DEF NodeState
<1>29. \A x \in Nat : [s EXCEPT !.pos = x] \in NodeState
  BY DEF NodeState
<1>30. \A x \in BOOLEAN : [s EXCEPT !.stale = x] \in NodeState
  BY DEF NodeState
<1>31. \A x \in {"none", "done", "interrupted", "thrown"} :
              [s EXCEPT !.how = x] \in NodeState
  BY DEF NodeState
<1> QED
  BY <1>1, <1>2, <1>3, <1>4, <1>5, <1>6, <1>7, <1>8, <1>9, <1>10, <1>11, <1>12, <1>13,
     <1>14, <1>15, <1>16, <1>17, <1>18, <1>19, <1>20, <1>21, <1>22, <1>23, <1>24,
     <1>25, <1>26, <1>27, <1>28, <1>29, <1>30, <1>31

LEMMA EndCycleFits ==
  ASSUME NEW s, Cycle(s), NEW how \in {"done", "interrupted"}
  PROVE  /\ EndCycle(s, how).at = "logout"
         /\ Fits(EndCycle(s, how), 0)
<1> USE BoundAssumption
<1>1. s \in NodeState
  BY DEF Cycle
<1> DEFINE back == s.retryScan # 0 /\ (how = "interrupted" \/ s.expunged > 0)
           scan == IF back THEN s.retryScan ELSE s.after
           newUid == IF how = "interrupted" /\ s.retryNew # 0 THEN s.retryNew
                     ELSE IF back /\ s.fresh THEN 0 ELSE s.newUid
<1>2. scan \in Cursor /\ newUid \in Cursor0
  <2>1. /\ s.retryScan \in Cursor0 /\ s.after \in Cursor0 /\ s.after # 0
        /\ s.retryNew \in Cursor0 /\ s.newUid \in Cursor0
    BY <1>1 DEF NodeState, Cycle
  <2>2. \A x \in Cursor0 : x # 0 => x \in Cursor
    BY DEF Cursor, Cursor0
  <2>3. 0 \in Cursor0
    BY DEF Cursor0
  <2>4. scan \in Cursor
    BY <2>1, <2>2
  <2>5. newUid \in Cursor0
    BY <2>1, <2>3
  <2> QED
    BY <2>4, <2>5
<1>3. EndCycle(s, how) = [s EXCEPT !.at = "logout", !.how = how, !.scan = scan,
                                   !.newUid = newUid, !.validity = s.session]
  BY <1>1 DEF EndCycle, NodeState
<1> HIDE DEF back, scan, newUid
<1> DEFINE r == EndCycle(s, how)
<1>4. s.session \in 0..MaxValidity
  BY <1>1 DEF NodeState
<1>5. r \in NodeState
  <2> DEFINE t1 == [s EXCEPT !.at = "logout"]
             t2 == [t1 EXCEPT !.how = how]
             t3 == [t2 EXCEPT !.scan = scan]
             t4 == [t3 EXCEPT !.newUid = newUid]
             t5 == [t4 EXCEPT !.validity = s.session]
  <2>0. r = t5
    BY <1>3
  <2> HIDE DEF t1, t2, t3, t4, t5
  <2>1. t1 \in NodeState
    BY <1>1, Updates DEF t1
  <2>2. t2 \in NodeState
    BY <2>1, Updates DEF t2
  <2>3. t3 \in NodeState
    BY <2>2, <1>2, Updates DEF t3
  <2>4. t4 \in NodeState
    BY <2>3, <1>2, Updates DEF t4
  <2>5. t5 \in NodeState
    BY <2>4, <1>4, Updates DEF t5
  <2> QED
    BY <2>0, <2>5
<1>6. r.at = "logout" /\ r.cands = s.cands /\ r.limit = s.limit /\ r.startScan = s.startScan
  BY <1>1, <1>3 DEF NodeState
<1> HIDE DEF r
<1> QED
  BY <1>5, <1>6 DEF Fits, Sound, Cycle, Spares, Rest, r

LEMMA NoteCandidateRollbackFits ==
  ASSUME NEW s, Cycle(s), NEW i \in 1..Len(s.cands), LateIsPast(s, i)
  PROVE  /\ NoteCandidateRollback(s, i).at = "fetch"
         /\ Fits(NoteCandidateRollback(s, i), Len(s.cands) - i + 1)
<1> USE BoundAssumption
<1>1. s \in NodeState /\ s.cands \in Seq(Candidate)
  BY DEF Cycle, NodeState
<1>2. s.cands[i] \in Candidate /\ Len(s.cands) \in Nat /\ i \in Nat
  BY <1>1, ElementOfSeq, LenProperties
<1> DEFINE c == s.cands[i]
           closeScan == IF c.scan # 0 THEN c.scan ELSE s.closeScan
           closeNew == IF c.new # 0 THEN c.new ELSE s.closeNew
<1>3. c.scan \in Cursor0 /\ c.new \in Cursor0 /\ closeScan \in Cursor0 /\ closeNew \in Cursor0
  BY <1>1, <1>2 DEF Candidate, NodeState
<1>4. NoteCandidateRollback(s, i) =
        [s EXCEPT !.at = "fetch", !.pos = i, !.retryScan = c.scan, !.retryNew = c.new,
                  !.closeScan = closeScan, !.closeNew = closeNew]
  BY <1>1 DEF NoteCandidateRollback, NodeState
<1> HIDE DEF c, closeScan, closeNew
<1> DEFINE r == NoteCandidateRollback(s, i)
<1>5. r \in NodeState
  <2> DEFINE t1 == [s EXCEPT !.at = "fetch"]
             t2 == [t1 EXCEPT !.pos = i]
             t3 == [t2 EXCEPT !.retryScan = c.scan]
             t4 == [t3 EXCEPT !.retryNew = c.new]
             t5 == [t4 EXCEPT !.closeScan = closeScan]
             t6 == [t5 EXCEPT !.closeNew = closeNew]
  <2>0. r = t6
    BY <1>4
  <2> HIDE DEF t1, t2, t3, t4, t5, t6
  <2>1. t1 \in NodeState
    BY <1>1, Updates DEF t1
  <2>2. t2 \in NodeState
    BY <2>1, <1>2, Updates DEF t2
  <2>3. t3 \in NodeState
    BY <2>2, <1>3, Updates DEF t3
  <2>4. t4 \in NodeState
    BY <2>3, <1>3, Updates DEF t4
  <2>5. t5 \in NodeState
    BY <2>4, <1>3, Updates DEF t5
  <2>6. t6 \in NodeState
    BY <2>5, <1>3, Updates DEF t6
  <2> QED
    BY <2>0, <2>6
<1>6. /\ r.at = "fetch" /\ r.pos = i /\ r.cands = s.cands /\ r.limit = s.limit
      /\ r.startScan = s.startScan /\ r.after = s.after /\ r.session = s.session
      /\ r.late = s.late
  BY <1>1, <1>4 DEF NodeState
<1> HIDE DEF r
<1>7. Cycle(r)
  BY <1>5, <1>6 DEF Cycle
<1>8. LateIsPast(r, i)
  BY <1>6 DEF LateIsPast
<1>9. Rest(r) = Len(s.cands) - i + 1
  BY <1>6 DEF Rest
<1> QED
  BY <1>2, <1>5, <1>6, <1>7, <1>8, <1>9 DEF Fits, Sound, Cycle, Spares, r

ToExpunge(s, i, P) == [s EXCEPT !.at = "expunge", !.pos = i, !.purge = P]

\* A cycle that stops for an expunge of messages that are not in flight.
LEMMA ExpungeFits ==
  ASSUME NEW s, Cycle(s), NEW S \in SUBSET Uid, Purgeable(s, S) # {},
         NEW i \in Nat, i = 0 => s.late = {},
         NEW r, r = ToExpunge(s, i, Purgeable(s, S))
  PROVE  /\ r.at = "expunge" /\ r.purge \subseteq S
         /\ Fits(r, s.limit)
         /\ i # 0 => Fits(r, 0)
<1> DEFINE P == Purgeable(s, S)
<1>1. s \in NodeState
  BY DEF Cycle
<1>2. P \subseteq S /\ P \in SUBSET Uid /\ P # {} /\ \A u \in P : ~InFlight(s, u)
  BY DEF Purgeable
<1>0. r = [s EXCEPT !.at = "expunge", !.pos = i, !.purge = P]
  BY DEF ToExpunge
<1> HIDE DEF P
<1>3. r \in NodeState
  <2> DEFINE t1 == [s EXCEPT !.at = "expunge"]
             t2 == [t1 EXCEPT !.pos = i]
             t3 == [t2 EXCEPT !.purge = P]
  <2>0. r = t3
    BY <1>0
  <2> HIDE DEF t1, t2, t3
  <2>1. t1 \in NodeState
    BY <1>1, Updates DEF t1
  <2>2. t2 \in NodeState
    BY <2>1, Updates DEF t2
  <2>3. t3 \in NodeState
    BY <2>2, <1>2, Updates DEF t3
  <2> QED
    BY <2>0, <2>3
<1>4. /\ r.at = "expunge" /\ r.purge = P /\ r.pos = i /\ r.cands = s.cands
      /\ r.limit = s.limit /\ r.startScan = s.startScan /\ r.after = s.after
      /\ r.session = s.session /\ r.late = s.late
  BY <1>1, <1>0 DEF NodeState
<1>5. Cycle(r)
  BY <1>3, <1>4 DEF Cycle
<1>6. Sound(r)
  BY <1>2, <1>3, <1>4, <1>5 DEF Sound, Cycle
<1>7. Spares(r)
  BY <1>2, <1>4 DEF Spares, InFlight
<1>8. r.limit \in Nat /\ Rest(r) = IF i = 0 THEN s.limit ELSE 0
  BY <1>1, <1>4 DEF Rest, NodeState
<1> QED
  BY <1>2, <1>4, <1>6, <1>7, <1>8 DEF Fits

\* The candidate at i is next, or the end of the candidates.
LEMMA NextCandidateFits ==
  ASSUME NEW s, Cycle(s), NEW i \in Nat \ {0}, LateIsPast(s, i)
  PROVE  LET r == NextCandidate(s, i)
         IN  /\ Fits(r, IF i <= Len(s.cands) THEN Len(s.cands) - i + 1 ELSE 0)
             /\ r.at = "expunge" => r.purge \subseteq s.late
<1> DEFINE r == NextCandidate(s, i)
<1>1. s \in NodeState /\ s.cands \in Seq(Candidate) /\ s.late \in SUBSET Uid
  BY DEF Cycle, NodeState
<1>2. Len(s.cands) \in Nat
  BY <1>1, LenProperties
<1>3. CASE i <= Len(s.cands)
  <2>1. i \in 1..Len(s.cands)
    BY <1>2, <1>3
  <2>2. r = NoteCandidateRollback(s, i)
    BY <1>3 DEF NextCandidate
  <2>3. r.at = "fetch" /\ Fits(r, Len(s.cands) - i + 1)
    BY <2>1, <2>2, NoteCandidateRollbackFits
  <2> QED
    BY <1>3, <2>3
<1>4. CASE ~(i <= Len(s.cands)) /\ Purgeable(s, s.late) # {}
  <2>1. r = ToExpunge(s, i, Purgeable(s, s.late))
    BY <1>4 DEF NextCandidate, ToExpunge
  <2>2. i \in Nat /\ i # 0
    OBVIOUS
  <2> HIDE DEF r
  <2>3. r.purge \subseteq s.late /\ (i # 0 => Fits(r, 0))
    BY <1>1, <1>4, <2>1, <2>2, ExpungeFits
  <2> QED
    BY <1>4, <2>3 DEF r
<1>5. CASE ~(i <= Len(s.cands)) /\ Purgeable(s, s.late) = {}
  <2>1. r = EndCycle(s, "done")
    BY <1>5 DEF NextCandidate
  <2>2. r.at = "logout" /\ Fits(r, 0)
    BY <2>1, EndCycleFits
  <2> QED
    BY <1>5, <2>2
<1> QED
  BY <1>3, <1>4, <1>5

\* The end of the windows: the cycle goes on to the expunge or to the candidates.
LEMMA ReadingDoneFits ==
  ASSUME NEW s, Reading(s)
  PROVE  Fits(ReadingDone(s), s.limit)
<1> DEFINE r == ReadingDone(s)
<1>1. s \in NodeState /\ Cycle(s) /\ s.late = {} /\ s.pos = 0
  BY DEF Reading, Cycle
<1>2. s.deleted \in SUBSET Uid /\ s.limit \in Nat /\ s.cands \in Seq(Candidate)
  BY <1>1 DEF NodeState
<1>3. Len(s.cands) \in Nat /\ Len(s.cands) <= s.limit
  BY <1>1, <1>2, LenProperties DEF Cycle
<1>4. CASE Purgeable(s, s.deleted) # {}
  <2>1. [s EXCEPT !.pos = 0] = s
    BY <1>1 DEF NodeState
  <2> DEFINE P == Purgeable(s, s.deleted)
  <2>2. r = [s EXCEPT !.at = "expunge", !.purge = P]
    BY <1>4 DEF ReadingDone
  <2> HIDE DEF P
  <2>5. ToExpunge(s, 0, P) = [[s EXCEPT !.pos = 0] EXCEPT !.at = "expunge", !.purge = P]
    BY <1>1 DEF NodeState, ToExpunge
  <2>3. r = ToExpunge(s, 0, Purgeable(s, s.deleted))
    BY <2>1, <2>2, <2>5 DEF P
  <2> HIDE DEF r
  <2>4. Fits(r, s.limit)
    BY <1>1, <1>2, <1>4, <2>3, ExpungeFits
  <2> QED
    BY <2>4 DEF r
<1>5. CASE Purgeable(s, s.deleted) = {}
  <2>1. r = NextCandidate(s, 1)
    BY <1>5 DEF ReadingDone
  <2>2. LateIsPast(s, 1)
    BY <1>1 DEF LateIsPast
  <2> DEFINE room == IF 1 <= Len(s.cands) THEN Len(s.cands) - 1 + 1 ELSE 0
  <2>3. Fits(r, room)
    BY <1>1, <2>1, <2>2, NextCandidateFits
  <2>4. room \in Int /\ room <= s.limit
    BY <1>2, <1>3
  <2>5. Rest(r) \in Int
    <3>1. r \in NodeState
      BY <2>3 DEF Fits, Sound
    <3>2. r.limit \in Nat /\ r.pos \in Nat /\ r.cands \in Seq(Candidate)
      BY <3>1 DEF NodeState
    <3> QED
      BY <3>2, LenProperties DEF Rest
  <2> HIDE DEF room
  <2> QED
    BY <1>2, <2>3, <2>4, <2>5 DEF Fits
<1> QED
  BY <1>4, <1>5

\* The window at the scan cursor lies within the mailbox.
LEMMA CursorWindowFits ==
  ASSUME NEW s, Reading(s), NEW kind \in {"cursor", "backlog"}, NEW size \in Nat \ {0}
  PROVE  Fits(CursorWindow(s, kind, size), s.limit)
<1> DEFINE start == IF s.scan > s.exists THEN 1 ELSE s.scan
           last == Min2(s.exists, start + size - 1)
           retryScan == IF s.retryScan = 0 THEN start ELSE s.retryScan
           r == CursorWindow(s, kind, size)
<1>1. s \in NodeState /\ Cycle(s)
  BY DEF Reading, Cycle
<1>2. /\ s.scan \in Cursor /\ s.exists \in 0..MaxUid /\ s.exists # 0
      /\ s.retryScan \in Cursor0 /\ s.limit \in Nat
  BY <1>1 DEF Reading, NodeState
<1>3. start \in Cursor /\ start \in Nat /\ 1 <= start /\ start <= s.exists
  BY <1>2, BoundAssumption DEF Cursor
<1> HIDE DEF start
<1>4. last \in 0..MaxUid /\ start \in 1..last /\ last <= s.exists
  BY <1>2, <1>3, BoundAssumption DEF Min2
<1>5. retryScan \in Cursor0
  BY <1>2, <1>3 DEF Cursor, Cursor0
<1>6. r = [s EXCEPT !.at = "window", !.kind = kind, !.scan = start, !.first = start,
                    !.last = last, !.retryScan = retryScan]
  BY <1>1 DEF CursorWindow, NodeState, start
<1> HIDE DEF last, retryScan, r
<1>7. start \in Cursor0
  BY <1>3 DEF Cursor, Cursor0
<1>8. r \in NodeState
  <2> DEFINE t1 == [s EXCEPT !.at = "window"]
             t2 == [t1 EXCEPT !.kind = kind]
             t3 == [t2 EXCEPT !.scan = start]
             t4 == [t3 EXCEPT !.first = start]
             t5 == [t4 EXCEPT !.last = last]
             t6 == [t5 EXCEPT !.retryScan = retryScan]
  <2>0. r = t6
    BY <1>6
  <2> HIDE DEF t1, t2, t3, t4, t5, t6
  <2>1. t1 \in NodeState
    BY <1>1, Updates DEF t1
  <2>2. t2 \in NodeState
    BY <2>1, Updates DEF t2
  <2>3. t3 \in NodeState
    BY <2>2, <1>3, Updates DEF t3
  <2>4. t4 \in NodeState
    BY <2>3, <1>7, Updates DEF t4
  <2>5. t5 \in NodeState
    BY <2>4, <1>4, Updates DEF t5
  <2>6. t6 \in NodeState
    BY <2>5, <1>5, Updates DEF t6
  <2> QED
    BY <2>0, <2>6
<1>9. /\ r.at = "window" /\ r.kind = kind /\ r.first = start /\ r.last = last
      /\ r.cands = s.cands /\ r.limit = s.limit /\ r.startScan = s.startScan
      /\ r.after = s.after /\ r.session = s.session /\ r.exists = s.exists
      /\ r.late = s.late /\ r.pos = s.pos
  BY <1>1, <1>6 DEF NodeState
<1>10. Reading(r)
  BY <1>8, <1>9 DEF Reading, Cycle
<1>11. Rest(r) = s.limit
  BY <1>9 DEF Rest
<1>12. Sound(r)
  BY <1>4, <1>8, <1>9, <1>10 DEF Sound, Reading, Cycle
<1>13. Spares(r)
  BY <1>9 DEF Spares
<1> QED
  BY <1>2, <1>11, <1>12, <1>13 DEF Fits, r

\* A chunk of the new UIDs lies within them.
LEMMA NewUidChunkFits ==
  ASSUME NEW s, Reading(s), NEW end \in 0..MaxUid, NEW start \in 1..end
  PROVE  Fits(NewUidChunk(s, start, end), s.limit)
<1> DEFINE last == Min2(end, start + MaxUidPerCommand - 1)
           r == NewUidChunk(s, start, end)
<1>1. s \in NodeState /\ Cycle(s)
  BY DEF Reading, Cycle
<1>2. s.limit \in Nat /\ MaxUidPerCommand \in Nat \ {0}
  BY <1>1, LimitAssumption DEF NodeState
<1>3. last \in 0..MaxUid /\ start \in 1..last /\ last <= end
  BY <1>2, BoundAssumption DEF Min2
<1>4. start \in Cursor0
  BY BoundAssumption DEF Cursor0
<1>5. r = [s EXCEPT !.at = "window", !.kind = "new", !.first = start, !.newEnd = end,
                    !.last = last]
  BY DEF NewUidChunk
<1> HIDE DEF last, r
<1>6. r \in NodeState
  <2> DEFINE t1 == [s EXCEPT !.at = "window"]
             t2 == [t1 EXCEPT !.kind = "new"]
             t3 == [t2 EXCEPT !.first = start]
             t4 == [t3 EXCEPT !.newEnd = end]
             t5 == [t4 EXCEPT !.last = last]
  <2>0. r = t5
    BY <1>5
  <2> HIDE DEF t1, t2, t3, t4, t5
  <2>1. t1 \in NodeState
    BY <1>1, Updates DEF t1
  <2>2. t2 \in NodeState
    BY <2>1, Updates DEF t2
  <2>3. t3 \in NodeState
    BY <2>2, <1>4, Updates DEF t3
  <2>4. t4 \in NodeState
    BY <2>3, Updates DEF t4
  <2>5. t5 \in NodeState
    BY <2>4, <1>3, Updates DEF t5
  <2> QED
    BY <2>0, <2>5
<1>7. /\ r.at = "window" /\ r.kind = "new" /\ r.first = start /\ r.last = last
      /\ r.newEnd = end /\ r.cands = s.cands /\ r.limit = s.limit
      /\ r.startScan = s.startScan /\ r.after = s.after /\ r.session = s.session
      /\ r.exists = s.exists /\ r.late = s.late /\ r.pos = s.pos
  BY <1>1, <1>5 DEF NodeState
<1>8. Reading(r)
  BY <1>6, <1>7 DEF Reading, Cycle
<1>9. Rest(r) = s.limit
  BY <1>7 DEF Rest
<1>10. Sound(r)
  BY <1>3, <1>6, <1>7, <1>8 DEF Sound, Reading, Cycle
<1>11. Spares(r)
  BY <1>7 DEF Spares
<1> QED
  BY <1>2, <1>9, <1>10, <1>11 DEF Fits, r

LEMMA WindowSizes == NewWindowSize \in Nat \ {0} /\ BacklogWindowSize \in Nat \ {0}
<1>1. FrontWindowSize \in Nat \ {0}
  BY LimitAssumption
<1>2. (FrontWindowSize + 1) \div 2 \in Int
  BY <1>1
<1>3. NewWindowSize \in Nat \ {0}
  BY <1>2 DEF NewWindowSize, Max2
<1> QED
  BY <1>1, <1>3 DEF BacklogWindowSize, Max2

\* The cycle's first window.
LEMMA FirstWindowFits ==
  ASSUME NEW s, Reading(s), s.next # 0
  PROVE  Fits(FirstWindow(s), s.limit)
<1> DEFINE newUid == Min2(s.newUid, s.next)
           known == [s EXCEPT !.newUid = newUid]
           end == Min2(s.next - 1, newUid + NewWindowSize - 1)
<1>1. s \in NodeState
  BY DEF Reading, Cycle
<1>2. /\ s.newUid \in Cursor0 /\ s.next \in Cursor0 /\ s.limit \in Nat
      /\ Cursor0 = 0..(MaxUid + 1) /\ MaxUid \in Nat /\ FrontWindowSize \in Nat \ {0}
  BY <1>1, BoundAssumption, LimitAssumption DEF NodeState, Cursor0
<1>3. newUid \in Cursor0
  BY <1>2 DEF Min2
<1>4. /\ known.newUid = newUid /\ known.limit = s.limit /\ known.cands = s.cands
      /\ known.startScan = s.startScan /\ known.after = s.after /\ known.late = s.late
      /\ known.session = s.session /\ known.exists = s.exists /\ known.pos = s.pos
  BY <1>1 DEF NodeState
<1>5. known = [s EXCEPT !.newUid = Min2(@, s.next)]
  BY <1>1 DEF NodeState
<1> HIDE DEF newUid
<1>6. known \in NodeState
  BY <1>1, <1>3, Updates
<1> HIDE DEF known
<1>7. Reading(known)
  BY <1>4, <1>6 DEF Reading, Cycle
<1>8. CASE s.newUid = 0
  <2>1. FirstWindow(s) = CursorWindow(s, "cursor", FrontWindowSize)
    BY <1>8 DEF FirstWindow
  <2> QED
    BY <1>2, <2>1, CursorWindowFits
<1>9. CASE s.newUid # 0 /\ newUid < s.next
  <2>1. newUid >= 1
    BY <1>2, <1>9 DEF newUid, Min2
  <2>2. end \in 0..MaxUid /\ newUid \in 1..end
    <3>1. PICK w \in Nat \ {0} : w = NewWindowSize
      BY WindowSizes
    <3>2. end = IF s.next - 1 < newUid + w - 1 THEN s.next - 1 ELSE newUid + w - 1
      BY <3>1 DEF Min2
    <3>3. newUid \in Nat /\ s.next \in Nat /\ s.next - 1 <= MaxUid
      BY <1>2, <1>3
    <3> QED
      BY <1>2, <1>9, <2>1, <3>2, <3>3
  <2>3. FirstWindow(s) = NewUidChunk(known, newUid, end)
    BY <1>4, <1>5, <1>9 DEF FirstWindow
  <2> HIDE DEF end
  <2>4. Fits(NewUidChunk(known, newUid, end), known.limit)
    BY <1>7, <2>2, NewUidChunkFits
  <2> QED
    BY <1>4, <2>3, <2>4
<1>10. CASE s.newUid # 0 /\ ~(newUid < s.next)
  <2>1. FirstWindow(s) = CursorWindow(known, "backlog", BacklogWindowSize)
    BY <1>4, <1>5, <1>10 DEF FirstWindow
  <2> QED
    BY <1>4, <1>7, <2>1, WindowSizes, CursorWindowFits
<1> QED
  BY <1>8, <1>9, <1>10

Chosen(chosen, i) == CHOOSE u \in chosen : Cardinality({v \in chosen : v <= u}) = i

Extended(cands, chosen, entry, nth) == cands \o [i \in 1..Cardinality(chosen) |-> entry[nth[i]]]

MadeOf(all, cands, entry, chosen) ==
  \A i \in 1..Len(all) : \/ \E j \in 1..Len(cands) : all[i] = cands[j]
                         \/ \E u \in chosen : all[i] = entry[u]

\* What the window's FETCH adds: distinct candidates that fit into the batch.
LEMMA CandidatesAdded ==
  ASSUME NEW cands \in Seq(Candidate), Distinct(cands), NEW limit \in Nat, Len(cands) <= limit,
         NEW chosen \in SUBSET Uid, Cardinality(chosen) <= limit - Len(cands),
         \A i \in 1..Len(cands) : cands[i].uid \notin chosen,
         NEW entry, \A u \in chosen : entry[u] \in Candidate /\ entry[u].uid = u,
         NEW nth, \A i \in 1..Cardinality(chosen) : nth[i] = Chosen(chosen, i),
         NEW all, all = Extended(cands, chosen, entry, nth)
  PROVE  /\ all \in Seq(Candidate) /\ Distinct(all) /\ Len(all) <= limit
         /\ MadeOf(all, cands, entry, chosen)
<1> DEFINE c == Cardinality(chosen)
           added == [i \in 1..c |-> entry[nth[i]]]
<1>0. all = cands \o added
  BY DEF Extended
<1>1. IsFiniteSet(chosen) /\ c \in Nat /\ chosen \subseteq Nat
  BY UidFinite, BoundAssumption DEF Uid
<1>2. ASSUME NEW i \in 1..c
      PROVE  nth[i] \in chosen /\ Cardinality(Below(chosen, nth[i])) = i
  <2>1. \E u \in chosen : Cardinality({v \in chosen : v <= u}) = i
    BY <1>1, Ranks DEF Below
  <2>2. nth[i] = Chosen(chosen, i)
    OBVIOUS
  <2>3. nth[i] \in chosen /\ Cardinality({v \in chosen : v <= nth[i]}) = i
    BY <2>1, <2>2 DEF Chosen
  <2> QED
    BY <2>3 DEF Below
<1>3. added \in Seq(Candidate) /\ Len(added) = c
  <2>1. \A i \in 1..c : entry[nth[i]] \in Candidate
    BY <1>2
  <2>2. added \in [1..c -> Candidate]
    BY <2>1
  <2> HIDE DEF added
  <2> QED
    BY <1>1, <2>2, LenProperties
<1>4. \A i \in 1..c : added[i].uid = nth[i]
  BY <1>2
<1>9. \A i \in 1..c : added[i] = entry[nth[i]] /\ nth[i] \in chosen
  BY <1>2
<1> HIDE DEF added, c
<1>5. /\ all \in Seq(Candidate) /\ Len(all) = Len(cands) + c
      /\ \A i \in 1..Len(all) : all[i] = IF i <= Len(cands) THEN cands[i]
                                         ELSE added[i - Len(cands)]
  <2>1. all \in Seq(Candidate) /\ Len(all) = Len(cands) + Len(added)
    BY <1>0, <1>3, ConcatProperties
  <2>2. \A i \in 1..Len(cands) + Len(added) :
          all[i] = IF i <= Len(cands) THEN cands[i] ELSE added[i - Len(cands)]
    BY <1>0, <1>3, ConcatProperties
  <2> QED
    BY <1>3, <2>1, <2>2
<1>6. Len(cands) \in Nat
  BY LenProperties
<1>7. Len(all) <= limit
  BY <1>1, <1>5, <1>6 DEF c
<1>8. Distinct(all)
  <2> SUFFICES ASSUME NEW i \in 1..Len(all), NEW j \in 1..Len(all), all[i].uid = all[j].uid
               PROVE  i = j
    BY DEF Distinct
  <2> DEFINE n == Len(cands)
  <2>1. \A k \in 1..Len(all) :
           \/ k \in 1..n /\ all[k] = cands[k]
           \/ k - n \in 1..c /\ all[k] = added[k - n] /\ k \notin 1..n
    BY <1>1, <1>5, <1>6
  <2>2. CASE i \in 1..n /\ j \in 1..n
    BY <2>1, <2>2, <1>1, <1>6 DEF Distinct
  <2>3. CASE i \in 1..n /\ j \notin 1..n
    <3>1. all[i] = cands[i] /\ j - n \in 1..c /\ all[j] = added[j - n]
      BY <2>1, <2>3, <1>6
    <3>2. cands[i].uid \notin chosen /\ added[j - n].uid \in chosen
      BY <1>2, <1>4, <2>3, <3>1
    <3> QED
      BY <3>1, <3>2
  <2>4. CASE i \notin 1..n /\ j \in 1..n
    <3>1. all[j] = cands[j] /\ i - n \in 1..c /\ all[i] = added[i - n]
      BY <2>1, <2>4, <1>6
    <3>2. cands[j].uid \notin chosen /\ added[i - n].uid \in chosen
      BY <1>2, <1>4, <2>4, <3>1
    <3> QED
      BY <3>1, <3>2
  <2>5. CASE i \notin 1..n /\ j \notin 1..n
    <3>1. i - n \in 1..c /\ all[i] = added[i - n] /\ j - n \in 1..c /\ all[j] = added[j - n]
      BY <2>1, <2>5, <1>6
    <3>2. nth[i - n] = nth[j - n]
      BY <1>4, <3>1
    <3>3. i - n = j - n
      BY <1>2, <3>1, <3>2
    <3> QED
      BY <1>5, <1>6, <1>1, <3>3
  <2> QED
    BY <2>2, <2>3, <2>4, <2>5
<1>10. ASSUME NEW i \in 1..Len(all)
       PROVE  \/ \E j \in 1..Len(cands) : all[i] = cands[j]
              \/ \E u \in chosen : all[i] = entry[u]
  <2>1. CASE i <= Len(cands)
    <3>1. i \in 1..Len(cands) /\ all[i] = cands[i]
      BY <1>1, <1>5, <1>6, <2>1
    <3> QED
      BY <3>1
  <2>2. CASE ~(i <= Len(cands))
    <3>1. i - Len(cands) \in 1..c /\ all[i] = added[i - Len(cands)]
      BY <1>1, <1>5, <1>6, <2>2
    <3>2. PICK k \in 1..c : all[i] = added[k]
      BY <3>1
    <3> QED
      BY <1>9, <3>2
  <2> QED
    BY <2>1, <2>2
<1> QED
  BY <1>5, <1>7, <1>8, <1>10 DEF MadeOf

\* The candidates a window's FETCH shows, those of them the cycle takes, and what it notes of one.
Eligible(s) == {u \in WindowUids(s) \ Known(s) : u \in Is("wanted") /\ ~InFlight(s, u)}
Taken(s) == Smallest(Eligible(s), s.limit - Len(s.cands))
Noted(s, u) == [uid |-> u, scan |-> IF s.kind = "new" THEN 0 ELSE s.first,
                new |-> IF s.kind = "new" THEN u ELSE 0]

\* Reading a window takes and leaves candidates and moves no cursor.
Gathers(s, r) ==
  /\ r.over = s.over \union (Eligible(s) \ Taken(s))
  /\ \A i \in 1..Len(r.cands) : \/ \E j \in 1..Len(s.cands) : r.cands[i] = s.cands[j]
                                \/ \E u \in Taken(s) : r.cands[i] = Noted(s, u)
  /\ \A j \in 1..Len(s.cands) : s.cands[j].scan \in Cursor0 /\ s.cands[j].new \in Cursor0
  /\ r.fresh = s.fresh /\ r.newUid = s.newUid /\ r.after = s.after /\ r.scan = s.scan
  /\ r.how = s.how /\ r.expunged = s.expunged

\* Reading a window adds candidates, never more than the batch has room for.
LEMMA ReadCandidateWindowReads ==
  ASSUME NEW s, Reading(s), mailbox \in Mailbox, NEW r, r = ReadCandidateWindow(s)
  PROVE  /\ Reading(r) /\ r.over \ s.over \subseteq Uid
         /\ r.at = s.at /\ r.kind = s.kind /\ r.first = s.first /\ r.last = s.last
         /\ r.newEnd = s.newEnd /\ r.exists = s.exists /\ r.next = s.next /\ r.limit = s.limit
         /\ Gathers(s, r)
<1> DEFINE inWindow == WindowUids(s)
           eligible == {u \in inWindow \ Known(s) : u \in Is("wanted") /\ ~InFlight(s, u)}
           chosen == Smallest(eligible, s.limit - Len(s.cands))
           c == Cardinality(chosen)
           entry == [u \in Uid |-> [uid |-> u, scan |-> IF s.kind = "new" THEN 0 ELSE s.first,
                                    new |-> IF s.kind = "new" THEN u ELSE 0]]
           pick(i) == Chosen(chosen, i)
           nth == [i \in 1..c |-> pick(i)]
           all == s.cands \o [i \in 1..c |-> entry[nth[i]]]
           over == s.over \union (eligible \ chosen)
           deleted == s.deleted \union Smallest((inWindow \intersect Is("deleted")) \ s.deleted,
                                                ExpungeLimit - Cardinality(s.deleted))
           seen == IF s.kind = "new" THEN s.seen + Cardinality(inWindow) ELSE s.seen
<1>1. s \in NodeState /\ Cycle(s)
  BY DEF Reading, Cycle
<1>2. /\ s.cands \in Seq(Candidate) /\ s.limit \in Nat /\ s.first \in Cursor0 /\ s.seen \in Nat
      /\ s.over \in SUBSET Uid /\ s.deleted \in SUBSET Uid
  BY <1>1 DEF NodeState
<1>3. inWindow \in SUBSET Uid
  BY DEF WindowUids, Present
<1>4. eligible \in SUBSET Uid /\ \A u \in eligible : u \notin Known(s)
  BY <1>3
<1>5. Len(s.cands) \in Nat /\ Len(s.cands) <= s.limit /\ Distinct(s.cands)
  BY <1>1, <1>2, LenProperties DEF Cycle
<1>6. /\ chosen \subseteq eligible /\ chosen \in SUBSET Uid /\ c <= s.limit - Len(s.cands)
      /\ IsFiniteSet(chosen)
  <2>1. s.limit - Len(s.cands) \in Int /\ s.limit - Len(s.cands) >= 0
    BY <1>2, <1>5
  <2> HIDE DEF eligible
  <2>2. chosen \subseteq eligible /\ Cardinality(chosen) <= s.limit - Len(s.cands)
    BY <1>4, <2>1, SmallestBound
  <2> QED
    BY <1>4, <2>2, UidFinite
<1>7. \A i \in 1..Len(s.cands) : s.cands[i].uid \notin chosen
  BY <1>4, <1>6 DEF Known
<1>8. \A u \in chosen : entry[u] \in Candidate /\ entry[u].uid = u
  <2>1. \A u \in Uid : u \in Cursor0 /\ 0 \in Cursor0
    BY BoundAssumption DEF Uid, Cursor0
  <2>2. \A u \in Uid : entry[u] \in Candidate /\ entry[u].uid = u
    BY <1>2, <2>1 DEF Candidate
  <2> QED
    BY <1>6, <2>2
<1>18. eligible = Eligible(s) /\ chosen = Taken(s) /\ \A u \in chosen : entry[u] = Noted(s, u)
  <2>1. eligible = Eligible(s)
    BY DEF Eligible
  <2>2. chosen = Taken(s)
    BY <2>1 DEF Taken
  <2>3. \A u \in Uid : entry[u] = Noted(s, u)
    BY DEF Noted
  <2> HIDE DEF eligible, chosen, entry
  <2> QED
    BY <1>6, <2>1, <2>2, <2>3
<1> HIDE DEF inWindow, eligible, chosen, entry
<1>9. /\ all \in Seq(Candidate) /\ Distinct(all) /\ Len(all) <= s.limit
      /\ MadeOf(all, s.cands, entry, chosen)
  <2>1. \A i \in 1..Cardinality(chosen) : nth[i] = Chosen(chosen, i)
    OBVIOUS
  <2> HIDE DEF nth
  <2>2. all = Extended(s.cands, chosen, entry, nth)
    BY DEF Extended
  <2> HIDE DEF all
  <2>3. Cardinality(chosen) <= s.limit - Len(s.cands)
    BY <1>6
  <2> QED
    BY <1>2, <1>5, <1>6, <1>7, <1>8, <2>1, <2>2, <2>3, CandidatesAdded
<1>10. over \in SUBSET Uid
  BY <1>2, <1>4
<1>11. deleted \in SUBSET Uid
  BY <1>2, <1>3 DEF Smallest
<1>12. seen \in Nat
  BY <1>2, <1>3, UidFinite
<1>13. [i \in 1..c |-> entry[nth[i]]] =
       [i \in 1..c |-> [uid |-> pick(i), scan |-> IF s.kind = "new" THEN 0 ELSE s.first,
                        new |-> IF s.kind = "new" THEN pick(i) ELSE 0]]
  <2>1. \A i \in 1..c : pick(i) \in chosen
    <3> SUFFICES ASSUME NEW i \in 1..c
                 PROVE  pick(i) \in chosen
      OBVIOUS
    <3>1. chosen \subseteq Nat
      BY <1>6, BoundAssumption DEF Uid
    <3>2. \E u \in chosen : Cardinality({v \in chosen : v <= u}) = i
      BY <1>6, <3>1, Ranks DEF Below
    <3> QED
      BY <3>2 DEF Chosen
  <2>2. \A i \in 1..c : nth[i] = pick(i)
    OBVIOUS
  <2> HIDE DEF nth, c, pick
  <2>3. \A i \in 1..c : nth[i] \in Uid
    BY <1>6, <2>1, <2>2
  <2> QED
    BY <2>2, <2>3 DEF entry
<1>14. r = [s EXCEPT !.cands = all, !.over = over, !.deleted = deleted, !.seen = seen]
  <2> DEFINE asked == [i \in 1..c |-> [uid |-> pick(i),
                         scan |-> IF s.kind = "new" THEN 0 ELSE s.first,
                         new |-> IF s.kind = "new" THEN pick(i) ELSE 0]]
  <2>1. r = [s EXCEPT !.cands = s.cands \o asked, !.over = over, !.deleted = deleted,
                      !.seen = seen]
    BY <1>1 DEF ReadCandidateWindow, inWindow, eligible, chosen, NodeState, Chosen
  <2>2. all = s.cands \o asked
    BY <1>13
  <2> HIDE DEF asked, all
  <2> QED
    BY <2>1, <2>2
<1> HIDE DEF all, over, deleted, seen, c, nth, pick
<1>15. r \in NodeState
  <2> DEFINE t1 == [s EXCEPT !.cands = all]
             t2 == [t1 EXCEPT !.over = over]
             t3 == [t2 EXCEPT !.deleted = deleted]
             t4 == [t3 EXCEPT !.seen = seen]
  <2>0. r = t4
    BY <1>14
  <2> HIDE DEF t1, t2, t3, t4
  <2>1. t1 \in NodeState
    BY <1>1, <1>9, Updates DEF t1
  <2>2. t2 \in NodeState
    BY <2>1, <1>10, Updates DEF t2
  <2>3. t3 \in NodeState
    BY <2>2, <1>11, Updates DEF t3
  <2>4. t4 \in NodeState
    BY <2>3, <1>12, Updates DEF t4
  <2> QED
    BY <2>0, <2>4
<1>16. /\ r.cands = all /\ r.over = over /\ r.at = s.at /\ r.kind = s.kind /\ r.first = s.first
       /\ r.last = s.last /\ r.newEnd = s.newEnd /\ r.exists = s.exists /\ r.next = s.next
       /\ r.limit = s.limit /\ r.startScan = s.startScan /\ r.after = s.after
       /\ r.session = s.session /\ r.late = s.late /\ r.pos = s.pos
  BY <1>1, <1>14 DEF NodeState
<1>17. Reading(r)
  BY <1>9, <1>15, <1>16 DEF Reading, Cycle
<1>19. /\ r.fresh = s.fresh /\ r.newUid = s.newUid /\ r.scan = s.scan /\ r.how = s.how
       /\ r.expunged = s.expunged
  BY <1>1, <1>14 DEF NodeState
<1>20. Gathers(s, r)
  <2>1. r.over = s.over \union (Eligible(s) \ Taken(s))
    BY <1>16, <1>18 DEF over
  <2>2. \A i \in 1..Len(r.cands) : \/ \E j \in 1..Len(s.cands) : r.cands[i] = s.cands[j]
                                   \/ \E u \in Taken(s) : r.cands[i] = Noted(s, u)
    BY <1>9, <1>16, <1>18 DEF MadeOf
  <2>3. \A j \in 1..Len(s.cands) : s.cands[j].scan \in Cursor0 /\ s.cands[j].new \in Cursor0
    <3>1. \A j \in 1..Len(s.cands) : s.cands[j] \in Candidate
      BY <1>2, ElementOfSeq
    <3> QED
      BY <3>1 DEF Candidate
  <2> QED
    BY <1>16, <1>19, <2>1, <2>2, <2>3 DEF Gathers
<1> QED
  BY <1>10, <1>16, <1>17, <1>20

ScanAt(s, scan) == [s EXCEPT !.scan = scan, !.after = scan]
NewUidAt(s, newUid) == [s EXCEPT !.newUid = newUid]
FreshAt(s, newUid) == [s EXCEPT !.newUid = newUid, !.fresh = TRUE]

\* Moving the cursors between windows leaves what the cycle rests on.
LEMMA CursorsMoved ==
  ASSUME NEW s, Reading(s)
  PROVE  /\ \A scan \in Cursor : Reading(ScanAt(s, scan)) /\ ScanAt(s, scan).limit = s.limit
         /\ \A newUid \in Cursor0 :
              /\ Reading(NewUidAt(s, newUid)) /\ NewUidAt(s, newUid).limit = s.limit
              /\ Reading(FreshAt(s, newUid)) /\ FreshAt(s, newUid).limit = s.limit
<1>0. 1 \in Cursor /\ 0 \in Cursor0
  BY BoundAssumption DEF Cursor, Cursor0
<1> SUFFICES ASSUME NEW scan \in Cursor, NEW newUid \in Cursor0
             PROVE  /\ Reading(ScanAt(s, scan)) /\ ScanAt(s, scan).limit = s.limit
                    /\ Reading(NewUidAt(s, newUid)) /\ NewUidAt(s, newUid).limit = s.limit
                    /\ Reading(FreshAt(s, newUid)) /\ FreshAt(s, newUid).limit = s.limit
  BY <1>0
<1> DEFINE a == ScanAt(s, scan)
           b == NewUidAt(s, newUid)
           c == FreshAt(s, newUid)
<1>1. s \in NodeState
  BY DEF Reading, Cycle
<1>2. scan \in Cursor0 /\ scan # 0
  BY BoundAssumption DEF Cursor, Cursor0
<1>3. a \in NodeState
  <2> DEFINE t1 == [s EXCEPT !.scan = scan]
             t2 == [t1 EXCEPT !.after = scan]
  <2>0. a = t2
    BY DEF ScanAt
  <2> HIDE DEF t1, t2
  <2>1. t1 \in NodeState
    BY <1>1, Updates DEF t1
  <2>2. t2 \in NodeState
    BY <2>1, <1>2, Updates DEF t2
  <2> QED
    BY <2>0, <2>2
<1>4. b \in NodeState
  BY <1>1, Updates DEF NewUidAt
<1>5. c \in NodeState
  <2>0. c = [b EXCEPT !.fresh = TRUE]
    BY DEF FreshAt, NewUidAt
  <2> HIDE DEF b, c
  <2> QED
    BY <1>4, <2>0, Updates
<1>6. /\ a.cands = s.cands /\ a.limit = s.limit /\ a.startScan = s.startScan /\ a.after = scan
      /\ a.session = s.session /\ a.exists = s.exists /\ a.late = s.late /\ a.pos = s.pos
  BY <1>1 DEF NodeState, ScanAt
<1>7. /\ b.cands = s.cands /\ b.limit = s.limit /\ b.startScan = s.startScan
      /\ b.after = s.after /\ b.session = s.session /\ b.exists = s.exists
      /\ b.late = s.late /\ b.pos = s.pos
  BY <1>1 DEF NodeState, NewUidAt
<1>8. /\ c.cands = s.cands /\ c.limit = s.limit /\ c.startScan = s.startScan
      /\ c.after = s.after /\ c.session = s.session /\ c.exists = s.exists
      /\ c.late = s.late /\ c.pos = s.pos
  BY <1>1 DEF NodeState, FreshAt
<1> HIDE DEF a, b, c
<1>9. Reading(a)
  BY <1>2, <1>3, <1>6 DEF Reading, Cycle
<1>10. Reading(b)
  BY <1>4, <1>7 DEF Reading, Cycle
<1>11. Reading(c)
  BY <1>5, <1>8 DEF Reading, Cycle
<1> QED
  BY <1>6, <1>7, <1>8, <1>9, <1>10, <1>11 DEF a, b, c

\* After the new UIDs the cycle reads the backlog or is done reading.
LEMMA AfterNewUidsFits ==
  ASSUME NEW s, Reading(s), NEW missed \in SUBSET Uid
  PROVE  Fits(AfterNewUids(s, missed), s.limit)
<1> DEFINE newUid == IF missed # {} THEN MinOf(missed) ELSE s.last + 1
           covered == missed = {} /\ s.last + 1 >= s.next /\ s.seen >= s.exists
           here == NewUidAt(s, newUid)
           top == ScanAt(here, 1)
           r == AfterNewUids(s, missed)
<1>1. s \in NodeState
  BY DEF Reading, Cycle
<1>2. newUid \in Cursor0
  <2>1. s.last \in 0..MaxUid
    BY <1>1 DEF NodeState
  <2>2. missed # {} => MinOf(missed) \in Uid
    BY LeastUid
  <2>3. \A u \in Uid : u \in Cursor0
    BY BoundAssumption DEF Uid, Cursor0
  <2>4. s.last + 1 \in Cursor0
    BY <2>1, BoundAssumption DEF Cursor0
  <2> QED
    BY <2>2, <2>3, <2>4
<1>3. 1 \in Cursor
  BY BoundAssumption DEF Cursor
<1>4. /\ r = ReadingDone(top) \/ r = ReadingDone(here)
           \/ r = CursorWindow(here, "backlog", BacklogWindowSize)
  BY DEF AfterNewUids, NewUidAt, ScanAt
<1> HIDE DEF newUid
<1>5. Reading(here) /\ here.limit = s.limit
  BY <1>2, CursorsMoved
<1> HIDE DEF here
<1>6. Reading(top) /\ top.limit = here.limit
  BY <1>3, <1>5, CursorsMoved
<1> HIDE DEF top, r
<1>7. Fits(ReadingDone(top), s.limit)
  BY <1>5, <1>6, ReadingDoneFits
<1>8. Fits(ReadingDone(here), s.limit)
  BY <1>5, ReadingDoneFits
<1>9. Fits(CursorWindow(here, "backlog", BacklogWindowSize), s.limit)
  BY <1>5, WindowSizes, CursorWindowFits
<1> QED
  BY <1>4, <1>7, <1>8, <1>9 DEF r

\* After a window the cycle reads the next one or is done reading.
LEMMA AfterWindowFits ==
  ASSUME NEW s, Reading(s), NEW missed \in SUBSET Uid, NEW timeout \in BOOLEAN,
         s.first \in 1..s.last, s.last <= IF s.kind = "new" THEN s.newEnd ELSE s.exists
  PROVE  Fits(AfterWindow(s, missed, timeout), s.limit)
<1> DEFINE r == AfterWindow(s, missed, timeout)
           moved == MoveScanCursor(s, missed # {})
           next == IF s.last >= s.exists THEN 1 ELSE s.last + 1
           scan == IF missed # {} THEN s.first ELSE next
           fresh == FreshAt(moved, s.next)
<1>1. s \in NodeState
  BY DEF Reading, Cycle
<1>2. /\ s.kind \in {"cursor", "backlog", "new"} /\ s.last \in 0..MaxUid /\ s.newEnd \in 0..MaxUid
      /\ s.exists \in 0..MaxUid /\ s.first \in Cursor0 /\ s.next \in Cursor0
  BY <1>1 DEF NodeState
<1>3. scan \in Cursor
  <2>1. s.first \in Cursor
    BY <1>2, BoundAssumption DEF Cursor
  <2>2. next \in Cursor
    BY <1>2, BoundAssumption DEF Cursor
  <2> QED
    BY <2>1, <2>2
<1>4. moved = ScanAt(s, scan)
  BY DEF MoveScanCursor, ScanAt
<1> HIDE DEF scan, next, moved
<1>5. Reading(moved) /\ moved.limit = s.limit
  BY <1>3, <1>4, CursorsMoved
<1>6. Reading(fresh) /\ fresh.limit = s.limit
  BY <1>2, <1>5, CursorsMoved
<1> HIDE DEF fresh
<1>7. Fits(ReadingDone(moved), s.limit) /\ Fits(ReadingDone(fresh), s.limit)
  BY <1>5, <1>6, ReadingDoneFits
<1>8. Fits(CursorWindow(moved, "cursor", FrontWindowSize), s.limit)
  BY <1>5, LimitAssumption, CursorWindowFits
<1>9. Fits(AfterNewUids(s, missed), s.limit)
  BY AfterNewUidsFits
<1>10. CASE s.kind = "backlog"
  BY <1>7, <1>10 DEF AfterWindow, moved
<1>11. CASE s.kind = "new"
  <2>1. CASE missed = {} /\ s.last < s.newEnd /\ ~Full(s)
    <3>1. s.last + 1 \in 1..s.newEnd
      BY <1>2, <2>1
    <3>2. Fits(NewUidChunk(s, s.last + 1, s.newEnd), s.limit)
      BY <1>2, <3>1, NewUidChunkFits
    <3> QED
      BY <1>11, <2>1, <3>2 DEF AfterWindow
  <2>2. CASE ~(missed = {} /\ s.last < s.newEnd /\ ~Full(s))
    BY <1>9, <1>11, <2>2 DEF AfterWindow
  <2> QED
    BY <2>1, <2>2
<1>12. CASE s.kind = "cursor"
  <2>1. r = ReadingDone(moved) \/ r = ReadingDone(fresh)
          \/ r = CursorWindow(moved, "cursor", FrontWindowSize)
    BY <1>12 DEF AfterWindow, moved, fresh, FreshAt
  <2> HIDE DEF r
  <2> QED
    BY <1>7, <1>8, <2>1 DEF r
<1> QED
  BY <1>2, <1>10, <1>11, <1>12

\* What the session knows of the mailbox.
SelectedAt(s) == [s EXCEPT !.session = mailbox.validity, !.next = mailbox.next,
                           !.exists = Cardinality(Present), !.after = s.scan]

LEMMA SelectedReads ==
  ASSUME NEW s \in NodeState, mailbox \in Mailbox
  PROVE  /\ SelectedAt(s) \in NodeState /\ WithValidity(SelectedAt(s)) \in NodeState
         /\ mailbox.validity \in 0..MaxValidity /\ mailbox.validity # 0
         /\ mailbox.next \in Cursor0 /\ mailbox.next # 0
<1> DEFINE here == SelectedAt(s)
           valid == WithValidity(here)
<1>1. s.scan \in Cursor0 /\ 1 \in Cursor /\ 0 \in Cursor0
  <2>1. s.scan \in Cursor
    BY DEF NodeState
  <2> QED
    BY <2>1, BoundAssumption DEF Cursor, Cursor0
<1>2. /\ mailbox.validity \in 0..MaxValidity /\ mailbox.validity # 0
      /\ mailbox.next \in Cursor0 /\ mailbox.next # 0
  BY BoundAssumption DEF Mailbox, Cursor0
<1>3. Cardinality(Present) \in 0..MaxUid
  <2>1. Present \in SUBSET Uid
    BY DEF Present
  <2>2. IsFiniteSet(Uid) /\ Cardinality(Uid) = MaxUid
    BY BoundAssumption, FS_Interval DEF Uid
  <2>3. Cardinality(Present) \in Nat /\ Cardinality(Present) <= MaxUid
    BY <2>1, <2>2, UidFinite, FS_Subset
  <2> QED
    BY <2>3, BoundAssumption
<1>4. here \in NodeState
  <2> DEFINE t1 == [s EXCEPT !.session = mailbox.validity]
             t2 == [t1 EXCEPT !.next = mailbox.next]
             t3 == [t2 EXCEPT !.exists = Cardinality(Present)]
             t4 == [t3 EXCEPT !.after = s.scan]
  <2>0. here = t4
    BY DEF SelectedAt
  <2> HIDE DEF t1, t2, t3, t4
  <2>1. t1 \in NodeState
    BY <1>2, Updates DEF t1
  <2>2. t2 \in NodeState
    BY <2>1, <1>2, Updates DEF t2
  <2>3. t3 \in NodeState
    BY <2>2, <1>3, Updates DEF t3
  <2>4. t4 \in NodeState
    BY <2>3, <1>1, Updates DEF t4
  <2> QED
    BY <2>0, <2>4
<1> HIDE DEF here
<1>5. here.session \in 0..MaxValidity
  BY <1>4 DEF NodeState
<1>6. valid \in NodeState
  <2>1. CASE here.validity \in {0, here.session}
    BY <1>4, <1>5, <2>1, Updates DEF WithValidity
  <2>2. CASE here.validity \notin {0, here.session}
    <3> DEFINE t1 == [here EXCEPT !.validity = here.session]
               t2 == [t1 EXCEPT !.scan = 1]
               t3 == [t2 EXCEPT !.newUid = 0]
    <3>0. valid = t3
      BY <2>2 DEF WithValidity
    <3> HIDE DEF t1, t2, t3, valid
    <3>1. t1 \in NodeState
      BY <1>4, <1>5, Updates DEF t1
    <3>2. t2 \in NodeState
      BY <3>1, <1>1, Updates DEF t2
    <3>3. t3 \in NodeState
      BY <3>2, <1>1, Updates DEF t3
    <3> QED
      BY <3>0, <3>3
  <2> QED
    BY <2>1, <2>2
<1> QED
  BY <1>2, <1>4, <1>6 DEF here

\* The mailbox is selected.
LEMMA SelectedFits ==
  ASSUME NEW s, Sound(s), s.at = "lock", mailbox \in Mailbox
  PROVE  Fits(Selected(s), s.limit)
<1> DEFINE here == SelectedAt(s)
           valid == WithValidity(here)
           done == [here EXCEPT !.at = "logout", !.how = "done", !.scan = 1,
                                !.validity = here.session, !.newUid = here.next]
           r == Selected(s)
<1>1. /\ s \in NodeState /\ s.cands = <<>> /\ s.late = {} /\ s.pos = 0 /\ s.startScan # 0
  BY DEF Sound
<1>2. s.scan \in Cursor /\ s.limit \in Nat /\ s.scan # 0
  BY <1>1 DEF NodeState, Cursor
<1>3. /\ here \in NodeState /\ valid \in NodeState
      /\ mailbox.validity # 0 /\ mailbox.next # 0
  BY <1>1, SelectedReads
<1>6. r = IF here.exists = 0 THEN done ELSE FirstWindow(valid)
  BY DEF Selected, SelectedAt
<1> HIDE DEF r
<1>8. /\ here.cands = <<>> /\ here.late = {} /\ here.pos = 0 /\ here.startScan # 0
      /\ here.session = mailbox.validity /\ here.next = mailbox.next
      /\ here.after = s.scan /\ here.limit = s.limit
  BY <1>1 DEF NodeState, SelectedAt
<1> HIDE DEF here
<1>9. Len(<<>>) = 0 /\ Distinct(<<>>)
  BY EmptySeq DEF Distinct
<1>10. Cycle(here)
  BY <1>2, <1>3, <1>8, <1>9 DEF Cycle
<1>11. CASE here.exists = 0
  <2>1. here.session \in 0..MaxValidity /\ here.next \in Cursor0
    BY <1>3 DEF NodeState
  <2>4. 1 \in Cursor
    BY BoundAssumption DEF Cursor
  <2>2. done \in NodeState
    <3> DEFINE t1 == [here EXCEPT !.at = "logout"]
               t2 == [t1 EXCEPT !.how = "done"]
               t3 == [t2 EXCEPT !.scan = 1]
               t4 == [t3 EXCEPT !.validity = here.session]
               t5 == [t4 EXCEPT !.newUid = here.next]
    <3>0. done = t5
      OBVIOUS
    <3> HIDE DEF t1, t2, t3, t4, t5
    <3>1. t1 \in NodeState
      BY <1>3, Updates DEF t1
    <3>2. t2 \in NodeState
      BY <3>1, Updates DEF t2
    <3>3. t3 \in NodeState
      BY <3>2, <2>4, Updates DEF t3
    <3>4. t4 \in NodeState
      BY <3>3, <2>1, Updates DEF t4
    <3>5. t5 \in NodeState
      BY <3>4, <2>1, Updates DEF t5
    <3> QED
      BY <3>0, <3>5
  <2>3. /\ done.at = "logout" /\ done.cands = here.cands /\ done.limit = here.limit
        /\ done.startScan = here.startScan
    BY <1>3 DEF NodeState
  <2> HIDE DEF done
  <2>5. Fits(done, s.limit)
    BY <1>2, <1>8, <1>9, <2>2, <2>3 DEF Fits, Sound, Spares, Rest
  <2> QED
    BY <1>6, <1>11, <2>5 DEF r
<1>12. CASE here.exists # 0
  <2>3. /\ valid.cands = here.cands /\ valid.limit = here.limit /\ valid.late = here.late
        /\ valid.startScan = here.startScan /\ valid.after = here.after /\ valid.pos = here.pos
        /\ valid.session = here.session /\ valid.exists = here.exists /\ valid.next = here.next
    BY <1>3 DEF WithValidity, NodeState
  <2> HIDE DEF valid
  <2>4. Reading(valid)
    BY <1>3, <1>8, <1>10, <1>12, <2>3 DEF Reading, Cycle
  <2>5. Fits(FirstWindow(valid), valid.limit)
    BY <1>3, <1>8, <2>3, <2>4, FirstWindowFits
  <2> QED
    BY <1>6, <1>8, <1>12, <2>3, <2>5 DEF r, valid
<1> QED
  BY <1>11, <1>12

\* The room a sound node has is a number, and more room does no harm.
LEMMA RestType ==
  ASSUME NEW s, Sound(s)
  PROVE  Rest(s) \in Nat
<1>1. s.limit \in Nat /\ s.pos \in Nat /\ s.cands \in Seq(Candidate)
  BY DEF Sound, NodeState
<1>2. Len(s.cands) \in Nat
  BY <1>1, LenProperties
<1>3. s.at \in {"fetch", "content"} => s.pos \in 1..Len(s.cands)
  BY DEF Sound
<1> QED
  BY <1>1, <1>2, <1>3 DEF Rest

LEMMA FitsMore ==
  ASSUME NEW r, NEW a \in Int, Fits(r, a), NEW b \in Int, a <= b
  PROVE  Fits(r, b)
<1>1. Rest(r) \in Nat
  BY RestType DEF Fits
<1> QED
  BY <1>1 DEF Fits

LEMMA ThrownFits ==
  ASSUME NEW s, Sound(s), s.at # "idle"
  PROVE  Fits(Thrown(s), 0)
<1> DEFINE r == Thrown(s)
<1>1. s \in NodeState /\ Len(s.cands) <= s.limit /\ s.startScan # 0
  BY DEF Sound
<1>2. r \in NodeState
  <2> DEFINE t == [s EXCEPT !.at = "logout"]
  <2>0. r = [t EXCEPT !.how = "thrown"]
    BY DEF Thrown
  <2> HIDE DEF t, r
  <2>1. t \in NodeState
    BY <1>1, Updates DEF t
  <2> QED
    BY <2>0, <2>1, Updates
<1>3. r.at = "logout" /\ r.cands = s.cands /\ r.limit = s.limit /\ r.startScan = s.startScan
  BY <1>1 DEF Thrown, NodeState
<1> HIDE DEF r
<1> QED
  BY <1>1, <1>2, <1>3 DEF Fits, Sound, Spares, Rest, r

LEMMA IdleNodeState == IdleNode \in NodeState
<1>1. 1 \in Cursor /\ 0 \in Cursor0 /\ 0 \in 0..MaxValidity /\ 0 \in 0..MaxUid
  BY BoundAssumption DEF Cursor, Cursor0
<1>2. <<>> \in Seq(Candidate)
  BY EmptySeq
<1> QED
  BY <1>1, <1>2 DEF IdleNode, NodeState

LEMMA FinishedFits ==
  ASSUME NEW s, s.scan \in Cursor, s.validity \in 0..MaxValidity, s.newUid \in Cursor0,
         s.close \in {"open", "closing", "finalized"}
  PROVE  Fits(Finished(s), 0) /\ Finished(s).at = "idle"
<1> DEFINE r == Finished(s)
           close == IF s.close = "closing" THEN "finalized" ELSE s.close
<1>1. close \in {"open", "closing", "finalized"}
  OBVIOUS
<1>2. r = [IdleNode EXCEPT !.scan = s.scan, !.validity = s.validity, !.newUid = s.newUid,
                           !.close = close]
  BY DEF Finished
<1> HIDE DEF r, close
<1>3. PICK idle : idle = IdleNode
  OBVIOUS
<1>4. /\ idle \in NodeState /\ idle.at = "idle" /\ idle.cands = <<>> /\ idle.late = {}
      /\ idle.pos = 0 /\ idle.limit = 0
  <2>1. IdleNode.at = "idle" /\ IdleNode.cands = <<>> /\ IdleNode.late = {} /\ IdleNode.pos = 0
    BY DEF IdleNode
  <2>2. IdleNode.limit = 0
    BY DEF IdleNode
  <2> QED
    BY <1>3, <2>1, <2>2, IdleNodeState
<1>5. r \in NodeState
  <2> DEFINE t1 == [idle EXCEPT !.scan = s.scan]
             t2 == [t1 EXCEPT !.validity = s.validity]
             t3 == [t2 EXCEPT !.newUid = s.newUid]
             t4 == [t3 EXCEPT !.close = close]
  <2>0. r = t4
    BY <1>2, <1>3
  <2> HIDE DEF t1, t2, t3, t4
  <2>1. t1 \in NodeState
    BY <1>4, Updates DEF t1
  <2>2. t2 \in NodeState
    BY <2>1, Updates DEF t2
  <2>3. t3 \in NodeState
    BY <2>2, Updates DEF t3
  <2>4. t4 \in NodeState
    BY <2>3, <1>1, Updates DEF t4
  <2> QED
    BY <2>0, <2>4
<1>6. r.at = "idle" /\ r.cands = <<>> /\ r.late = {} /\ r.pos = 0 /\ r.limit = 0
  BY <1>2, <1>3, <1>4 DEF NodeState
<1> QED
  BY <1>5, <1>6, EmptySeq DEF Fits, Sound, Spares, Rest, r

LEMMA CloseAbortFits ==
  ASSUME NEW s, Sound(s), s.at # "idle"
  PROVE  Fits(CloseAbort(s), 0)
<1> DEFINE scan == IF s.closeScan # 0 THEN s.closeScan ELSE s.startScan
           newUid == IF s.closeNew # 0 THEN s.closeNew ELSE s.startNew
           r == [s EXCEPT !.scan = scan, !.newUid = newUid]
<1>1. s \in NodeState /\ s.startScan # 0
  BY DEF Sound
<1>2. /\ s.closeScan \in Cursor0 /\ s.startScan \in Cursor0 /\ s.closeNew \in Cursor0
      /\ s.startNew \in Cursor0 /\ s.validity \in 0..MaxValidity
      /\ s.close \in {"open", "closing", "finalized"}
  BY <1>1 DEF NodeState
<1>3. \A x \in Cursor0 : x # 0 => x \in Cursor
  BY BoundAssumption DEF Cursor, Cursor0
<1>4. scan \in Cursor /\ newUid \in Cursor0
  BY <1>1, <1>2, <1>3
<1>5. CloseAbort(s) = Finished(r)
  BY DEF CloseAbort
<1> HIDE DEF scan, newUid
<1>6. r.scan = scan /\ r.newUid = newUid /\ r.validity = s.validity /\ r.close = s.close
  BY <1>1 DEF NodeState
<1> HIDE DEF r
<1> QED
  BY <1>2, <1>4, <1>5, <1>6, FinishedFits

\* Remembering a candidate that was seen flagged.
LEMMA RememberDeletedKeeps ==
  ASSUME NEW s, Cycle(s), NEW i \in 1..Len(s.cands), LateIsPast(s, i)
  PROVE  LET r == RememberDeleted(s, s.cands[i].uid)
         IN  /\ Cycle(r) /\ LateIsPast(r, i + 1) /\ r.cands = s.cands
<1> DEFINE u == s.cands[i].uid
           r == RememberDeleted(s, u)
<1>1. s \in NodeState /\ s.cands \in Seq(Candidate) /\ s.late \in SUBSET Uid
  BY DEF Cycle, NodeState
<1>2. Len(s.cands) \in Nat /\ s.cands[i] \in Candidate
  BY <1>1, ElementOfSeq, LenProperties
<1>3. u \in Uid
  BY <1>2 DEF Candidate
<1>4. LateIsPast(s, i + 1)
  BY <1>2 DEF LateIsPast
<1>5. CASE r = s
  BY <1>4, <1>5
<1>6. CASE r = [s EXCEPT !.late = s.late \union {u}]
  <2>1. r \in NodeState
    <3>1. s.late \union {u} \in SUBSET Uid
      BY <1>1, <1>3
    <3> HIDE DEF r, u
    <3> QED
      BY <1>1, <1>6, <3>1, Updates
  <2> HIDE DEF r
  <2>2. /\ r.late = s.late \union {u} /\ r.cands = s.cands /\ r.limit = s.limit
        /\ r.startScan = s.startScan /\ r.after = s.after /\ r.session = s.session
    BY <1>1, <1>6 DEF NodeState
  <2>3. Cycle(r)
    BY <2>1, <2>2 DEF Cycle
  <2>4. i < i + 1 /\ s.cands[i].uid = u
    BY <1>2
  <2>5. LateIsPast(r, i + 1)
    <3> SUFFICES ASSUME NEW v \in r.late
                 PROVE  \E j \in 1..Len(r.cands) : j < i + 1 /\ r.cands[j].uid = v
      BY DEF LateIsPast
    <3>1. CASE v \in s.late
      BY <1>4, <2>2, <3>1 DEF LateIsPast
    <3>2. CASE v = u
      BY <2>2, <2>4, <3>2
    <3> QED
      BY <2>2, <3>1, <3>2
  <2> QED
    BY <2>2, <2>3, <2>5 DEF r
<1>7. r = s \/ r = [s EXCEPT !.late = s.late \union {u}]
  BY DEF RememberDeleted
<1> QED
  BY <1>5, <1>6, <1>7

-----------------------------------------------------------------------------
(* Every action keeps the invariant; that of a node also its own room, and *)
(* what it purges stays out of flight.                                     *)

Kept(n) == /\ IInv'
           /\ Within(n) => Within(n)'
           /\ Spares(node[n]) => Spares(node[n])'

LEMMA ActiveFinite ==
  ASSUME NEW S, S \subseteq Messages
  PROVE  IsFiniteSet(S) /\ Cardinality(S) \in Nat
<1>1. IsFiniteSet(1..MaxValidity) /\ IsFiniteSet(Uid)
  BY BoundAssumption, FS_Interval DEF Uid
<1>2. IsFiniteSet(Messages)
  BY <1>1, FS_Product DEF Messages
<1> QED
  BY <1>2, FS_Subset, FS_CardinalityType

\* A step of one node that leaves the registry alone and needs no more room than before.
LEMMA StepKeeps ==
  ASSUME IInv, NEW n \in Nodes, NEW r, node' = [node EXCEPT ![n] = r], Sound(r),
         Rest(r) <= Rest(node[n]), Spares(node[n]) => Spares(r), active' = active,
         mailbox' \in Mailbox, errors' \in 0..MaxErrors, changes' \in 0..MaxChanges
  PROVE  Kept(n)
<1>1. node'[n] = r /\ \A m \in Nodes : m # n => node'[m] = node[m]
  BY DEF IInv
<1>2. node' = [m \in Nodes |-> node'[m]]
  BY DEF IInv
<1>3. \A m \in Nodes : Sound(node'[m])
  BY <1>1 DEF IInv
<1>4. IInv'
  BY <1>2, <1>3 DEF IInv
<1>5. Within(n) => Within(n)'
  <2>1. Cardinality(active) \in Nat
    BY ActiveFinite DEF IInv
  <2>2. Rest(node[n]) \in Nat /\ Rest(r) \in Nat
    BY RestType DEF IInv
  <2>3. MaxInflight \in Nat
    BY LimitAssumption
  <2>4. Within(n)' <=> Cardinality(active) + Rest(r) <= MaxInflight
    BY <1>1 DEF Within
  <2> QED
    BY <2>1, <2>2, <2>3, <2>4 DEF Within
<1>6. Spares(node[n]) => Spares(node[n])'
  <2>1. Spares(node[n])' <=> Spares(r)
    BY <1>1 DEF Spares, InFlight
  <2> QED
    BY <2>1
<1> QED
  BY <1>4, <1>5, <1>6 DEF Kept

LEMMA NodeKeeps ==
  ASSUME IInv, NEW n \in Nodes, NEW r, node' = [node EXCEPT ![n] = r], Fits(r, Rest(node[n])),
         active' = active, mailbox' \in Mailbox, errors' \in 0..MaxErrors,
         changes' \in 0..MaxChanges
  PROVE  Kept(n)
  BY StepKeeps DEF Fits

\* The mailbox stays one when messages are deleted or their state changes.
LEMMA MailboxChanges ==
  ASSUME mailbox \in Mailbox
  PROVE  /\ \A S : Deleted(S) => mailbox' \in Mailbox
         /\ \A u \in Uid, kind \in Effects :
              mailbox' = [mailbox EXCEPT !.state[u] = kind] => mailbox' \in Mailbox
<1>1. ASSUME NEW S, Deleted(S)
      PROVE  mailbox' \in Mailbox
  BY <1>1 DEF Deleted, Mailbox
<1>2. ASSUME NEW u \in Uid, NEW kind \in Effects, mailbox' = [mailbox EXCEPT !.state[u] = kind]
      PROVE  mailbox' \in Mailbox
  BY <1>2, EffectAssumption DEF Mailbox
<1> QED
  BY <1>1, <1>2

\* A command that fails ends the cycle.
LEMMA ThrownKeeps ==
  ASSUME IInv, NEW n \in Nodes, node[n].at # "idle", Fails, active' = active,
         mailbox' \in Mailbox, node' = [node EXCEPT ![n] = Thrown(node[n])]
  PROVE  Kept(n)
<1>1. Sound(node[n])
  BY DEF IInv
<1>2. PICK r : r = Thrown(node[n])
  OBVIOUS
<1>3. Fits(r, 0)
  BY <1>1, <1>2, ThrownFits
<1>4. Fits(r, Rest(node[n]))
  BY <1>1, <1>3, FitsMore, RestType
<1>5. errors' \in 0..MaxErrors /\ changes' \in 0..MaxChanges
  BY BoundAssumption DEF Fails, IInv
<1> QED
  BY <1>2, <1>4, <1>5, NodeKeeps

LEMMA TriggerKeeps ==
  ASSUME IInv, NEW n \in Nodes, Trigger(n)
  PROVE  Kept(n)
<1> DEFINE s == node[n]
           free == MaxInflight - Cardinality(active)
           limit == CandidateLimit(free)
<1>1. PICK r : r = [s EXCEPT !.at = "connect", !.limit = limit, !.startScan = s.scan,
                             !.startNew = s.newUid]
  OBVIOUS
<1>2. s \in NodeState /\ s.at = "idle" /\ s.cands = <<>> /\ s.late = {} /\ s.pos = 0
  BY DEF IInv, Sound, Trigger, Running
<1>3. s.scan \in Cursor /\ s.newUid \in Cursor0
  BY <1>2 DEF NodeState
<1>4. s.scan \in Cursor0 /\ s.scan # 0
  BY <1>3, BoundAssumption DEF Cursor, Cursor0
<1>5. Cardinality(active) \in Nat
  BY ActiveFinite DEF IInv
<1>6. free \in Nat /\ limit \in Nat /\ limit <= free
  BY <1>5, LimitAssumption DEF Trigger, CandidateLimit, Min2
<1>7. /\ node' = [node EXCEPT ![n] = r] /\ active' = active /\ mailbox' = mailbox
      /\ errors' = errors /\ changes' = changes
  BY <1>1 DEF Trigger, Step
<1> HIDE DEF limit, s
<1>8. r \in NodeState
  <2> DEFINE t1 == [s EXCEPT !.at = "connect"]
             t2 == [t1 EXCEPT !.limit = limit]
             t3 == [t2 EXCEPT !.startScan = s.scan]
             t4 == [t3 EXCEPT !.startNew = s.newUid]
  <2>0. r = t4
    BY <1>1
  <2> HIDE DEF t1, t2, t3, t4
  <2>1. t1 \in NodeState
    BY <1>2, Updates DEF t1
  <2>2. t2 \in NodeState
    BY <2>1, <1>6, Updates DEF t2
  <2>3. t3 \in NodeState
    BY <2>2, <1>4, Updates DEF t3
  <2>4. t4 \in NodeState
    BY <2>3, <1>3, Updates DEF t4
  <2> QED
    BY <2>0, <2>4
<1>9. /\ r.at = "connect" /\ r.cands = <<>> /\ r.late = {} /\ r.pos = 0 /\ r.limit = limit
      /\ r.startScan = s.scan
  BY <1>1, <1>2 DEF NodeState
<1>10. Sound(r)
  BY <1>4, <1>6, <1>8, <1>9, EmptySeq DEF Sound
<1>11. node'[n] = r /\ \A m \in Nodes : m # n => node'[m] = node[m]
  BY <1>7 DEF IInv
<1>12. IInv'
  BY <1>7, <1>10, <1>11 DEF IInv
<1>13. Within(n)'
  <2>1. Rest(r) = limit
    BY <1>9 DEF Rest
  <2>2. Within(n)' <=> Cardinality(active) + limit <= MaxInflight
    BY <1>7, <1>11, <2>1 DEF Within
  <2> QED
    BY <1>5, <1>6, <2>2, LimitAssumption
<1>14. Spares(node[n])'
  BY <1>9, <1>11 DEF Spares
<1> QED
  BY <1>12, <1>13, <1>14 DEF Kept

LEMMA ConnectReplyKeeps ==
  ASSUME IInv, NEW n \in Nodes, ConnectReply(n)
  PROVE  Kept(n)
<1>1. Sound(node[n]) /\ node[n].at = "connect" /\ mailbox \in Mailbox
  BY DEF IInv, ConnectReply
<1>2. CASE Step(n, [node[n] EXCEPT !.at = "lock"])
  <2>1. PICK r : r = [node[n] EXCEPT !.at = "lock"]
    OBVIOUS
  <2>2. node[n] \in NodeState
    BY <1>1 DEF Sound
  <2>3. r \in NodeState
    BY <2>1, <2>2, Updates
  <2>4. /\ r.at = "lock" /\ r.cands = node[n].cands /\ r.late = node[n].late
        /\ r.pos = node[n].pos /\ r.limit = node[n].limit /\ r.startScan = node[n].startScan
    BY <2>1, <2>2 DEF NodeState
  <2>5. Sound(r) /\ Spares(r) /\ Rest(r) = Rest(node[n])
    BY <1>1, <2>3, <2>4 DEF Sound, Spares, Rest
  <2>6. Fits(r, Rest(node[n]))
    BY <1>1, <2>5, RestType DEF Fits
  <2> QED
    BY <1>2, <2>1, <2>6, NodeKeeps DEF Step, IInv
<1>3. CASE /\ Fails /\ node' = [node EXCEPT ![n] = Thrown(node[n])]
           /\ UNCHANGED <<mailbox, active>>
  BY <1>1, <1>3, ThrownKeeps
<1> QED
  BY <1>2, <1>3 DEF ConnectReply

LEMMA LockReplyKeeps ==
  ASSUME IInv, NEW n \in Nodes, LockReply(n)
  PROVE  Kept(n)
<1>1. Sound(node[n]) /\ node[n].at = "lock" /\ mailbox \in Mailbox
  BY DEF IInv, LockReply
<1>2. CASE Step(n, Selected(node[n]))
  <2>1. PICK r : r = Selected(node[n])
    OBVIOUS
  <2>2. Fits(r, node[n].limit)
    BY <1>1, <2>1, SelectedFits
  <2>3. Rest(node[n]) = node[n].limit
    BY <1>1 DEF Rest
  <2> QED
    BY <1>2, <2>1, <2>2, <2>3, NodeKeeps DEF Step, IInv
<1>3. CASE /\ Fails /\ node' = [node EXCEPT ![n] = Thrown(node[n])]
           /\ UNCHANGED <<mailbox, active>>
  BY <1>1, <1>3, ThrownKeeps
<1> QED
  BY <1>2, <1>3 DEF LockReply

LEMMA WindowReplyKeeps ==
  ASSUME IInv, NEW n \in Nodes, WindowReply(n)
  PROVE  Kept(n)
<1> DEFINE s == node[n]
           read == ReadCandidateWindow(s)
           missed == read.over \ s.over
<1>1. Sound(s) /\ s.at = "window" /\ mailbox \in Mailbox
  BY DEF IInv, WindowReply
<1>2. ASSUME NEW timeout \in {SingleWindow, TRUE}, Step(n, AfterWindow(read, missed, timeout))
      PROVE  Kept(n)
  <2>1. /\ Reading(s) /\ s.first \in 1..s.last
        /\ s.last <= IF s.kind = "new" THEN s.newEnd ELSE s.exists
    BY <1>1 DEF Sound
  <2>2. PICK r : r = AfterWindow(read, missed, timeout)
    OBVIOUS
  <2>3. /\ node' = [node EXCEPT ![n] = r] /\ active' = active /\ mailbox' = mailbox
        /\ errors' = errors /\ changes' = changes
    BY <1>2, <2>2 DEF Step
  <2> HIDE DEF read
  <2>4. /\ Reading(read) /\ missed \in SUBSET Uid /\ read.kind = s.kind
        /\ read.first = s.first /\ read.last = s.last /\ read.newEnd = s.newEnd
        /\ read.exists = s.exists /\ read.limit = s.limit
    <3> HIDE DEF s
    <3> QED
      BY <1>1, <2>1, ReadCandidateWindowReads DEF read
  <2>5. timeout \in BOOLEAN
    BY LimitAssumption
  <2> HIDE DEF missed, s
  <2>6. read.first \in 1..read.last /\ read.last <= IF read.kind = "new" THEN read.newEnd
                                                     ELSE read.exists
    BY <2>1, <2>4
  <2>7. Fits(r, read.limit)
    BY <2>2, <2>4, <2>5, <2>6, AfterWindowFits
  <2>8. Rest(s) = read.limit
    BY <1>1, <2>4 DEF Rest
  <2>9. Fits(r, Rest(node[n]))
    BY <2>7, <2>8 DEF s
  <2> QED
    BY <2>3, <2>9, NodeKeeps DEF IInv
<1>3. CASE /\ Fails /\ node' = [node EXCEPT ![n] = Thrown(node[n])]
           /\ UNCHANGED <<mailbox, active>>
  BY <1>1, <1>3, ThrownKeeps
<1> QED
  BY <1>2, <1>3 DEF WindowReply

\* Candidate `i` is next: no more candidates are left than before.
LEMMA NextCandidateRest ==
  ASSUME NEW s, Cycle(s), NEW i \in Nat \ {0}, LateIsPast(s, i), NEW room \in Nat,
         i <= Len(s.cands) => Len(s.cands) - i + 1 <= room
  PROVE  /\ Fits(NextCandidate(s, i), room)
         /\ NextCandidate(s, i).at = "expunge" => NextCandidate(s, i).purge \subseteq s.late
<1> DEFINE r == NextCandidate(s, i)
           need == IF i <= Len(s.cands) THEN Len(s.cands) - i + 1 ELSE 0
<1>1. Fits(r, need) /\ (r.at = "expunge" => r.purge \subseteq s.late)
  BY NextCandidateFits
<1>2. Len(s.cands) \in Nat
  BY LenProperties DEF Cycle, NodeState
<1>3. need \in Int /\ need <= room
  BY <1>2
<1> HIDE DEF need, r
<1>4. Fits(r, room)
  BY <1>1, <1>3, FitsMore
<1> QED
  BY <1>1, <1>4 DEF r

\* A chunk of the purge is done: the next one, the candidates, or the end of the cycle.
LEMMA AfterChunkFits ==
  ASSUME NEW s, Sound(s), s.at = "expunge", NEW chunk
  PROVE  LET r == AfterChunk(s, chunk)
         IN  Sound(r) /\ Rest(r) <= Rest(s) /\ (Spares(s) => Spares(r))
<1> DEFINE left == [s EXCEPT !.purge = s.purge \ chunk]
           r == AfterChunk(s, chunk)
<1>1. s \in NodeState /\ Cycle(s) /\ (s.pos = 0 => s.late = {})
  BY DEF Sound
<1>2. s.purge \in SUBSET Uid /\ s.cands \in Seq(Candidate) /\ s.limit \in Nat
  BY <1>1 DEF NodeState
<1>3. left \in NodeState
  <2>1. s.purge \ chunk \in SUBSET Uid
    BY <1>2
  <2> QED
    BY <1>1, <2>1, Updates
<1>4. /\ left.purge = s.purge \ chunk /\ left.at = "expunge" /\ left.pos = s.pos
      /\ left.cands = s.cands /\ left.limit = s.limit /\ left.startScan = s.startScan
      /\ left.after = s.after /\ left.session = s.session /\ left.late = s.late
  BY <1>1 DEF NodeState
<1>5. r = IF left.purge # {} THEN left
          ELSE IF s.pos = 0 THEN NextCandidate(left, 1) ELSE EndCycle(left, "done")
  BY DEF AfterChunk
<1> HIDE DEF left, r
<1>6. Cycle(left)
  BY <1>1, <1>3, <1>4 DEF Cycle
<1>7. Rest(s) \in Nat
  BY RestType
<1>8. CASE left.purge # {}
  <2>1. Sound(left)
    BY <1>1, <1>3, <1>4, <1>6, <1>8 DEF Sound
  <2>2. Rest(left) = Rest(s)
    BY <1>4 DEF Rest
  <2>3. Spares(s) => Spares(left)
    BY <1>4 DEF Spares, InFlight
  <2> QED
    BY <1>5, <1>7, <1>8, <2>1, <2>2, <2>3 DEF r
<1>9. CASE left.purge = {} /\ s.pos = 0
  <2>1. LateIsPast(left, 1)
    BY <1>1, <1>4, <1>9 DEF LateIsPast
  <2>2. Rest(s) = s.limit
    BY <1>9 DEF Rest
  <2>3. Len(s.cands) \in Nat /\ Len(s.cands) <= s.limit
    BY <1>1, <1>2, LenProperties DEF Cycle
  <2>4. Len(left.cands) - 1 + 1 <= Rest(s)
    BY <1>2, <1>4, <2>2, <2>3
  <2>5. Fits(NextCandidate(left, 1), Rest(s))
    BY <1>6, <1>7, <2>1, <2>4, NextCandidateRest
  <2> QED
    BY <1>5, <1>9, <2>5 DEF r, Fits
<1>10. CASE left.purge = {} /\ s.pos # 0
  <2>1. Fits(EndCycle(left, "done"), 0)
    BY <1>6, EndCycleFits
  <2>2. Fits(EndCycle(left, "done"), Rest(s))
    BY <1>7, <2>1, FitsMore
  <2> QED
    BY <1>5, <1>10, <2>2 DEF r, Fits
<1> QED
  BY <1>8, <1>9, <1>10

\* Counting what a chunk deleted leaves the rest of the node.
LEMMA Counted ==
  ASSUME NEW s, Sound(s), s.at = "expunge", NEW k \in Nat
  PROVE  LET r == [s EXCEPT !.expunged = k]
         IN  Sound(r) /\ r.at = "expunge" /\ Rest(r) = Rest(s) /\ (Spares(s) => Spares(r))
<1> DEFINE r == [s EXCEPT !.expunged = k]
<1>1. s \in NodeState
  BY DEF Sound
<1>2. r \in NodeState
  BY <1>1, Updates
<1>3. /\ r.purge = s.purge /\ r.at = "expunge" /\ r.pos = s.pos
      /\ r.cands = s.cands /\ r.limit = s.limit /\ r.startScan = s.startScan
      /\ r.after = s.after /\ r.session = s.session /\ r.late = s.late
  BY <1>1 DEF NodeState
<1> HIDE DEF r
<1>4. Sound(r)
  BY <1>2, <1>3 DEF Sound, Cycle
<1>5. Rest(r) = Rest(s)
  BY <1>3 DEF Rest
<1>6. Spares(s) => Spares(r)
  BY <1>3 DEF Spares, InFlight
<1> QED
  BY <1>3, <1>4, <1>5, <1>6 DEF r

LEMMA ExpungeReplyKeeps ==
  ASSUME IInv, NEW n \in Nodes, ExpungeReply(n)
  PROVE  Kept(n)
<1> DEFINE s == node[n]
           chunk == Smallest(s.purge, MaxUidPerCommand)
<1>1. /\ Sound(s) /\ s.at = "expunge" /\ active' = active /\ mailbox \in Mailbox
      /\ errors \in 0..MaxErrors /\ changes \in 0..MaxChanges
  BY DEF IInv, ExpungeReply
<1>2. s.purge \in SUBSET Uid /\ s.expunged \in Nat
  BY <1>1 DEF Sound, NodeState
<1>3. CASE /\ Deleted(chunk) /\ Succeeds
           /\ node' = [node EXCEPT ![n] =
                         AfterChunk([s EXCEPT !.expunged = @ + Cardinality(chunk)], chunk)]
  <2> DEFINE k == s.expunged + Cardinality(chunk)
  <2>1. k \in Nat
    <3>1. chunk \in SUBSET Uid
      BY <1>2 DEF Smallest
    <3> HIDE DEF chunk
    <3> QED
      BY <1>2, <3>1, UidFinite
  <2>2. PICK c : c = [s EXCEPT !.expunged = k]
    OBVIOUS
  <2>3. c = [s EXCEPT !.expunged = @ + Cardinality(chunk)]
    BY <2>2
  <2> HIDE DEF k
  <2>4. Sound(c) /\ c.at = "expunge" /\ Rest(c) = Rest(s) /\ (Spares(s) => Spares(c))
    <3> HIDE DEF s, chunk
    <3> QED
      BY <1>1, <2>1, <2>2, Counted
  <2>5. PICK r : r = AfterChunk(c, chunk)
    OBVIOUS
  <2>6. Sound(r) /\ Rest(r) <= Rest(s) /\ (Spares(s) => Spares(r))
    <3> HIDE DEF s, chunk
    <3> QED
      BY <2>4, <2>5, AfterChunkFits
  <2>7. node' = [node EXCEPT ![n] = r]
    BY <1>3, <2>3, <2>5
  <2>8. mailbox' \in Mailbox
    BY <1>1, <1>3, MailboxChanges
  <2> QED
    BY <1>1, <1>3, <2>6, <2>7, <2>8, StepKeeps DEF Succeeds
<1>4. CASE /\ Fails /\ UNCHANGED mailbox
           /\ node' = [node EXCEPT ![n] = AfterChunk(s, chunk)]
  <2>1. PICK r : r = AfterChunk(s, chunk)
    OBVIOUS
  <2>2. Sound(r) /\ Rest(r) <= Rest(s) /\ (Spares(s) => Spares(r))
    <3> HIDE DEF s, chunk
    <3> QED
      BY <1>1, <2>1, AfterChunkFits
  <2>3. errors' \in 0..MaxErrors /\ changes' \in 0..MaxChanges
    BY <1>1, <1>4, BoundAssumption DEF Fails
  <2> QED
    BY <1>1, <1>4, <2>1, <2>2, <2>3, StepKeeps
<1>5. CASE /\ Fails /\ \E S \in SUBSET chunk : Deleted(S)
           /\ node' = [node EXCEPT ![n] = Thrown(s)]
  <2>1. mailbox' \in Mailbox
    BY <1>1, <1>5, MailboxChanges
  <2> QED
    BY <1>1, <1>5, <2>1, ThrownKeeps
<1> QED
  BY <1>3, <1>4, <1>5 DEF ExpungeReply

LEMMA FetchReplyKeeps ==
  ASSUME IInv, NEW n \in Nodes, FetchReply(n)
  PROVE  Kept(n)
<1> DEFINE s == node[n]
           u == s.cands[s.pos].uid
<1>1. Sound(s) /\ s.at = "fetch" /\ mailbox \in Mailbox
  BY DEF IInv, FetchReply
<1>2. /\ Cycle(s) /\ s.pos \in 1..Len(s.cands) /\ LateIsPast(s, s.pos) /\ s \in NodeState
      /\ s.startScan # 0
  BY <1>1 DEF Sound
<1>3. Len(s.cands) \in Nat
  BY <1>2, LenProperties DEF NodeState
<1>4. Rest(s) = Len(s.cands) - s.pos + 1 /\ Rest(s) \in Nat
  <2>1. Rest(s) = Len(s.cands) - s.pos + 1
    BY <1>1 DEF Rest
  <2> QED
    BY <1>2, <1>3, <2>1
<1>5. s.pos + 1 \in Nat \ {0} /\ LateIsPast(s, s.pos + 1)
  BY <1>2, <1>3 DEF LateIsPast
<1> HIDE DEF s, u
<1>6. CASE u \in Is("wanted") /\ Step(n, [s EXCEPT !.at = "content", !.stale = FALSE])
  <2>1. PICK r : r = [s EXCEPT !.at = "content", !.stale = FALSE]
    OBVIOUS
  <2>2. r \in NodeState
    <3> DEFINE t == [s EXCEPT !.at = "content"]
    <3>1. r = [t EXCEPT !.stale = FALSE]
      BY <2>1
    <3>2. t \in NodeState
      BY <1>2, Updates
    <3> HIDE DEF t
    <3> QED
      BY <3>1, <3>2, Updates
  <2>3. /\ r.at = "content" /\ r.cands = s.cands /\ r.late = s.late /\ r.pos = s.pos
        /\ r.limit = s.limit /\ r.startScan = s.startScan /\ r.after = s.after
        /\ r.session = s.session
    BY <1>2, <2>1 DEF NodeState
  <2>4. Cycle(r) /\ LateIsPast(r, r.pos)
    BY <1>2, <2>2, <2>3 DEF Cycle, LateIsPast
  <2>5. Sound(r) /\ Spares(r) /\ Rest(r) = Rest(s)
    BY <1>1, <1>2, <2>2, <2>3, <2>4 DEF Sound, Spares, Rest, Cycle
  <2>6. Fits(r, Rest(s))
    BY <1>4, <2>5 DEF Fits
  <2> QED
    BY <1>6, <2>1, <2>6, NodeKeeps DEF Step, IInv, s
<1>7. CASE u \in Is("deleted") /\ Step(n, NextCandidate(RememberDeleted(s, u), s.pos + 1))
  <2>1. PICK d : d = RememberDeleted(s, u)
    OBVIOUS
  <2>2. Cycle(d) /\ LateIsPast(d, s.pos + 1) /\ d.cands = s.cands
    BY <1>2, <2>1, RememberDeletedKeeps DEF u
  <2>3. PICK r : r = NextCandidate(d, s.pos + 1)
    OBVIOUS
  <2>4. s.pos + 1 <= Len(d.cands) => Len(d.cands) - (s.pos + 1) + 1 <= Rest(s)
    <3>1. Len(d.cands) = Len(s.cands)
      BY <2>2
    <3>2. s.pos \in Nat
      BY <1>2, <1>3
    <3> QED
      BY <1>3, <1>4, <3>1, <3>2
  <2>5. Fits(r, Rest(s))
    BY <1>4, <1>5, <2>2, <2>3, <2>4, NextCandidateRest
  <2> QED
    BY <1>7, <2>1, <2>3, <2>5, NodeKeeps DEF Step, IInv, s
<1>8. CASE /\ u \in Is("unwanted") \union Is("absent")
           /\ Step(n, NextCandidate(s, s.pos + 1))
  <2>1. PICK r : r = NextCandidate(s, s.pos + 1)
    OBVIOUS
  <2>2. s.pos + 1 <= Len(s.cands) => Len(s.cands) - (s.pos + 1) + 1 <= Rest(s)
    BY <1>2, <1>3, <1>4
  <2>3. Fits(r, Rest(s))
    BY <1>2, <1>4, <1>5, <2>1, <2>2, NextCandidateRest
  <2> QED
    BY <1>8, <2>1, <2>3, NodeKeeps DEF Step, IInv, s
<1>9. CASE /\ Fails /\ UNCHANGED <<mailbox, active>>
           /\ node' = [node EXCEPT ![n] = EndCycle(s, "interrupted")]
  <2>1. PICK r : r = EndCycle(s, "interrupted")
    OBVIOUS
  <2>2. Fits(r, 0)
    BY <1>2, <2>1, EndCycleFits
  <2>3. Fits(r, Rest(s))
    BY <1>4, <2>2, FitsMore
  <2>4. errors' \in 0..MaxErrors /\ changes' \in 0..MaxChanges
    BY <1>9, BoundAssumption DEF Fails, IInv
  <2> QED
    BY <1>1, <1>9, <2>1, <2>3, <2>4, NodeKeeps DEF s
<1>10. CASE /\ Fails /\ UNCHANGED <<mailbox, active>>
            /\ node' = [node EXCEPT ![n] = Thrown(s)]
  BY <1>1, <1>10, ThrownKeeps DEF s
<1> QED
  BY <1>6, <1>7, <1>8, <1>9, <1>10 DEF FetchReply, s, u

LEMMA ContentReplyKeeps ==
  ASSUME IInv, NEW n \in Nodes, ContentReply(n)
  PROVE  Kept(n)
<1> DEFINE s == node[n]
           u == s.cands[s.pos].uid
           m == <<s.session, u>>
<1>1. /\ Sound(s) /\ s.at = "content" /\ mailbox' = mailbox /\ active' = MarkInflight(s, u)
      /\ errors \in 0..MaxErrors /\ changes \in 0..MaxChanges
  BY DEF IInv, ContentReply
<1>2. /\ Cycle(s) /\ s.pos \in 1..Len(s.cands) /\ LateIsPast(s, s.pos) /\ s \in NodeState
      /\ s.startScan # 0 /\ s.session # 0 /\ Distinct(s.cands)
  BY <1>1 DEF Sound, Cycle
<1>3. /\ s.cands \in Seq(Candidate) /\ s.session \in 0..MaxValidity /\ Len(s.cands) \in Nat
  BY <1>2, LenProperties DEF NodeState
<1>4. u \in Uid
  <2>1. s.cands[s.pos] \in Candidate
    BY <1>2, <1>3, ElementOfSeq
  <2> QED
    BY <2>1 DEF Candidate
<1>5. m \in Messages
  <2>1. s.session \in 1..MaxValidity
    BY <1>2, <1>3, BoundAssumption
  <2> QED
    BY <1>4, <2>1 DEF Messages
<1>6. u \notin s.late
  <2> SUFFICES ASSUME u \in s.late
               PROVE  FALSE
    OBVIOUS
  <2>1. PICK i \in 1..Len(s.cands) : i < s.pos /\ s.cands[i].uid = u
    BY <1>2 DEF LateIsPast
  <2>2. i = s.pos
    BY <1>2, <2>1 DEF Distinct
  <2> QED
    BY <1>3, <2>1, <2>2
<1>7. Rest(s) = Len(s.cands) - s.pos + 1 /\ Rest(s) \in Nat /\ Rest(s) - 1 \in Nat
  <2>1. Rest(s) = Len(s.cands) - s.pos + 1
    BY <1>1 DEF Rest
  <2> QED
    BY <1>2, <1>3, <2>1
<1>8. active' = active \/ active' = active \union {m}
  BY <1>1 DEF MarkInflight
<1>9. s.pos + 1 \in Nat \ {0} /\ LateIsPast(s, s.pos + 1)
  BY <1>2, <1>3 DEF LateIsPast
<1>10. \E next \in {NextCandidate(s, s.pos + 1), EndCycle(s, "interrupted")} :
          node' = [node EXCEPT ![n] = next]
  BY DEF ContentReply
<1>11. errors' \in 0..MaxErrors /\ changes' \in 0..MaxChanges
  BY <1>1, BoundAssumption DEF ContentReply, Succeeds, Fails
<1> HIDE DEF s
<1>12. PICK r : /\ r \in {NextCandidate(s, s.pos + 1), EndCycle(s, "interrupted")}
                /\ node' = [node EXCEPT ![n] = r]
  BY <1>10
<1>13. Fits(r, Rest(s) - 1) /\ (r.at = "expunge" => r.purge \subseteq s.late)
  <2>1. CASE r = NextCandidate(s, s.pos + 1)
    <3>1. s.pos + 1 <= Len(s.cands) => Len(s.cands) - (s.pos + 1) + 1 <= Rest(s) - 1
      <4>1. s.pos \in Nat
        BY <1>2, <1>3
      <4>2. PICK l \in Nat, p \in Nat : l = Len(s.cands) /\ p = s.pos
        BY <1>3, <4>1
      <4>3. Rest(s) = l - p + 1
        BY <1>7, <4>2
      <4>4. l - (p + 1) + 1 <= Rest(s) - 1
        BY <4>3
      <4> QED
        BY <4>2, <4>4
    <3> QED
      BY <1>2, <1>7, <1>9, <2>1, <3>1, NextCandidateRest
  <2>2. CASE r = EndCycle(s, "interrupted")
    <3>1. r.at = "logout" /\ Fits(r, 0)
      BY <1>2, <2>2, EndCycleFits
    <3> QED
      BY <1>7, <3>1, FitsMore
  <2> QED
    BY <1>12, <2>1, <2>2
<1>14. node'[n] = r /\ \A k \in Nodes : k # n => node'[k] = node[k]
  BY <1>12 DEF IInv
<1>15. active \subseteq Messages /\ active' \subseteq Messages
  BY <1>5, <1>8 DEF IInv
<1>16. IInv'
  BY <1>1, <1>11, <1>12, <1>13, <1>14, <1>15 DEF IInv, Fits
<1>17. Within(n) => Within(n)'
  <2>1. /\ IsFiniteSet(active) /\ Cardinality(active) \in Nat /\ Cardinality(active') \in Nat
    BY <1>15, ActiveFinite
  <2>2. Cardinality(active') <= Cardinality(active) + 1
    <3>1. Cardinality(active \union {m}) <= Cardinality(active) + 1
      <4> HIDE DEF m
      <4> QED
        BY <2>1, FS_AddElement
    <3> QED
      BY <1>8, <2>1, <3>1
  <2>3. Rest(r) \in Nat /\ Rest(r) <= Rest(s) - 1
    BY <1>13, RestType DEF Fits
  <2>4. Within(n)' <=> Cardinality(active') + Rest(r) <= MaxInflight
    BY <1>14 DEF Within
  <2>5. MaxInflight \in Nat
    BY LimitAssumption
  <2>6. Within(n) <=> Cardinality(active) + Rest(s) <= MaxInflight
    BY DEF Within, s
  <2> QED
    BY <1>7, <2>1, <2>2, <2>3, <2>4, <2>5, <2>6
<1>18. Spares(node[n])'
  <2> SUFFICES ASSUME r.at = "expunge", NEW v \in r.purge
               PROVE  <<r.session, v>> \notin active'
    BY <1>14 DEF Spares, InFlight
  <2>1. <<r.session, v>> \notin active
    BY <1>13 DEF Fits, Spares, InFlight
  <2>2. v # u
    BY <1>6, <1>13
  <2> QED
    BY <1>8, <2>1, <2>2
<1> QED
  BY <1>16, <1>17, <1>18 DEF Kept

LEMMA LogoutReplyKeeps ==
  ASSUME IInv, NEW n \in Nodes, LogoutReply(n)
  PROVE  Kept(n)
<1>1. Sound(node[n])
  BY DEF IInv
<1>2. PICK r : r = Finished(node[n])
  OBVIOUS
<1>3. /\ node[n].scan \in Cursor /\ node[n].validity \in 0..MaxValidity
      /\ node[n].newUid \in Cursor0 /\ node[n].close \in {"open", "closing", "finalized"}
  BY <1>1 DEF Sound, NodeState
<1>4. Fits(r, 0)
  BY <1>2, <1>3, FinishedFits
<1>5. Fits(r, Rest(node[n]))
  BY <1>1, <1>4, FitsMore, RestType
<1> QED
  BY <1>2, <1>5, NodeKeeps DEF LogoutReply, Step, IInv

LEMMA AbortedReplyKeeps ==
  ASSUME IInv, NEW n \in Nodes, AbortedReply(n)
  PROVE  Kept(n)
<1> DEFINE s == node[n]
<1>1. Sound(s) /\ s.at # "idle"
  BY DEF IInv, AbortedReply
<1>2. mailbox' \in Mailbox /\ active' = active /\ errors' \in 0..MaxErrors
        /\ changes' \in 0..MaxChanges
  <2>1. PICK S : Deleted(S)
    BY DEF AbortedReply
  <2> QED
    BY <2>1, MailboxChanges DEF IInv, AbortedReply
<1>3. PICK r : r = IF s.at \in {"fetch", "content"} THEN Finished(EndCycle(s, "interrupted"))
                   ELSE CloseAbort(s)
  OBVIOUS
<1>4. node' = [node EXCEPT ![n] = r]
  BY <1>3 DEF AbortedReply
<1> HIDE DEF s
<1>5. Fits(r, 0)
  <2>1. CASE s.at \in {"fetch", "content"}
    <3>1. PICK e : e = EndCycle(s, "interrupted")
      OBVIOUS
    <3>2. Cycle(s)
      BY <1>1, <2>1 DEF Sound
    <3>3. e \in NodeState
      BY <3>1, <3>2, EndCycleFits DEF Fits, Sound
    <3>4. /\ e.scan \in Cursor /\ e.validity \in 0..MaxValidity /\ e.newUid \in Cursor0
          /\ e.close \in {"open", "closing", "finalized"}
      BY <3>3 DEF NodeState
    <3>5. r = Finished(e)
      BY <1>3, <2>1, <3>1
    <3> QED
      BY <3>4, <3>5, FinishedFits
  <2>2. CASE s.at \notin {"fetch", "content"}
    BY <1>1, <1>3, <2>2, CloseAbortFits
  <2> QED
    BY <2>1, <2>2
<1>6. Fits(r, Rest(s))
  BY <1>1, <1>5, FitsMore, RestType
<1> QED
  BY <1>2, <1>4, <1>6, NodeKeeps DEF s

\* A step that only changes the node's `close`.
LEMMA CloseOnly ==
  ASSUME IInv, NEW n \in Nodes, NEW close \in {"open", "closing", "finalized"},
         Step(n, [node[n] EXCEPT !.close = close])
  PROVE  Kept(n)
<1> DEFINE s == node[n]
<1>1. Sound(s) /\ s \in NodeState
  BY DEF IInv, Sound
<1>2. PICK r : r = [s EXCEPT !.close = close]
  OBVIOUS
<1>3. node' = [node EXCEPT ![n] = r]
  BY <1>2 DEF Step
<1> HIDE DEF s
<1>4. r \in NodeState
  BY <1>1, <1>2, Updates
<1>5. /\ r.at = s.at /\ r.cands = s.cands /\ r.limit = s.limit /\ r.late = s.late
      /\ r.pos = s.pos /\ r.startScan = s.startScan /\ r.after = s.after
      /\ r.session = s.session /\ r.exists = s.exists /\ r.first = s.first /\ r.last = s.last
      /\ r.kind = s.kind /\ r.newEnd = s.newEnd /\ r.purge = s.purge
  BY <1>1, <1>2 DEF NodeState
<1>6. Sound(r)
  BY <1>1, <1>4, <1>5 DEF Sound, Cycle, Reading, LateIsPast
<1>7. Rest(r) = Rest(s) /\ Rest(s) \in Nat
  BY <1>1, <1>5, RestType DEF Rest
<1>8. Spares(s) => Spares(r)
  BY <1>5 DEF Spares, InFlight
<1> QED
  BY <1>3, <1>6, <1>7, <1>8, StepKeeps DEF Step, IInv, s

LEMMA CloseKeeps ==
  ASSUME IInv, NEW n \in Nodes, Close(n) \/ Deadline(n)
  PROVE  Kept(n)
<1>1. CASE Close(n)
  <2>1. PICK close \in {"closing", "finalized"} :
           close = IF Running(n) THEN "closing" ELSE "finalized"
    OBVIOUS
  <2> QED
    BY <1>1, <2>1, CloseOnly DEF Close
<1>2. CASE Deadline(n)
  BY <1>2, CloseOnly DEF Deadline
<1> QED
  BY <1>1, <1>2

\* What the environment takes out of the registry makes room.
LEMMA OthersKeep ==
  ASSUME IInv, node' = [n \in Nodes |-> node'[n]], mailbox' \in Mailbox,
         active' \subseteq active, errors' \in 0..MaxErrors, changes' \in 0..MaxChanges,
         \A n \in Nodes : \/ node'[n] = node[n]
                          \/ node'[n] = [node[n] EXCEPT !.stale = TRUE]
  PROVE  IInv' /\ \A n \in Nodes : Kept(n)
<1>1. ASSUME NEW n \in Nodes
      PROVE  /\ Sound(node'[n]) /\ Rest(node'[n]) = Rest(node[n])
             /\ Spares(node[n]) => Spares(node[n])'
  <2>1. PICK s : s = node[n]
    OBVIOUS
  <2>2. PICK r : r = node'[n]
    OBVIOUS
  <2>3. Sound(s) /\ s \in NodeState
    BY <2>1 DEF IInv, Sound
  <2>4. r = s \/ r = [s EXCEPT !.stale = TRUE]
    BY <2>1, <2>2
  <2>5. r \in NodeState
    BY <2>3, <2>4, Updates
  <2>6. /\ r.at = s.at /\ r.cands = s.cands /\ r.limit = s.limit /\ r.late = s.late
        /\ r.pos = s.pos /\ r.startScan = s.startScan /\ r.after = s.after
        /\ r.session = s.session /\ r.exists = s.exists /\ r.first = s.first
        /\ r.last = s.last /\ r.kind = s.kind /\ r.newEnd = s.newEnd /\ r.purge = s.purge
    BY <2>3, <2>4 DEF NodeState
  <2>7. Sound(r)
    BY <2>3, <2>5, <2>6 DEF Sound, Cycle, Reading, LateIsPast
  <2>8. Rest(r) = Rest(s)
    BY <2>6 DEF Rest
  <2>9. Spares(node[n]) => Spares(node[n])'
    BY <2>1, <2>2, <2>6 DEF Spares, InFlight
  <2> QED
    BY <2>1, <2>2, <2>7, <2>8, <2>9
<1>2. IInv'
  BY <1>1 DEF IInv
<1>3. ASSUME NEW k \in Nodes
      PROVE  Within(k) => Within(k)'
  <2>1. /\ IsFiniteSet(active) /\ Cardinality(active) \in Nat /\ Cardinality(active') \in Nat
    BY ActiveFinite DEF IInv
  <2>2. Cardinality(active') <= Cardinality(active)
    BY <2>1, FS_Subset
  <2>3. Rest(node[k]) \in Nat /\ MaxInflight \in Nat
    BY RestType, LimitAssumption DEF IInv
  <2>4. /\ Within(k) <=> Cardinality(active) + Rest(node[k]) <= MaxInflight
        /\ Within(k)' <=> Cardinality(active') + Rest(node[k]) <= MaxInflight
    BY <1>1 DEF Within
  <2> QED
    BY <2>1, <2>2, <2>3, <2>4
<1> QED
  BY <1>1, <1>2, <1>3 DEF Kept

LEMMA MessageKeeps ==
  ASSUME IInv, NEW m \in Messages, Ack(m) \/ Expire(m)
  PROVE  IInv' /\ \A n \in Nodes : Kept(n)
<1>0. /\ mailbox \in Mailbox /\ errors \in 0..MaxErrors /\ changes \in 0..MaxChanges
  BY DEF IInv
<1>1. CASE Ack(m)
  <2>1. node' = [n \in Nodes |-> node'[n]]
    BY <1>1 DEF Ack
  <2>2. \A n \in Nodes : \/ node'[n] = node[n]
                         \/ node'[n] = [node[n] EXCEPT !.stale = TRUE]
    BY <1>1 DEF Ack
  <2>3. mailbox' \in Mailbox
    <3>1. m[2] \in Uid
      BY DEF Messages
    <3> QED
      BY <1>0, <1>1, <3>1, MailboxChanges DEF Ack
  <2>4. active' \subseteq active /\ errors' = errors /\ changes' = changes
    BY <1>1 DEF Ack
  <2> QED
    BY <1>0, <2>1, <2>2, <2>3, <2>4, OthersKeep
<1>2. CASE Expire(m)
  <2>1. node' = node /\ mailbox' = mailbox /\ active' \subseteq active /\ errors' = errors
    BY <1>2 DEF Expire, Outside
  <2>2. changes' \in 0..MaxChanges
    BY <1>0, <1>2, BoundAssumption DEF Expire, Outside
  <2>3. node' = [n \in Nodes |-> node'[n]] /\ \A n \in Nodes : node'[n] = node[n]
    BY <2>1 DEF IInv
  <2> QED
    BY <1>0, <2>1, <2>2, <2>3, OthersKeep
<1> QED
  BY <1>1, <1>2

LEMMA ServerKeeps ==
  ASSUME IInv, Deliver \/ Recreate \/ \E u \in Uid : OtherClient(u)
  PROVE  IInv' /\ \A n \in Nodes : Kept(n)
<1>0. /\ mailbox \in Mailbox /\ errors \in 0..MaxErrors /\ changes \in 0..MaxChanges
  BY DEF IInv
<1>1. /\ node' = node /\ active' = active /\ errors' = errors /\ changes' \in 0..MaxChanges
  BY <1>0, BoundAssumption DEF Deliver, Recreate, OtherClient, Outside
<1>2. mailbox' \in Mailbox
  <2>1. CASE Deliver
    <3>1. PICK kind \in {"wanted", "unwanted"} :
             mailbox' = [mailbox EXCEPT !.next = @ + 1, !.state[mailbox.next] = kind]
      BY <2>1 DEF Deliver
    <3>2. mailbox.next \in 1..(MaxUid + 1) /\ mailbox.next + 1 \in 1..(MaxUid + 1)
      BY <1>0, <2>1, BoundAssumption DEF Deliver, Mailbox
    <3> QED
      BY <1>0, <3>1, <3>2 DEF Mailbox
  <2>2. CASE Recreate
    <3>1. PICK next \in 1..(MaxUid + 1) :
             mailbox' = [validity |-> mailbox.validity + 1, next |-> next,
                         state |-> [u \in Uid |-> IF u < next THEN "wanted" ELSE "absent"]]
      BY <2>2 DEF Recreate
    <3>2. mailbox.validity + 1 \in 1..MaxValidity
      BY <1>0, <2>2, BoundAssumption DEF Recreate, Mailbox
    <3> QED
      BY <3>1, <3>2 DEF Mailbox
  <2>3. CASE \E u \in Uid : OtherClient(u)
    BY <1>0, <2>3, MailboxChanges DEF OtherClient
  <2> QED
    BY <2>1, <2>2, <2>3
<1>3. node' = [n \in Nodes |-> node'[n]] /\ \A n \in Nodes : node'[n] = node[n]
  BY <1>1 DEF IInv
<1> QED
  BY <1>0, <1>1, <1>2, <1>3, OthersKeep

-----------------------------------------------------------------------------
(* The theorems.                                                           *)

LEMMA NodeActions ==
  ASSUME IInv, NEW n \in Nodes,
         \/ Trigger(n) \/ ConnectReply(n) \/ LockReply(n) \/ WindowReply(n) \/ ExpungeReply(n)
         \/ FetchReply(n) \/ ContentReply(n) \/ LogoutReply(n) \/ AbortedReply(n)
         \/ Close(n) \/ Deadline(n)
  PROVE  Kept(n)
  BY TriggerKeeps, ConnectReplyKeeps, LockReplyKeeps, WindowReplyKeeps, ExpungeReplyKeeps,
     FetchReplyKeeps, ContentReplyKeeps, LogoutReplyKeeps, AbortedReplyKeeps, CloseKeeps

\* Every step either is one node's or leaves all nodes what they need.
LEMMA NextKept ==
  ASSUME IInv, [Next]_vars
  PROVE  IInv' /\ ((\E n \in Nodes : Kept(n)) \/ (\A n \in Nodes : Kept(n)))
<1>1. CASE UNCHANGED vars
  <2>1. /\ node' = node /\ active' = active /\ mailbox' = mailbox /\ errors' = errors
        /\ changes' = changes
    BY <1>1 DEF vars
  <2>2. node' = [n \in Nodes |-> node'[n]] /\ \A n \in Nodes : node'[n] = node[n]
    BY <2>1 DEF IInv
  <2>3. mailbox' \in Mailbox /\ errors' \in 0..MaxErrors /\ changes' \in 0..MaxChanges
    BY <2>1 DEF IInv
  <2> QED
    BY <2>1, <2>2, <2>3, OthersKeep
<1>2. ASSUME NEW n \in Nodes,
             \/ Trigger(n) \/ ConnectReply(n) \/ LockReply(n) \/ WindowReply(n)
             \/ ExpungeReply(n) \/ FetchReply(n) \/ ContentReply(n) \/ LogoutReply(n)
             \/ AbortedReply(n) \/ Close(n) \/ Deadline(n)
      PROVE  IInv' /\ \E k \in Nodes : Kept(k)
  <2>1. Kept(n)
    BY <1>2, NodeActions
  <2> QED
    BY <2>1 DEF Kept
<1>3. CASE \E m \in Messages : Ack(m) \/ Expire(m)
  BY <1>3, MessageKeeps
<1>4. CASE Deliver \/ Recreate \/ \E u \in Uid : OtherClient(u)
  BY <1>4, ServerKeeps
<1> QED
  BY <1>1, <1>2, <1>3, <1>4 DEF Next

LEMMA InitIInv == Init => IInv
<1> SUFFICES ASSUME Init
             PROVE  IInv
  OBVIOUS
<1>1. Sound(IdleNode)
  <2>1. /\ IdleNode.at = "idle" /\ IdleNode.cands = <<>> /\ IdleNode.late = {}
        /\ IdleNode.pos = 0 /\ IdleNode.limit = 0
    BY DEF IdleNode
  <2> QED
    BY <2>1, IdleNodeState, EmptySeq DEF Sound
<1>2. mailbox \in Mailbox
  BY BoundAssumption DEF Init, Mailbox
<1>3. node = [n \in Nodes |-> node[n]] /\ \A n \in Nodes : Sound(node[n])
  BY <1>1 DEF Init
<1> QED
  BY <1>2, <1>3, BoundAssumption DEF Init, IInv

\* In every state the fields of every node keep their promises to each other, whichever
\* await its cycle stands at.
THEOREM Inductive == Spec => []IInv
<1>1. IInv /\ [Next]_vars => IInv'
  BY NextKept
<1> QED
  BY InitIInv, <1>1, PTL DEF Spec

\* The state has the shape the code gives it: the cursors are usable positions and a cycle at
\* a window, an expunge or a candidate has one.
THEOREM TypeCorrect == Spec => []TypeOK
<1>1. IInv => TypeOK
  <2> SUFFICES ASSUME IInv
               PROVE  TypeOK
    OBVIOUS
  <2>1. ASSUME NEW n \in Nodes
        PROVE  /\ node[n].scan \in 1..(MaxUid + 1) /\ node[n].newUid \in 0..(MaxUid + 1)
               /\ node[n].validity \in 0..MaxValidity
               /\ node[n].close \in {"open", "closing", "finalized"}
               /\ node[n].at = "window" => node[n].first \in 1..node[n].last
               /\ node[n].at = "expunge" => node[n].purge # {}
               /\ node[n].at \in {"fetch", "content"} => node[n].pos \in 1..Len(node[n].cands)
               /\ Len(node[n].cands) <= node[n].limit
    <3>1. Sound(node[n])
      BY DEF IInv
    <3>2. /\ node[n].scan \in Cursor /\ node[n].newUid \in Cursor0
          /\ node[n].validity \in 0..MaxValidity
          /\ node[n].close \in {"open", "closing", "finalized"}
      BY <3>1 DEF Sound, NodeState
    <3>3. /\ node[n].at = "window" => node[n].first \in 1..node[n].last
          /\ node[n].at = "expunge" => node[n].purge # {}
          /\ node[n].at \in {"fetch", "content"} => node[n].pos \in 1..Len(node[n].cands)
          /\ Len(node[n].cands) <= node[n].limit
      BY <3>1 DEF Sound
    <3> QED
      BY <3>2, <3>3 DEF Cursor, Cursor0
  <2> QED
    BY <2>1 DEF IInv, TypeOK
<1> QED
  BY <1>1, Inductive, PTL

\* One node reads the mailbox of its account.
OneNode == \E r : Nodes = {r}

OneInv == IInv /\ Room /\ PurgeSparesInflight

\* With one node its cycle always has the room the trigger counted, and nothing it purges
\* is in flight.
THEOREM OneInductive == OneNode => (Spec => []OneInv)
<1> SUFFICES ASSUME OneNode
             PROVE  Spec => []OneInv
  OBVIOUS
<1>1. Init => OneInv
  <2> SUFFICES ASSUME Init
               PROVE  OneInv
    OBVIOUS
  <2>1. \A n \in Nodes : node[n].at = "idle"
    BY DEF Init, IdleNode
  <2>2. Cardinality(active) = 0 /\ MaxInflight \in Nat
    BY FS_EmptySet, LimitAssumption DEF Init
  <2>3. \A n \in Nodes : Rest(node[n]) = 0
    BY <2>1 DEF Rest
  <2> QED
    BY <2>1, <2>2, <2>3, InitIInv DEF OneInv, Room, Within, PurgeSparesInflight
<1>2. OneInv /\ [Next]_vars => OneInv'
  <2> SUFFICES ASSUME OneInv, [Next]_vars
               PROVE  OneInv'
    OBVIOUS
  <2>1. PICK r : Nodes = {r}
    BY DEF OneNode
  <2>2. IInv' /\ Kept(r)
    BY <2>1, NextKept DEF OneInv
  <2>3. Within(r) /\ Spares(node[r])
    BY <2>1 DEF OneInv, Room, PurgeSparesInflight, Spares
  <2>4. Within(r)' /\ Spares(node[r])'
    BY <2>2, <2>3 DEF Kept
  <2> QED
    BY <2>1, <2>2, <2>4 DEF OneInv, Room, PurgeSparesInflight, Spares
<1> QED
  BY <1>1, <1>2, PTL DEF Spec

\* maxInflight: with one node the messages in flight never exceed what it allows, whatever
\* ACKs, expiries and failures do between its count and its marks.
THEOREM InflightHolds == OneNode => (Spec => []InflightBounded)
<1> SUFFICES ASSUME OneNode
             PROVE  Spec => []InflightBounded
  OBVIOUS
<1>1. OneInv => InflightBounded
  <2> SUFFICES ASSUME OneInv
               PROVE  InflightBounded
    OBVIOUS
  <2>1. PICK r \in Nodes : TRUE
    BY DEF OneNode
  <2>2. Rest(node[r]) \in Nat /\ Cardinality(active) \in Nat /\ MaxInflight \in Nat
    BY RestType, ActiveFinite, LimitAssumption DEF OneInv, IInv
  <2>3. Cardinality(active) + Rest(node[r]) <= MaxInflight
    BY DEF OneInv, Room, Within
  <2> QED
    BY <2>2, <2>3 DEF InflightBounded
<1> QED
  BY <1>1, OneInductive, PTL

\* With one node the expunge of flagged messages never touches one that is in flight.
THEOREM PurgeSpares == OneNode => (Spec => []PurgeSparesInflight)
<1> SUFFICES ASSUME OneNode
             PROVE  Spec => []PurgeSparesInflight
  OBVIOUS
<1>1. OneInv => PurgeSparesInflight
  BY DEF OneInv
<1> QED
  BY <1>1, OneInductive, PTL

-----------------------------------------------------------------------------
(* Nothing falls behind the cursors in a cycle that expunges nothing, as   *)
(* long as no message leaves the mailbox during it.                        *)

\* The sequence numbers; that of a missing message is the one before it.
Order == [u \in Uid |-> SeqNo(u)]

\* The cursor that found the candidate, which is noted with it, has not passed it.
Found(c) == IF c.new # 0 THEN c.new = c.uid ELSE c.scan # 0 /\ c.scan <= Order[c.uid]

\* For a candidate that did not fit, the scan cursor or that of the new UIDs is held; a retry of a
\* candidate of the batch leaves that cursor or moves it further back.
HeldByScan(s, u) == s.after <= Order[u] /\ \A i \in 1..Len(s.cands) : s.cands[i].scan <= s.after
HeldByNew(s, u) == s.newUid \in 1..u /\ \A i \in 1..Len(s.cands) : s.cands[i].new <= u

\* After the windows.
Tracked(s) ==
  /\ \A i \in 1..Len(s.cands) : Found(s.cands[i])
  /\ s.over # {} => ~s.fresh
  /\ \A u \in s.over : HeldByScan(s, u) \/ HeldByNew(s, u)

\* While they are read: only the last one of a phase can leave candidates over.
Scanning(s) ==
  /\ ~s.fresh
  /\ \A u \in s.over : s.kind = "backlog" /\ HeldByNew(s, u)
  /\ \A i \in 1..Len(s.cands) :
       /\ Found(s.cands[i])
       /\ s.kind = "cursor" => s.cands[i].scan <= s.first
       /\ s.kind # "cursor" => s.cands[i].scan = 0
       /\ s.kind = "new" => s.cands[i].new < s.first

\* The retry cursors are those noted with the candidate that is fetched.
Retries(s) == s.retryScan = s.cands[s.pos].scan /\ s.retryNew = s.cands[s.pos].new

Track(s) ==
  s.expunged = 0 =>
    /\ s.at \in {"idle", "connect", "lock"} => s.over = {} /\ ~s.fresh
    /\ s.at = "window" => Scanning(s)
    /\ s.at \in {"expunge", "fetch", "content"} => Tracked(s)
    /\ s.at \in {"fetch", "content"} => Retries(s)

\* What the properties ask of the end of a cycle's work.
Ends(s) ==
  s.at = "logout" /\ s.expunged = 0 /\ s.how \in {"done", "interrupted"} =>
    /\ \A u \in s.over : s.scan <= Order[u] \/ s.newUid \in 1..u
    /\ s.how = "interrupted" =>
         LET c == s.cands[s.pos]
         IN  IF c.new # 0 THEN s.newUid \in 1..c.uid ELSE s.scan <= Order[c.uid]

\* A synchronous part takes a cycle that `how` says nothing of yet to r.
Leads(r, how) == Track(r) /\ Ends(r) /\ (r.at # "logout" => r.how = how)

LEMMA OrderType == \A u \in Uid : Order[u] = SeqNo(u) /\ Order[u] \in Nat
<1>1. \A u \in Uid : {v \in Present : v <= u} \in SUBSET Uid
  BY DEF Present
<1>2. \A u \in Uid : SeqNo(u) \in Nat
  BY <1>1, UidFinite DEF SeqNo
<1> QED
  BY <1>2 DEF Order

\* The fields that Tracked looks at.
LEMMA SameTracked ==
  ASSUME NEW s, NEW r, Tracked(s), r.cands = s.cands, r.over = s.over, r.fresh = s.fresh,
         r.after = s.after, r.newUid = s.newUid
  PROVE  Tracked(r)
<1>1. \A u : (HeldByScan(s, u) => HeldByScan(r, u)) /\ (HeldByNew(s, u) => HeldByNew(r, u))
  BY DEF HeldByScan, HeldByNew
<1> QED
  BY <1>1 DEF Tracked

\* The cursors at the end of the candidate loop.
LEMMA EndCycleEnds ==
  ASSUME NEW s \in NodeState, s.expunged = 0 => Tracked(s),
         NEW how \in {"done", "interrupted"},
         how = "interrupted" => s.pos \in 1..Len(s.cands) /\ (s.expunged = 0 => Retries(s)),
         NEW r, r = EndCycle(s, how)
  PROVE  Leads(r, s.how)
<1> DEFINE back == s.retryScan # 0 /\ (how = "interrupted" \/ s.expunged > 0)
           scan == IF back THEN s.retryScan ELSE s.after
           newUid == IF how = "interrupted" /\ s.retryNew # 0 THEN s.retryNew
                     ELSE IF back /\ s.fresh THEN 0 ELSE s.newUid
<1>1. r = [s EXCEPT !.at = "logout", !.how = how, !.scan = scan, !.newUid = newUid,
                    !.validity = s.session]
  BY DEF EndCycle, NodeState
<1> HIDE DEF back, scan, newUid
<1>2. /\ r.at = "logout" /\ r.how = how /\ r.scan = scan /\ r.newUid = newUid
      /\ r.cands = s.cands /\ r.over = s.over /\ r.pos = s.pos /\ r.expunged = s.expunged
  BY <1>1 DEF NodeState
<1>3. /\ s.cands \in Seq(Candidate) /\ s.over \in SUBSET Uid /\ s.retryScan \in Cursor0
      /\ s.retryNew \in Cursor0 /\ s.after \in Cursor0 /\ s.newUid \in Cursor0
  BY DEF NodeState
<1>4. Cursor0 \subseteq Nat
  BY BoundAssumption DEF Cursor0
<1>5. Track(r)
  BY <1>2 DEF Track
<1>6. ASSUME s.expunged = 0, NEW u \in s.over
      PROVE  r.scan <= Order[u] \/ r.newUid \in 1..u
  <2>1. u \in Nat /\ Order[u] \in Nat /\ ~s.fresh
    BY <1>3, <1>6, OrderType, BoundAssumption DEF Tracked, Uid
  <2>2. CASE how = "done"
    <3>1. scan = s.after /\ newUid = s.newUid
      BY <1>6, <2>2 DEF scan, newUid, back
    <3> QED
      BY <1>2, <1>3, <1>4, <1>6, <2>1, <3>1 DEF Tracked, HeldByScan, HeldByNew
  <2>3. CASE how = "interrupted"
    <3>1. /\ s.pos \in 1..Len(s.cands) /\ s.retryScan = s.cands[s.pos].scan
          /\ s.retryNew = s.cands[s.pos].new
      BY <1>6, <2>3 DEF Retries
    <3>2. CASE HeldByScan(s, u)
      <4>1. s.after <= Order[u] /\ s.retryScan <= s.after
        BY <3>1, <3>2 DEF HeldByScan
      <4>2. s.retryScan \in Nat /\ s.after \in Nat
        BY <1>3, <1>4
      <4>3. scan = s.retryScan \/ scan = s.after
        BY DEF scan
      <4>4. scan \in Nat /\ scan <= Order[u]
        BY <2>1, <4>1, <4>2, <4>3
      <4> QED
        BY <1>2, <2>1, <4>4
    <3>3. CASE HeldByNew(s, u)
      <4>1. s.newUid \in 1..u /\ s.retryNew <= u
        BY <3>1, <3>3 DEF HeldByNew
      <4>2. s.retryNew \in Nat
        BY <1>3, <1>4
      <4>3. newUid = s.newUid \/ (newUid = s.retryNew /\ s.retryNew # 0)
        BY <2>1 DEF newUid
      <4>4. newUid \in 1..u
        BY <2>1, <4>1, <4>2, <4>3
      <4> QED
        BY <1>2, <4>4
    <3> QED
      BY <1>6, <3>2, <3>3 DEF Tracked
  <2> QED
    BY <2>2, <2>3
<1>7. ASSUME s.expunged = 0, how = "interrupted"
      PROVE  IF s.cands[s.pos].new # 0 THEN r.newUid \in 1..s.cands[s.pos].uid
             ELSE r.scan <= Order[s.cands[s.pos].uid]
  <2> DEFINE c == s.cands[s.pos]
  <2>1. s.pos \in 1..Len(s.cands) /\ s.retryScan = c.scan /\ s.retryNew = c.new
    BY <1>7 DEF Retries
  <2>2. Found(c) /\ c \in Candidate
    BY <1>3, <1>7, <2>1, ElementOfSeq DEF Tracked
  <2>3. c.uid \in Uid /\ c.uid \in Nat /\ c.uid >= 1 /\ Order[c.uid] \in Nat
    BY <2>2, OrderType, BoundAssumption DEF Candidate, Uid
  <2> HIDE DEF c
  <2>4. CASE c.new # 0
    <3>1. newUid = c.uid
      BY <1>7, <2>1, <2>2, <2>4 DEF newUid, Found
    <3> QED
      BY <1>2, <2>3, <2>4, <3>1 DEF c
  <2>5. CASE c.new = 0
    <3>1. scan = c.scan /\ c.scan <= Order[c.uid]
      BY <1>7, <2>1, <2>2, <2>5 DEF scan, back, Found
    <3> QED
      BY <1>2, <2>1, <2>5, <3>1 DEF c
  <2> QED
    BY <2>4, <2>5
<1>8. Ends(r)
  BY <1>2, <1>6, <1>7 DEF Ends
<1> QED
  BY <1>2, <1>5, <1>8 DEF Leads

\* The candidates are fetched with their cursors noted.
LEMMA NoteCandidateRollbackLeads ==
  ASSUME NEW s \in NodeState, s.expunged = 0 => Tracked(s), NEW i \in Nat
  PROVE  Leads(NoteCandidateRollback(s, i), s.how)
<1> DEFINE r == NoteCandidateRollback(s, i)
<1>1. /\ r.at = "fetch" /\ r.cands = s.cands /\ r.over = s.over /\ r.fresh = s.fresh
      /\ r.after = s.after /\ r.newUid = s.newUid /\ r.how = s.how /\ r.expunged = s.expunged
      /\ r.pos = i /\ r.retryScan = s.cands[i].scan /\ r.retryNew = s.cands[i].new
  BY DEF NoteCandidateRollback, NodeState
<1> HIDE DEF r
<1>2. s.expunged = 0 => Tracked(r)
  BY <1>1, SameTracked
<1> QED
  BY <1>1, <1>2 DEF Leads, Track, Ends, Retries, r

LEMMA ToExpungeLeads ==
  ASSUME NEW s, s.expunged = 0 => Tracked(s), NEW r,
         r.at = "expunge", r.cands = s.cands, r.over = s.over, r.fresh = s.fresh,
         r.after = s.after, r.newUid = s.newUid, r.how = s.how, r.expunged = s.expunged
  PROVE  Leads(r, s.how)
<1>1. s.expunged = 0 => Tracked(r)
  BY SameTracked
<1> QED
  BY <1>1 DEF Leads, Track, Ends

LEMMA NextCandidateLeads ==
  ASSUME NEW s \in NodeState, s.expunged = 0 => Tracked(s), NEW i \in Nat
  PROVE  Leads(NextCandidate(s, i), s.how)
<1>1. Leads(NoteCandidateRollback(s, i), s.how)
  BY NoteCandidateRollbackLeads
<1>2. Leads([s EXCEPT !.at = "expunge", !.pos = i, !.purge = Purgeable(s, s.late)], s.how)
  <2> DEFINE S == Purgeable(s, s.late)
             r == [s EXCEPT !.at = "expunge", !.pos = i, !.purge = S]
  <2> HIDE DEF S
  <2>1. /\ r.at = "expunge" /\ r.cands = s.cands /\ r.over = s.over /\ r.fresh = s.fresh
        /\ r.after = s.after /\ r.newUid = s.newUid /\ r.how = s.how /\ r.expunged = s.expunged
    BY DEF NodeState
  <2> HIDE DEF r
  <2>2. Leads(r, s.how)
    BY <2>1, ToExpungeLeads
  <2> QED
    BY <2>2 DEF r, S
<1>3. Leads(EndCycle(s, "done"), s.how)
  BY EndCycleEnds
<1> QED
  BY <1>1, <1>2, <1>3 DEF NextCandidate

LEMMA ReadingDoneLeads ==
  ASSUME NEW s \in NodeState, s.expunged = 0 => Tracked(s)
  PROVE  Leads(ReadingDone(s), s.how)
<1>1. Leads([s EXCEPT !.at = "expunge", !.purge = Purgeable(s, s.deleted)], s.how)
  <2> DEFINE S == Purgeable(s, s.deleted)
             r == [s EXCEPT !.at = "expunge", !.purge = S]
  <2> HIDE DEF S
  <2>1. /\ r.at = "expunge" /\ r.cands = s.cands /\ r.over = s.over /\ r.fresh = s.fresh
        /\ r.after = s.after /\ r.newUid = s.newUid /\ r.how = s.how /\ r.expunged = s.expunged
    BY DEF NodeState
  <2> HIDE DEF r
  <2>2. Leads(r, s.how)
    BY <2>1, ToExpungeLeads
  <2> QED
    BY <2>2 DEF r, S
<1>2. Leads(NextCandidate(s, 1), s.how)
  BY NextCandidateLeads
<1> QED
  BY <1>1, <1>2 DEF ReadingDone

\* What the windows' starts set.
LEMMA CursorWindowFields ==
  ASSUME NEW s \in NodeState, NEW kind, NEW size
  PROVE  LET r == CursorWindow(s, kind, size)
         IN  /\ r.at = "window" /\ r.kind = kind
             /\ r.first = IF s.scan > s.exists THEN 1 ELSE s.scan
             /\ r.cands = s.cands /\ r.over = s.over /\ r.fresh = s.fresh
             /\ r.newUid = s.newUid /\ r.how = s.how /\ r.expunged = s.expunged
BY DEF CursorWindow, NodeState

LEMMA NewUidChunkFields ==
  ASSUME NEW s \in NodeState, NEW start, NEW end
  PROVE  LET r == NewUidChunk(s, start, end)
         IN  /\ r.at = "window" /\ r.kind = "new" /\ r.first = start
             /\ r.cands = s.cands /\ r.over = s.over /\ r.fresh = s.fresh
             /\ r.newUid = s.newUid /\ r.how = s.how /\ r.expunged = s.expunged
BY DEF NewUidChunk, NodeState

LEMMA ScanAtFields ==
  ASSUME NEW s \in NodeState, NEW v, NEW r, r = ScanAt(s, v)
  PROVE  /\ r.after = v /\ r.scan = v /\ r.newUid = s.newUid /\ r.fresh = s.fresh
         /\ r.cands = s.cands /\ r.over = s.over /\ r.kind = s.kind /\ r.at = s.at
         /\ r.exists = s.exists /\ r.how = s.how /\ r.expunged = s.expunged
BY DEF ScanAt, NodeState

LEMMA NewUidAtFields ==
  ASSUME NEW s \in NodeState, NEW v, NEW r, r = NewUidAt(s, v)
  PROVE  /\ r.scan = s.scan /\ r.newUid = v /\ r.fresh = s.fresh
         /\ r.cands = s.cands /\ r.over = s.over /\ r.kind = s.kind /\ r.at = s.at
         /\ r.exists = s.exists /\ r.how = s.how /\ r.expunged = s.expunged
BY DEF NewUidAt, NodeState

LEMMA FreshAtFields ==
  ASSUME NEW s \in NodeState, NEW v, NEW r, r = FreshAt(s, v)
  PROVE  /\ r.scan = s.scan /\ r.newUid = v
         /\ r.cands = s.cands /\ r.over = s.over /\ r.kind = s.kind /\ r.at = s.at
         /\ r.exists = s.exists /\ r.how = s.how /\ r.expunged = s.expunged
BY DEF FreshAt, NodeState

\* What a window's FETCH adds, put together with what was known (old: left over by new UIDs).
Shown(s, old, missed) ==
  /\ s.over = old \union missed /\ ~s.fresh
  /\ \A u \in old : s.kind = "backlog" /\ s.newUid \in 1..u
  /\ \A u \in missed : IF s.kind = "new" THEN s.first <= u ELSE s.first <= Order[u]
  /\ \A i \in 1..Len(s.cands) :
       /\ Found(s.cands[i])
       /\ s.kind # "new" => s.cands[i].scan <= s.first
       /\ s.kind = "new" => /\ s.cands[i].scan = 0 /\ s.cands[i].new <= s.last
                            /\ \A u \in missed : s.cands[i].new < u
       /\ \A u \in old : s.cands[i].new <= u

LEMMA CandidateType ==
  ASSUME NEW s \in NodeState, NEW i \in 1..Len(s.cands)
  PROVE  /\ s.cands[i] \in Candidate
         /\ s.cands[i].uid \in Nat /\ s.cands[i].scan \in Nat /\ s.cands[i].new \in Nat
<1>1. s.cands \in Seq(Candidate)
  BY DEF NodeState
<1>2. s.cands[i] \in Candidate
  BY <1>1, ElementOfSeq
<1> QED
  BY <1>2, BoundAssumption DEF Candidate, Uid, Cursor0

LEMMA WindowShows ==
  ASSUME NEW s \in NodeState, Scanning(s), s.first \in 1..s.last,
         NEW r, Gathers(s, r), r.kind = s.kind, r.first = s.first, r.last = s.last
  PROVE  Shown(r, s.over, Eligible(s) \ Taken(s))
<1> DEFINE missed == Eligible(s) \ Taken(s)
           room == s.limit - Len(s.cands)
<1>1. /\ s.first \in Nat /\ s.last \in Nat /\ s.limit \in Nat /\ s.cands \in Seq(Candidate)
      /\ s.kind \in {"cursor", "backlog", "new"} /\ s.over \in SUBSET Uid
      /\ s.first # 0 /\ s.first <= s.last
  <2>1. /\ s.first \in Nat /\ s.last \in Nat /\ s.limit \in Nat
    BY BoundAssumption DEF NodeState, Cursor0
  <2>2. /\ s.cands \in Seq(Candidate) /\ s.kind \in {"cursor", "backlog", "new"}
        /\ s.over \in SUBSET Uid
    BY DEF NodeState
  <2> QED
    BY <2>1, <2>2
<1>2. room \in Int
  BY <1>1, LenProperties
<1>3. /\ Eligible(s) \subseteq WindowUids(s) /\ Eligible(s) \subseteq Uid
      /\ Taken(s) \subseteq Eligible(s)
  BY DEF Eligible, WindowUids, Present, Taken, Smallest
<1>4. \A u \in WindowUids(s) :
        IF s.kind = "new" THEN u \in s.first..s.last ELSE Order[u] \in s.first..s.last
  BY OrderType DEF WindowUids, Present
<1>5. \A v \in Taken(s), u \in missed : v < u
  <2> SUFFICES ASSUME NEW v \in Taken(s), NEW u \in missed
               PROVE  v < u
    OBVIOUS
  <2>1. v \in Smallest(Eligible(s), room) /\ u \in Eligible(s)
    BY DEF Taken
  <2>2. u \notin Smallest(Eligible(s), room)
    BY DEF Taken
  <2> HIDE DEF room, missed
  <2> QED
    BY <1>2, <1>3, <2>1, <2>2, SmallestFirst
<1>6. \A u \in Uid : u \in Nat /\ u # 0 /\ Order[u] \in Nat
  BY OrderType, BoundAssumption DEF Uid
<1> HIDE DEF missed
<1>7. \A u \in missed : u \in WindowUids(s) /\ u \in Uid
  BY <1>3 DEF missed
<1>8. \A u \in missed : IF s.kind = "new" THEN s.first <= u ELSE s.first <= Order[u]
  BY <1>1, <1>4, <1>6, <1>7
<1>9. ASSUME NEW j \in 1..Len(s.cands)
      PROVE  /\ Found(s.cands[j])
             /\ s.kind # "new" => s.cands[j].scan <= s.first
             /\ s.kind = "new" => /\ s.cands[j].scan = 0 /\ s.cands[j].new <= s.last
                                  /\ \A u \in missed : s.cands[j].new < u
             /\ \A u \in s.over : s.cands[j].new <= u
  <2>1. s.cands[j].new \in Nat /\ s.cands[j].scan \in Nat
    BY CandidateType
  <2>2. Found(s.cands[j])
    BY DEF Scanning
  <2>3. s.kind # "new" => s.cands[j].scan <= s.first
    BY <1>1, <2>1 DEF Scanning
  <2>4. s.kind = "new" => s.cands[j].scan = 0 /\ s.cands[j].new < s.first
    BY DEF Scanning
  <2>5. s.kind = "new" => \A u \in missed : s.first <= u
    BY <1>8
  <2>6. s.kind = "new" => \A u \in missed : s.cands[j].new < u
    BY <1>1, <1>6, <1>7, <2>1, <2>4, <2>5
  <2>7. \A u \in s.over : s.cands[j].new <= u
    BY DEF Scanning, HeldByNew
  <2> QED
    BY <1>1, <2>1, <2>2, <2>3, <2>4, <2>6, <2>7
<1>10. ASSUME NEW v \in Taken(s)
       PROVE  LET c == Noted(s, v)
              IN  /\ Found(c)
                  /\ s.kind # "new" => c.scan <= s.first
                  /\ s.kind = "new" => /\ c.scan = 0 /\ c.new <= s.last
                                       /\ \A u \in missed : c.new < u
                  /\ \A u \in s.over : c.new <= u
  <2>1. v \in WindowUids(s) /\ v \in Uid /\ v \in Nat /\ v # 0 /\ Order[v] \in Nat
    BY <1>3, <1>6
  <2>2. CASE s.kind = "new"
    <3>1. Noted(s, v).uid = v /\ Noted(s, v).scan = 0 /\ Noted(s, v).new = v
      BY <2>2 DEF Noted
    <3>2. v \in s.first..s.last
      BY <1>4, <2>1, <2>2
    <3>3. s.over = {}
      BY <2>2 DEF Scanning
    <3> QED
      BY <1>1, <1>5, <2>1, <2>2, <3>1, <3>2, <3>3 DEF Found
  <2>3. CASE s.kind # "new"
    <3>1. Noted(s, v).uid = v /\ Noted(s, v).scan = s.first /\ Noted(s, v).new = 0
      BY <2>3 DEF Noted
    <3>2. Order[v] \in s.first..s.last
      BY <1>4, <2>1, <2>3
    <3>3. \A u \in s.over : 0 <= u
      BY <1>1, <1>6
    <3> QED
      BY <1>1, <2>1, <2>3, <3>1, <3>2, <3>3 DEF Found
  <2> QED
    BY <2>2, <2>3
<1>11. ASSUME NEW i \in 1..Len(r.cands)
       PROVE  /\ Found(r.cands[i])
              /\ s.kind # "new" => r.cands[i].scan <= s.first
              /\ s.kind = "new" => /\ r.cands[i].scan = 0 /\ r.cands[i].new <= s.last
                                   /\ \A u \in missed : r.cands[i].new < u
              /\ \A u \in s.over : r.cands[i].new <= u
  <2>1. \/ \E j \in 1..Len(s.cands) : r.cands[i] = s.cands[j]
        \/ \E u \in Taken(s) : r.cands[i] = Noted(s, u)
    BY DEF Gathers
  <2>2. CASE \E j \in 1..Len(s.cands) : r.cands[i] = s.cands[j]
    BY <1>9, <2>2
  <2>3. CASE \E u \in Taken(s) : r.cands[i] = Noted(s, u)
    BY <1>10, <2>3
  <2> QED
    BY <2>1, <2>2, <2>3
<1>12. /\ r.over = s.over \union missed /\ ~r.fresh /\ r.newUid = s.newUid
       /\ \A u \in s.over : s.kind = "backlog" /\ s.newUid \in 1..u
  BY DEF Gathers, Scanning, HeldByNew, missed
<1>13. Shown(r, s.over, missed)
  BY <1>8, <1>11, <1>12 DEF Shown
<1> QED
  BY <1>13 DEF missed

\* An overflowing window, or a last one that did not overflow, is followed by the candidates.
LEMMA ShownTracked ==
  ASSUME NEW s, NEW old, NEW missed, Shown(s, old, missed), s.kind # "new",
         NEW r, r.cands = s.cands, r.over = s.over, r.fresh = s.fresh, r.newUid = s.newUid,
         missed # {} => r.after = s.first
  PROVE  Tracked(r)
<1>1. s.over = old \union missed /\ ~s.fresh
  BY DEF Shown
<1>2. \A u \in missed : HeldByScan(r, u)
  BY DEF Shown, HeldByScan
<1>3. \A u \in old : HeldByNew(r, u)
  BY DEF Shown, HeldByNew
<1> QED
  BY <1>1, <1>2, <1>3 DEF Tracked, Shown

LEMMA NewUidsTracked ==
  ASSUME NEW s \in NodeState, NEW missed \in SUBSET Uid, Shown(s, {}, missed), s.kind = "new",
         NEW r, r.cands = s.cands, r.over = s.over, r.fresh = s.fresh,
         \A u \in missed : r.newUid \in 1..u
  PROVE  Tracked(r) /\ \A u \in r.over : HeldByNew(r, u)
<1>1. r.over = missed /\ ~r.fresh
  BY DEF Shown
<1>2. \A i \in 1..Len(r.cands), u \in missed : r.cands[i].new <= u
  <2>1. \A i \in 1..Len(s.cands), u \in missed : s.cands[i].new < u
    BY DEF Shown
  <2>2. \A i \in 1..Len(s.cands) : s.cands[i].new \in Nat
    BY CandidateType
  <2>3. \A u \in missed : u \in Nat
    BY BoundAssumption DEF Uid
  <2> QED
    BY <2>1, <2>2, <2>3
<1>3. \A u \in missed : HeldByNew(r, u)
  BY <1>2 DEF HeldByNew
<1> QED
  BY <1>1, <1>3 DEF Tracked, Shown

\* A cycle that reads on, or that has expunged and so promises nothing, is led nowhere new.
LEMMA WindowLeads ==
  ASSUME NEW r, r.at = "window", r.expunged = 0 => Scanning(r)
  PROVE  Leads(r, r.how)
BY DEF Leads, Track, Ends

LEMMA AfterNewUidsLeads ==
  ASSUME NEW s, Reading(s), NEW missed \in SUBSET Uid, s.kind = "new",
         s.expunged = 0 => Shown(s, {}, missed)
  PROVE  Leads(AfterNewUids(s, missed), s.how)
<1> DEFINE newUid == IF missed # {} THEN MinOf(missed) ELSE s.last + 1
           here == NewUidAt(s, newUid)
           top == ScanAt(here, 1)
           window == CursorWindow(here, "backlog", BacklogWindowSize)
           r == AfterNewUids(s, missed)
<1>1. s \in NodeState
  BY DEF Reading, Cycle
<1>2. newUid \in Cursor0
  <2>1. s.last \in 0..MaxUid
    BY <1>1 DEF NodeState
  <2>2. missed # {} => MinOf(missed) \in Uid
    BY LeastUid
  <2>3. \A u \in Uid : u \in Cursor0
    BY BoundAssumption DEF Uid, Cursor0
  <2>4. s.last + 1 \in Cursor0
    BY <2>1, BoundAssumption DEF Cursor0
  <2> QED
    BY <2>2, <2>3, <2>4
<1>3. \A u \in missed : newUid \in 1..u
  <2> SUFFICES ASSUME NEW u \in missed
               PROVE  newUid \in 1..u
    OBVIOUS
  <2>1. newUid = MinOf(missed)
    OBVIOUS
  <2>2. MinOf(missed) \in missed /\ MinOf(missed) <= u
    BY LeastUid
  <2>3. MinOf(missed) \in Uid /\ u \in Uid
    BY <2>2
  <2> QED
    BY <2>1, <2>2, <2>3, BoundAssumption DEF Uid
<1>4. \/ r = ReadingDone(top) \/ r = ReadingDone(here) \/ r = window
  BY DEF AfterNewUids, NewUidAt, ScanAt
<1> HIDE DEF newUid, r
<1>5. Reading(here)
  BY <1>2, CursorsMoved
<1>6. /\ here.cands = s.cands /\ here.over = s.over /\ here.fresh = s.fresh
      /\ here.newUid = newUid /\ here.how = s.how /\ here.expunged = s.expunged
  BY <1>1, NewUidAtFields
<1> HIDE DEF here
<1>7. here \in NodeState /\ 1 \in Cursor
  BY <1>5, BoundAssumption DEF Reading, Cycle, Cursor
<1>8. Reading(top)
  BY <1>5, <1>7, CursorsMoved
<1>9. /\ top.cands = here.cands /\ top.over = here.over /\ top.fresh = here.fresh
      /\ top.newUid = here.newUid /\ top.how = here.how /\ top.expunged = here.expunged
  BY <1>7, ScanAtFields
<1>10. /\ window.at = "window" /\ window.kind = "backlog"
       /\ window.cands = here.cands /\ window.over = here.over /\ window.fresh = here.fresh
       /\ window.newUid = here.newUid /\ window.how = here.how
       /\ window.expunged = here.expunged
  BY <1>7, CursorWindowFields
<1> HIDE DEF top, window
<1>11. top \in NodeState
  BY <1>8 DEF Reading, Cycle
<1>12. s.expunged = 0 => Tracked(here) /\ Tracked(top)
  BY <1>1, <1>3, <1>6, <1>9, NewUidsTracked
<1>13. s.expunged = 0 => Scanning(window)
  <2> SUFFICES ASSUME s.expunged = 0
               PROVE  Scanning(window)
    OBVIOUS
  <2>1. ~window.fresh /\ \A i \in 1..Len(window.cands) :
                           Found(window.cands[i]) /\ window.cands[i].scan = 0
    BY <1>6, <1>10 DEF Shown
  <2>2. \A u \in window.over : HeldByNew(window, u)
    BY <1>1, <1>3, <1>6, <1>10, NewUidsTracked
  <2> QED
    BY <1>10, <2>1, <2>2 DEF Scanning
<1>14. Leads(ReadingDone(here), s.how)
  BY <1>6, <1>7, <1>12, ReadingDoneLeads
<1>15. Leads(ReadingDone(top), s.how)
  BY <1>6, <1>9, <1>11, <1>12, ReadingDoneLeads
<1>16. Leads(window, s.how)
  BY <1>6, <1>10, <1>13, WindowLeads
<1> QED
  BY <1>4, <1>14, <1>15, <1>16 DEF r

LEMMA AfterWindowLeads ==
  ASSUME NEW s, Reading(s), NEW missed \in SUBSET Uid, NEW timeout \in BOOLEAN,
         s.first \in 1..s.last, NEW old, s.expunged = 0 => Shown(s, old, missed)
  PROVE  Leads(AfterWindow(s, missed, timeout), s.how)
<1> DEFINE r == AfterWindow(s, missed, timeout)
           moved == MoveScanCursor(s, missed # {})
           next == IF s.last >= s.exists THEN 1 ELSE s.last + 1
           scan == IF missed # {} THEN s.first ELSE next
           fresh == FreshAt(moved, s.next)
           window == CursorWindow(moved, "cursor", FrontWindowSize)
           chunk == NewUidChunk(s, s.last + 1, s.newEnd)
<1>1. s \in NodeState
  BY DEF Reading, Cycle
<1>2. /\ s.kind \in {"cursor", "backlog", "new"} /\ s.last \in 0..MaxUid /\ s.newEnd \in 0..MaxUid
      /\ s.exists \in 0..MaxUid /\ s.first \in Cursor0 /\ s.next \in Cursor0
  BY <1>1 DEF NodeState
<1>3. scan \in Cursor
  <2>1. s.first \in Cursor
    BY <1>2, BoundAssumption DEF Cursor
  <2>2. next \in Cursor
    BY <1>2, BoundAssumption DEF Cursor
  <2> QED
    BY <2>1, <2>2
<1>4. moved = ScanAt(s, scan)
  BY DEF MoveScanCursor, ScanAt
<1>5. missed # {} => scan = s.first
  OBVIOUS
<1>6. missed = {} /\ ~(s.last >= s.exists) => scan = s.last + 1
  OBVIOUS
<1> HIDE DEF scan, next, moved
<1>7. Reading(moved)
  BY <1>3, <1>4, CursorsMoved
<1>8. moved \in NodeState
  BY <1>7 DEF Reading, Cycle
<1>9. /\ moved.cands = s.cands /\ moved.over = s.over /\ moved.fresh = s.fresh
      /\ moved.newUid = s.newUid /\ moved.how = s.how /\ moved.expunged = s.expunged
      /\ moved.after = scan /\ moved.scan = scan /\ moved.exists = s.exists
  BY <1>1, <1>4, ScanAtFields
<1>10. Reading(fresh)
  BY <1>2, <1>7, CursorsMoved
<1>11. fresh \in NodeState
  BY <1>10 DEF Reading, Cycle
<1>12. /\ fresh.cands = moved.cands /\ fresh.over = moved.over /\ fresh.how = moved.how
       /\ fresh.expunged = moved.expunged
  <2>1. fresh = FreshAt(moved, s.next)
    OBVIOUS
  <2> HIDE DEF fresh
  <2> QED
    BY <1>8, <2>1, FreshAtFields
<1>13. /\ window.at = "window" /\ window.kind = "cursor"
       /\ window.first = IF moved.scan > moved.exists THEN 1 ELSE moved.scan
       /\ window.cands = moved.cands /\ window.over = moved.over /\ window.fresh = moved.fresh
       /\ window.newUid = moved.newUid /\ window.how = moved.how
       /\ window.expunged = moved.expunged
  BY <1>8, CursorWindowFields
<1>14. /\ chunk.at = "window" /\ chunk.kind = "new" /\ chunk.first = s.last + 1
       /\ chunk.cands = s.cands /\ chunk.over = s.over /\ chunk.fresh = s.fresh
       /\ chunk.newUid = s.newUid /\ chunk.how = s.how /\ chunk.expunged = s.expunged
  BY <1>1, NewUidChunkFields
<1> HIDE DEF fresh, window, chunk
<1>15. s.kind # "new" => Leads(ReadingDone(moved), s.how)
  <2> SUFFICES ASSUME s.kind # "new"
               PROVE  Leads(ReadingDone(moved), s.how)
    OBVIOUS
  <2>1. s.expunged = 0 => Tracked(moved)
    BY <1>5, <1>9, ShownTracked
  <2> QED
    BY <1>8, <1>9, <2>1, ReadingDoneLeads
<1>16. CASE s.kind = "backlog"
  BY <1>15, <1>16 DEF AfterWindow, moved
<1>17. CASE s.kind = "new"
  <2>1. s.expunged = 0 => Shown(s, {}, missed)
    <3> SUFFICES ASSUME s.expunged = 0
                 PROVE  Shown(s, {}, missed)
      OBVIOUS
    <3>1. old = {}
      BY <1>17 DEF Shown
    <3> QED
      BY <3>1
  <2>2. CASE missed = {} /\ s.last < s.newEnd /\ ~Full(s)
    <3>1. s.expunged = 0 => Scanning(chunk)
      <4> SUFFICES ASSUME s.expunged = 0
                   PROVE  Scanning(chunk)
        OBVIOUS
      <4>1. chunk.over = {} /\ ~chunk.fresh
        BY <1>14, <2>1, <2>2 DEF Shown
      <4>2. \A i \in 1..Len(s.cands) :
              Found(s.cands[i]) /\ s.cands[i].scan = 0 /\ s.cands[i].new <= s.last
        BY <1>17, <2>1 DEF Shown
      <4>3. \A i \in 1..Len(s.cands) : s.cands[i].new < s.last + 1
        <5>1. s.last \in Nat
          BY <1>2, BoundAssumption
        <5>2. \A i \in 1..Len(s.cands) : s.cands[i].new \in Nat
          BY <1>1, CandidateType
        <5> QED
          BY <4>2, <5>1, <5>2
      <4> QED
        BY <1>14, <4>1, <4>2, <4>3 DEF Scanning
    <3>2. Leads(chunk, s.how)
      BY <1>14, <3>1, WindowLeads
    <3> QED
      BY <1>17, <2>2, <3>2 DEF AfterWindow, chunk
  <2>3. CASE ~(missed = {} /\ s.last < s.newEnd /\ ~Full(s))
    <3>1. Leads(AfterNewUids(s, missed), s.how)
      BY <1>17, <2>1, AfterNewUidsLeads
    <3> QED
      BY <1>17, <2>3, <3>1 DEF AfterWindow
  <2> QED
    BY <2>2, <2>3
<1>18. CASE s.kind = "cursor"
  <2>1. s.expunged = 0 => old = {} /\ s.over = missed
    BY <1>18 DEF Shown
  <2>2. CASE missed # {}
    BY <1>15, <1>18, <2>2 DEF AfterWindow, moved
  <2>3. CASE missed = {} /\ s.last >= s.exists
    <3>1. s.expunged = 0 => Tracked(fresh)
      BY <1>9, <1>12, <2>1, <2>3 DEF Tracked, Shown
    <3>2. Leads(ReadingDone(fresh), s.how)
      BY <1>9, <1>11, <1>12, <3>1, ReadingDoneLeads
    <3> QED
      BY <1>18, <2>3, <3>2 DEF AfterWindow, moved, fresh, FreshAt
  <2>4. CASE missed = {} /\ ~(s.last >= s.exists) /\ (timeout \/ Full(s))
    BY <1>15, <1>18, <2>4 DEF AfterWindow, moved
  <2>5. CASE missed = {} /\ ~(s.last >= s.exists) /\ ~(timeout \/ Full(s))
    <3>1. window.first = s.last + 1
      BY <1>2, <1>6, <1>9, <1>13, <2>5
    <3>2. s.expunged = 0 => Scanning(window)
      <4> SUFFICES ASSUME s.expunged = 0
                   PROVE  Scanning(window)
        OBVIOUS
      <4>1. window.over = {} /\ ~window.fresh
        BY <1>9, <1>13, <2>1, <2>5 DEF Shown
      <4>2. \A i \in 1..Len(s.cands) : Found(s.cands[i]) /\ s.cands[i].scan <= s.first
        BY <1>18 DEF Shown
      <4>3. \A i \in 1..Len(s.cands) : s.cands[i].scan <= s.last + 1
        <5>1. s.first \in Nat /\ s.last \in Nat /\ s.first <= s.last
          BY <1>2, BoundAssumption DEF Cursor0
        <5>2. \A i \in 1..Len(s.cands) : s.cands[i].scan \in Nat
          BY <1>1, CandidateType
        <5> QED
          BY <4>2, <5>1, <5>2
      <4> QED
        BY <1>9, <1>13, <3>1, <4>1, <4>2, <4>3 DEF Scanning
    <3>3. Leads(window, s.how)
      BY <1>9, <1>13, <3>2, WindowLeads
    <3> QED
      BY <1>18, <2>5, <3>3 DEF AfterWindow, moved, window
  <2> QED
    BY <2>2, <2>3, <2>4, <2>5
<1> QED
  BY <1>2, <1>16, <1>17, <1>18

\* The windows a cycle begins with.
LEMMA FirstWindowLeads ==
  ASSUME NEW s \in NodeState, s.cands = <<>>, s.expunged = 0 => s.over = {} /\ ~s.fresh
  PROVE  Leads(FirstWindow(s), s.how)
<1> DEFINE known == NewUidAt(s, Min2(s.newUid, s.next))
           start == known.newUid
           end == Min2(s.next - 1, start + NewWindowSize - 1)
           r == FirstWindow(s)
<1>1. /\ known.cands = s.cands /\ known.over = s.over /\ known.fresh = s.fresh
      /\ known.how = s.how /\ known.expunged = s.expunged
  <2>1. PICK v : v = Min2(s.newUid, s.next)
    OBVIOUS
  <2>2. known = NewUidAt(s, v)
    BY <2>1
  <2> HIDE DEF known
  <2> QED
    BY <2>2, NewUidAtFields
<1>2. known \in NodeState
  <2>1. s.newUid \in Cursor0 /\ s.next \in Cursor0
    BY DEF NodeState
  <2>2. Min2(s.newUid, s.next) \in Cursor0
    BY <2>1 DEF Min2
  <2> QED
    BY <2>2, Updates DEF NewUidAt
<1>3. \/ r = CursorWindow(s, "cursor", FrontWindowSize)
      \/ r = NewUidChunk(known, start, end)
      \/ r = CursorWindow(known, "backlog", BacklogWindowSize)
  <2>1. known = [s EXCEPT !.newUid = Min2(@, s.next)]
    BY DEF NewUidAt, NodeState
  <2> HIDE DEF known
  <2> QED
    BY <2>1 DEF FirstWindow
<1> HIDE DEF known, start, end, r
<1>4. /\ r.at = "window" /\ r.cands = s.cands /\ r.over = s.over /\ r.fresh = s.fresh
      /\ r.how = s.how /\ r.expunged = s.expunged
  BY <1>1, <1>2, <1>3, CursorWindowFields, NewUidChunkFields
<1>5. r.expunged = 0 => Scanning(r)
  BY <1>4, EmptySeq DEF Scanning
<1> QED
  BY <1>4, <1>5, WindowLeads DEF r

LEMMA SelectedLeads ==
  ASSUME NEW s \in NodeState, mailbox \in Mailbox, s.cands = <<>>,
         s.expunged = 0 => s.over = {} /\ ~s.fresh
  PROVE  Leads(Selected(s), s.how)
<1> DEFINE here == SelectedAt(s)
           valid == WithValidity(here)
           done == [here EXCEPT !.at = "logout", !.how = "done", !.scan = 1,
                                !.validity = here.session, !.newUid = here.next]
           r == Selected(s)
<1>1. here \in NodeState /\ valid \in NodeState
  BY SelectedReads
<1>2. r = IF here.exists = 0 THEN done ELSE FirstWindow(valid)
  BY DEF Selected, SelectedAt
<1>3. /\ here.cands = s.cands /\ here.over = s.over /\ here.fresh = s.fresh
      /\ here.how = s.how /\ here.expunged = s.expunged
  BY DEF NodeState, SelectedAt
<1> HIDE DEF here
<1>4. /\ valid.cands = here.cands /\ valid.over = here.over /\ valid.fresh = here.fresh
      /\ valid.how = here.how /\ valid.expunged = here.expunged
  BY <1>1 DEF NodeState, WithValidity
<1>5. done.at = "logout" /\ done.how = "done" /\ done.over = here.over
        /\ done.expunged = here.expunged
  BY <1>1 DEF NodeState
<1> HIDE DEF valid, done, r
<1>6. Leads(done, s.how)
  BY <1>3, <1>5 DEF Leads, Track, Ends
<1>7. Leads(FirstWindow(valid), s.how)
  BY <1>1, <1>3, <1>4, FirstWindowLeads
<1> QED
  BY <1>2, <1>6, <1>7 DEF r

\* A chunk of the expunge, or a message seen flagged, changes nothing that is promised.
LEMMA AfterChunkLeads ==
  ASSUME NEW s \in NodeState, s.at = "expunge", s.expunged = 0 => Tracked(s), NEW chunk
  PROVE  Leads(AfterChunk(s, chunk), s.how)
<1> DEFINE left == [s EXCEPT !.purge = s.purge \ chunk]
           r == AfterChunk(s, chunk)
<1>1. s.purge \ chunk \in SUBSET Uid
  BY DEF NodeState
<1>2. left \in NodeState
  BY <1>1, Updates
<1>3. /\ left.at = "expunge" /\ left.cands = s.cands /\ left.over = s.over
      /\ left.fresh = s.fresh /\ left.after = s.after /\ left.newUid = s.newUid
      /\ left.how = s.how /\ left.expunged = s.expunged
  BY DEF NodeState
<1>4. \/ r = left \/ r = NextCandidate(left, 1) \/ r = EndCycle(left, "done")
  BY DEF AfterChunk
<1> HIDE DEF left, r
<1>5. left.expunged = 0 => Tracked(left)
  BY <1>3, SameTracked
<1>6. Leads(left, s.how)
  BY <1>3, ToExpungeLeads
<1>7. Leads(NextCandidate(left, 1), s.how)
  BY <1>2, <1>3, <1>5, NextCandidateLeads
<1>8. Leads(EndCycle(left, "done"), s.how)
  BY <1>2, <1>3, <1>5, EndCycleEnds
<1> QED
  BY <1>4, <1>6, <1>7, <1>8 DEF r

LEMMA AfterChunkExpunged ==
  ASSUME NEW s \in NodeState, NEW chunk
  PROVE  AfterChunk(s, chunk).expunged = s.expunged
<1> DEFINE left == [s EXCEPT !.purge = s.purge \ chunk]
           r == AfterChunk(s, chunk)
<1>1. s.purge \ chunk \in SUBSET Uid
  BY DEF NodeState
<1>2. left \in NodeState
  BY <1>1, Updates
<1>3. left.expunged = s.expunged
  BY DEF NodeState
<1>4. \/ r = left \/ r = NextCandidate(left, 1) \/ r = EndCycle(left, "done")
  BY DEF AfterChunk
<1> HIDE DEF left, r
<1>5. EndCycle(left, "done").expunged = left.expunged
  BY <1>2 DEF EndCycle, NodeState
<1>6. NoteCandidateRollback(left, 1).expunged = left.expunged
  BY <1>2 DEF NoteCandidateRollback, NodeState
<1>7. NextCandidate(left, 1).expunged = left.expunged
  BY <1>2, <1>5, <1>6 DEF NextCandidate, NodeState
<1> QED
  BY <1>3, <1>4, <1>5, <1>7 DEF r

LEMMA RememberDeletedFields ==
  ASSUME NEW s \in NodeState, NEW u \in Uid, NEW r, r = RememberDeleted(s, u)
  PROVE  /\ r \in NodeState
         /\ r.cands = s.cands /\ r.over = s.over /\ r.fresh = s.fresh
         /\ r.after = s.after /\ r.newUid = s.newUid /\ r.how = s.how /\ r.expunged = s.expunged
<1>1. CASE r = s
  BY <1>1
<1>2. CASE r = [s EXCEPT !.late = s.late \union {u}]
  <2>1. s.late \union {u} \in SUBSET Uid
    BY DEF NodeState
  <2>2. PICK late \in SUBSET Uid : late = s.late \union {u}
    BY <2>1
  <2>3. r = [s EXCEPT !.late = late]
    BY <1>2, <2>2
  <2>4. [s EXCEPT !.late = late] \in NodeState
    BY Updates
  <2>5. r \in NodeState
    BY <2>3, <2>4
  <2> QED
    BY <2>3, <2>5 DEF NodeState
<1> QED
  BY <1>1, <1>2 DEF RememberDeleted

\* What a step does to a node's cycle: the invariant stays, and if it ends the cycle's work, the
\* cursors stand as they should.
Follows(n) ==
  /\ Track(node[n])'
  /\ node[n].how = "none" /\ node'[n].how \in {"done", "interrupted"} =>
       (node[n].at = "logout" /\ Ends(node[n]))'

\* The node's own steps, with the mailbox as it is.
LEMMA LeadsFollows ==
  ASSUME IInv, NEW n \in Nodes, NEW r, node' = [node EXCEPT ![n] = r], mailbox' = mailbox,
         Leads(r, node[n].how)
  PROVE  Follows(n)
<1>1. node'[n] = r
  BY DEF IInv
<1>2. Order' = Order
  BY DEF Order, SeqNo, Present
<1>3. Track(node[n])'
  BY <1>1, <1>2 DEF Leads, Track, Scanning, Tracked, Retries, Found, HeldByScan, HeldByNew
<1>4. Ends(node[n])'
  BY <1>1, <1>2 DEF Leads, Ends
<1> QED
  BY <1>1, <1>3, <1>4 DEF Follows, Leads

\* An expunge that took something out ends all promises.
LEMMA SpentFollows ==
  ASSUME IInv, NEW n \in Nodes, NEW r, node' = [node EXCEPT ![n] = r], r.expunged # 0,
         Leads(r, node[n].how)
  PROVE  Follows(n)
<1>1. node'[n] = r
  BY DEF IInv
<1>2. Track(node[n])' /\ Ends(node[n])'
  BY <1>1 DEF Track, Ends
<1> QED
  BY <1>1, <1>2 DEF Follows, Leads

\* Before the windows there is nothing to hold; a cycle that was thrown holds nothing.
LEMMA EarlyFollows ==
  ASSUME NEW n \in Nodes, NEW r, node'[n] = r,
         \/ /\ r.at \in {"idle", "connect", "lock"} /\ r.how \in {node[n].how, "none"}
            /\ r.expunged = 0 => r.over = {} /\ ~r.fresh
         \/ r.at = "logout" /\ r.how \in {node[n].how, "thrown"}
  PROVE  Follows(n)
<1>1. Track(node[n])'
  BY DEF Track
<1> QED
  BY <1>1 DEF Follows

\* The environment may renumber the mailbox, but only upwards.
LEMMA SameFollows ==
  ASSUME NEW n \in Nodes, NEW s, node[n] = s, s \in NodeState, Track(s), NEW r, node'[n] = r,
         \A u \in Uid : Order[u] <= Order'[u] /\ Order'[u] \in Nat,
         r.at = s.at, r.kind = s.kind, r.first = s.first, r.cands = s.cands, r.over = s.over,
         r.fresh = s.fresh, r.newUid = s.newUid, r.after = s.after, r.expunged = s.expunged,
         r.pos = s.pos, r.retryScan = s.retryScan, r.retryNew = s.retryNew, r.how = s.how
  PROVE  Follows(n)
<1>1. \A i \in 1..Len(s.cands) : s.cands[i].uid \in Uid /\ s.cands[i].scan \in Nat
  BY CandidateType DEF Candidate
<1>2. s.after \in Nat /\ s.over \in SUBSET Uid
  BY BoundAssumption DEF NodeState, Cursor0
<1>3. \A u \in Uid : Order[u] \in Nat
  BY OrderType
<1>4. \A i \in 1..Len(s.cands) :
        Found(s.cands[i]) => IF s.cands[i].new # 0 THEN s.cands[i].new = s.cands[i].uid
                             ELSE s.cands[i].scan # 0 /\ s.cands[i].scan <= Order'[s.cands[i].uid]
  BY <1>1, <1>3 DEF Found
<1>5. \A u \in s.over : HeldByScan(s, u) =>
        s.after <= Order'[u] /\ \A i \in 1..Len(s.cands) : s.cands[i].scan <= s.after
  BY <1>2, <1>3 DEF HeldByScan
<1>6. s.at = "window" /\ s.expunged = 0 => Scanning(node[n])'
  BY <1>4 DEF Track, Scanning, Found, HeldByNew
<1>7. s.at \in {"expunge", "fetch", "content"} /\ s.expunged = 0 => Tracked(node[n])'
  BY <1>4, <1>5 DEF Track, Tracked, Found, HeldByScan, HeldByNew
<1>8. s.at \in {"fetch", "content"} /\ s.expunged = 0 => Retries(node[n])'
  BY DEF Track, Retries
<1>9. Track(node[n])'
  BY <1>6, <1>7, <1>8 DEF Track
<1> QED
  BY <1>9 DEF Follows

LEMMA OrderGrows ==
  ASSUME Present \subseteq Present'
  PROVE  \A u \in Uid : Order[u] <= Order'[u] /\ Order'[u] \in Nat
<1> SUFFICES ASSUME NEW u \in Uid
             PROVE  Order[u] <= Order'[u] /\ Order'[u] \in Nat
  OBVIOUS
<1> DEFINE A == {v \in Present : v <= u}
           B == {v \in Present' : v <= u}
<1>1. A \in SUBSET B /\ B \in SUBSET Uid
  BY DEF Present
<1>2. Order[u] = Cardinality(A)
  BY DEF Order, SeqNo
<1>3. Order'[u] = Cardinality(B)
  BY DEF Order, SeqNo
<1> HIDE DEF A, B
<1>4. IsFiniteSet(B) /\ Cardinality(B) \in Nat
  BY <1>1, UidFinite
<1>5. Cardinality(A) \in Nat /\ Cardinality(A) <= Cardinality(B)
  BY <1>1, <1>4, FS_Subset, FS_CardinalityType
<1> QED
  BY <1>2, <1>3, <1>4, <1>5

LEMMA ThrownFollows ==
  ASSUME IInv, NEW n \in Nodes, node' = [node EXCEPT ![n] = Thrown(node[n])]
  PROVE  Follows(n)
<1>1. PICK s \in NodeState : s = node[n]
  BY DEF IInv, Sound
<1>2. PICK r : r = Thrown(s)
  OBVIOUS
<1>3. r.at = "logout" /\ r.how = "thrown"
  BY <1>1, <1>2 DEF Thrown, NodeState
<1>4. node'[n] = r
  BY <1>1, <1>2 DEF IInv
<1> QED
  BY <1>3, <1>4, EarlyFollows

LEMMA FinishedFields ==
  ASSUME NEW s, NEW r, r = Finished(s)
  PROVE  r.at = "idle" /\ r.over = {} /\ ~r.fresh /\ r.how = "none"
BY DEF Finished, IdleNode

LEMMA TriggerFollows ==
  ASSUME IInv, NEW n \in Nodes, Track(node[n]), Trigger(n)
  PROVE  Follows(n)
<1>1. PICK s \in NodeState : s = node[n]
  BY DEF IInv, Sound
<1>2. PICK limit : limit = CandidateLimit(MaxInflight - Cardinality(active))
  OBVIOUS
<1>3. PICK r : r = [s EXCEPT !.at = "connect", !.limit = limit, !.startScan = s.scan,
                             !.startNew = s.newUid]
  OBVIOUS
<1>4. node' = [node EXCEPT ![n] = r] /\ s.at = "idle"
  BY <1>1, <1>2, <1>3 DEF Trigger, Step, Running
<1>5. /\ r.at = "connect" /\ r.how = s.how /\ r.expunged = s.expunged /\ r.over = s.over
      /\ r.fresh = s.fresh
  BY <1>3 DEF NodeState
<1>6. r.expunged = 0 => r.over = {} /\ ~r.fresh
  BY <1>1, <1>4, <1>5 DEF Track
<1>7. node'[n] = r
  BY <1>4 DEF IInv
<1> QED
  BY <1>1, <1>5, <1>6, <1>7, EarlyFollows

LEMMA ConnectReplyFollows ==
  ASSUME IInv, NEW n \in Nodes, Track(node[n]), ConnectReply(n)
  PROVE  Follows(n)
<1>1. PICK s \in NodeState : s = node[n]
  BY DEF IInv, Sound
<1>2. CASE Step(n, [node[n] EXCEPT !.at = "lock"])
  <2>1. PICK r : r = [s EXCEPT !.at = "lock"]
    OBVIOUS
  <2>2. node' = [node EXCEPT ![n] = r] /\ s.at = "connect"
    BY <1>1, <1>2, <2>1 DEF Step, ConnectReply
  <2>3. /\ r.at = "lock" /\ r.how = s.how /\ r.expunged = s.expunged /\ r.over = s.over
        /\ r.fresh = s.fresh
    BY <2>1 DEF NodeState
  <2>4. r.expunged = 0 => r.over = {} /\ ~r.fresh
    BY <1>1, <2>2, <2>3 DEF Track
  <2>5. node'[n] = r
    BY <2>2 DEF IInv
  <2> QED
    BY <1>1, <2>3, <2>4, <2>5, EarlyFollows
<1>3. CASE node' = [node EXCEPT ![n] = Thrown(node[n])]
  BY <1>3, ThrownFollows
<1> QED
  BY <1>2, <1>3 DEF ConnectReply

LEMMA LockReplyFollows ==
  ASSUME IInv, NEW n \in Nodes, Track(node[n]), LockReply(n)
  PROVE  Follows(n)
<1>1. PICK s \in NodeState : s = node[n] /\ Sound(s) /\ Track(s) /\ s.at = "lock"
  BY DEF IInv, Sound, LockReply
<1>2. CASE Step(n, Selected(node[n]))
  <2>1. PICK r : r = Selected(s)
    OBVIOUS
  <2>2. s.cands = <<>> /\ (s.expunged = 0 => s.over = {} /\ ~s.fresh)
    BY <1>1 DEF Sound, Track
  <2>3. Leads(r, s.how)
    BY <2>1, <2>2, SelectedLeads DEF IInv
  <2>4. node' = [node EXCEPT ![n] = r] /\ mailbox' = mailbox
    BY <1>1, <1>2, <2>1 DEF Step
  <2> QED
    BY <1>1, <2>3, <2>4, LeadsFollows
<1>3. CASE node' = [node EXCEPT ![n] = Thrown(node[n])]
  BY <1>3, ThrownFollows
<1> QED
  BY <1>2, <1>3 DEF LockReply

LEMMA WindowReplyFollows ==
  ASSUME IInv, NEW n \in Nodes, Track(node[n]), WindowReply(n)
  PROVE  Follows(n)
<1>1. PICK s \in NodeState : s = node[n] /\ Sound(s) /\ Track(s) /\ s.at = "window"
  BY DEF IInv, Sound, WindowReply
<1>2. PICK read : read = ReadCandidateWindow(s)
  OBVIOUS
<1>3. PICK missed : missed = read.over \ s.over
  OBVIOUS
<1>4. ASSUME NEW timeout \in {SingleWindow, TRUE}, Step(n, AfterWindow(read, missed, timeout))
      PROVE  Follows(n)
  <2>1. Reading(s) /\ s.first \in 1..s.last
    BY <1>1 DEF Sound
  <2>2. /\ Reading(read) /\ missed \in SUBSET Uid /\ read.kind = s.kind
        /\ read.first = s.first /\ read.last = s.last /\ Gathers(s, read)
    BY <1>2, <1>3, <2>1, ReadCandidateWindowReads DEF IInv
  <2>3. missed = Eligible(s) \ Taken(s)
    <3>1. read.over = s.over \union (Eligible(s) \ Taken(s))
      BY <2>2 DEF Gathers
    <3>2. \A u \in Eligible(s) : u \notin s.over
      BY DEF Eligible, Known
    <3> QED
      BY <1>3, <3>1, <3>2
  <2>4. s.expunged = 0 => Shown(read, s.over, missed)
    BY <1>1, <2>1, <2>2, <2>3, WindowShows DEF Track
  <2>5. read.expunged = s.expunged /\ read.how = s.how
    BY <2>2 DEF Gathers
  <2>6. timeout \in BOOLEAN
    BY LimitAssumption
  <2>7. PICK r : r = AfterWindow(read, missed, timeout)
    OBVIOUS
  <2>8. Leads(r, s.how)
    BY <2>1, <2>2, <2>4, <2>5, <2>6, <2>7, AfterWindowLeads
  <2>9. node' = [node EXCEPT ![n] = r] /\ mailbox' = mailbox
    BY <1>4, <2>7 DEF Step
  <2> QED
    BY <1>1, <2>8, <2>9, LeadsFollows
<1>5. CASE node' = [node EXCEPT ![n] = Thrown(node[n])]
  BY <1>5, ThrownFollows
<1> QED
  BY <1>1, <1>2, <1>3, <1>4, <1>5 DEF WindowReply

LEMMA ExpungeReplyFollows ==
  ASSUME IInv, NEW n \in Nodes, Track(node[n]), ExpungeReply(n)
  PROVE  Follows(n)
<1>1. PICK s \in NodeState : s = node[n] /\ Sound(s) /\ Track(s) /\ s.at = "expunge"
  BY DEF IInv, Sound, ExpungeReply
<1>2. PICK chunk : chunk = Smallest(s.purge, MaxUidPerCommand)
  OBVIOUS
<1>3. /\ s.purge \in SUBSET Uid /\ s.purge # {} /\ s.expunged \in Nat
  BY <1>1 DEF Sound, NodeState
<1>4. IsFiniteSet(chunk) /\ Cardinality(chunk) \in Nat /\ Cardinality(chunk) # 0
  <2>1. MaxUidPerCommand \in Int /\ MaxUidPerCommand >= 1
    BY LimitAssumption
  <2>2. chunk \subseteq s.purge /\ chunk # {}
    BY <1>2, <1>3, <2>1, SmallestBound
  <2>3. chunk \in SUBSET Uid
    BY <1>3, <2>2
  <2>4. IsFiniteSet(chunk) /\ Cardinality(chunk) \in Nat
    BY <2>3, UidFinite
  <2> QED
    BY <2>2, <2>4, FS_EmptySet
<1>5. s.expunged = 0 => Tracked(s)
  BY <1>1 DEF Track
<1>6. CASE node' = [node EXCEPT ![n] =
                      AfterChunk([s EXCEPT !.expunged = @ + Cardinality(chunk)], chunk)]
  <2>1. PICK k : k = s.expunged + Cardinality(chunk)
    OBVIOUS
  <2>2. k \in Nat /\ k # 0
    BY <1>3, <1>4, <2>1
  <2>3. PICK c : c = [s EXCEPT !.expunged = k]
    OBVIOUS
  <2>4. c \in NodeState
    BY <2>2, <2>3, Updates
  <2>5. c.at = "expunge" /\ c.how = s.how /\ c.expunged = k
    BY <1>1, <2>3 DEF NodeState
  <2>6. PICK r : r = AfterChunk(c, chunk)
    OBVIOUS
  <2>7. Leads(r, s.how)
    BY <2>2, <2>4, <2>5, <2>6, AfterChunkLeads
  <2>8. r.expunged # 0
    BY <2>2, <2>4, <2>5, <2>6, AfterChunkExpunged
  <2>9. node' = [node EXCEPT ![n] = r]
    BY <1>6, <2>1, <2>3, <2>6
  <2> QED
    BY <1>1, <2>7, <2>8, <2>9, SpentFollows
<1>7. CASE UNCHANGED mailbox /\ node' = [node EXCEPT ![n] = AfterChunk(s, chunk)]
  <2>1. PICK r : r = AfterChunk(s, chunk)
    OBVIOUS
  <2>2. Leads(r, s.how)
    BY <1>1, <1>5, <2>1, AfterChunkLeads
  <2> QED
    BY <1>1, <1>7, <2>1, <2>2, LeadsFollows
<1>8. CASE node' = [node EXCEPT ![n] = Thrown(node[n])]
  BY <1>8, ThrownFollows
<1> QED
  BY <1>1, <1>2, <1>6, <1>7, <1>8 DEF ExpungeReply

LEMMA FetchReplyFollows ==
  ASSUME IInv, NEW n \in Nodes, Track(node[n]), FetchReply(n)
  PROVE  Follows(n)
<1>1. PICK s \in NodeState : s = node[n] /\ Sound(s) /\ Track(s) /\ s.at = "fetch"
  BY DEF IInv, Sound, FetchReply
<1>2. PICK u : u = s.cands[s.pos].uid
  OBVIOUS
<1>3. /\ s.pos \in 1..Len(s.cands) /\ s.pos + 1 \in Nat /\ u \in Uid
  <2>1. s.pos \in 1..Len(s.cands) /\ s.pos \in Nat
    BY <1>1 DEF Sound, NodeState
  <2> QED
    BY <1>2, <2>1, CandidateType DEF Candidate
<1>4. s.expunged = 0 => Tracked(s) /\ Retries(s)
  BY <1>1 DEF Track
<1>5. CASE Step(n, [s EXCEPT !.at = "content", !.stale = FALSE])
  <2>1. PICK r : r = [s EXCEPT !.at = "content", !.stale = FALSE]
    OBVIOUS
  <2>2. /\ r.at = "content" /\ r.cands = s.cands /\ r.over = s.over /\ r.fresh = s.fresh
        /\ r.after = s.after /\ r.newUid = s.newUid /\ r.how = s.how
        /\ r.expunged = s.expunged /\ r.pos = s.pos /\ r.retryScan = s.retryScan
        /\ r.retryNew = s.retryNew
    BY <2>1 DEF NodeState
  <2>3. s.expunged = 0 => Tracked(r) /\ Retries(r)
    BY <1>4, <2>2, SameTracked DEF Retries
  <2>4. Leads(r, s.how)
    BY <2>2, <2>3 DEF Leads, Track, Ends
  <2> QED
    BY <1>1, <1>5, <2>1, <2>4, LeadsFollows DEF Step
<1>6. CASE Step(n, NextCandidate(RememberDeleted(s, u), s.pos + 1))
  <2>1. PICK d : d = RememberDeleted(s, u)
    OBVIOUS
  <2>2. /\ d \in NodeState /\ d.cands = s.cands /\ d.over = s.over /\ d.fresh = s.fresh
        /\ d.after = s.after /\ d.newUid = s.newUid /\ d.how = s.how /\ d.expunged = s.expunged
    BY <1>3, <2>1, RememberDeletedFields
  <2>3. d.expunged = 0 => Tracked(d)
    BY <1>4, <2>2, SameTracked
  <2>4. PICK r : r = NextCandidate(d, s.pos + 1)
    OBVIOUS
  <2>5. Leads(r, s.how)
    BY <1>3, <2>2, <2>3, <2>4, NextCandidateLeads
  <2> QED
    BY <1>1, <1>6, <2>1, <2>4, <2>5, LeadsFollows DEF Step
<1>7. CASE Step(n, NextCandidate(s, s.pos + 1))
  <2>1. PICK r : r = NextCandidate(s, s.pos + 1)
    OBVIOUS
  <2>2. Leads(r, s.how)
    BY <1>3, <1>4, <2>1, NextCandidateLeads
  <2> QED
    BY <1>1, <1>7, <2>1, <2>2, LeadsFollows DEF Step
<1>8. CASE UNCHANGED mailbox /\ node' = [node EXCEPT ![n] = EndCycle(s, "interrupted")]
  <2>1. PICK r : r = EndCycle(s, "interrupted")
    OBVIOUS
  <2>2. Leads(r, s.how)
    BY <1>3, <1>4, <2>1, EndCycleEnds
  <2> QED
    BY <1>1, <1>8, <2>1, <2>2, LeadsFollows
<1>9. CASE node' = [node EXCEPT ![n] = Thrown(node[n])]
  BY <1>9, ThrownFollows
<1> QED
  BY <1>1, <1>2, <1>5, <1>6, <1>7, <1>8, <1>9 DEF FetchReply

LEMMA ContentReplyFollows ==
  ASSUME IInv, NEW n \in Nodes, Track(node[n]), ContentReply(n)
  PROVE  Follows(n)
<1>1. PICK s \in NodeState : s = node[n] /\ Sound(s) /\ Track(s) /\ s.at = "content"
  BY DEF IInv, Sound, ContentReply
<1>2. s.pos \in 1..Len(s.cands) /\ s.pos + 1 \in Nat
  BY <1>1 DEF Sound, NodeState
<1>3. s.expunged = 0 => Tracked(s) /\ Retries(s)
  BY <1>1 DEF Track
<1>4. mailbox' = mailbox
  BY DEF ContentReply
<1>5. CASE node' = [node EXCEPT ![n] = NextCandidate(s, s.pos + 1)]
  <2>1. PICK r : r = NextCandidate(s, s.pos + 1)
    OBVIOUS
  <2>2. Leads(r, s.how)
    BY <1>2, <1>3, <2>1, NextCandidateLeads
  <2> QED
    BY <1>1, <1>4, <1>5, <2>1, <2>2, LeadsFollows
<1>6. CASE node' = [node EXCEPT ![n] = EndCycle(s, "interrupted")]
  <2>1. PICK r : r = EndCycle(s, "interrupted")
    OBVIOUS
  <2>2. Leads(r, s.how)
    BY <1>2, <1>3, <2>1, EndCycleEnds
  <2> QED
    BY <1>1, <1>4, <1>6, <2>1, <2>2, LeadsFollows
<1> QED
  BY <1>1, <1>5, <1>6 DEF ContentReply

\* A cycle that is over, or that a close has cut off, leaves an idle node.
LEMMA FinishedFollows ==
  ASSUME IInv, NEW n \in Nodes, LogoutReply(n) \/ AbortedReply(n)
  PROVE  Follows(n)
<1>1. PICK s : node' = [node EXCEPT ![n] = Finished(s)]
  BY DEF LogoutReply, AbortedReply, Step, CloseAbort
<1>2. PICK r : r = Finished(s)
  OBVIOUS
<1>3. r.at = "idle" /\ r.over = {} /\ ~r.fresh /\ r.how = "none"
  BY <1>2, FinishedFields
<1>4. node'[n] = r
  BY <1>1, <1>2 DEF IInv
<1> QED
  BY <1>3, <1>4, EarlyFollows

LEMMA CloseFollows ==
  ASSUME IInv, NEW n \in Nodes, Track(node[n]), Close(n) \/ Deadline(n)
  PROVE  Follows(n)
<1>1. PICK s \in NodeState : s = node[n] /\ Track(s)
  BY DEF IInv, Sound
<1>2. PICK close : Step(n, [s EXCEPT !.close = close])
  BY <1>1 DEF Close, Deadline
<1>3. PICK r : r = [s EXCEPT !.close = close]
  OBVIOUS
<1>4. node'[n] = r /\ mailbox' = mailbox
  BY <1>2, <1>3 DEF Step, IInv
<1>5. \A u \in Uid : Order[u] <= Order'[u] /\ Order'[u] \in Nat
  BY <1>4, OrderGrows DEF Present
<1>6. /\ r.at = s.at /\ r.kind = s.kind /\ r.first = s.first /\ r.cands = s.cands
      /\ r.over = s.over /\ r.fresh = s.fresh /\ r.newUid = s.newUid /\ r.after = s.after
      /\ r.expunged = s.expunged /\ r.pos = s.pos /\ r.retryScan = s.retryScan
      /\ r.retryNew = s.retryNew /\ r.how = s.how
  BY <1>3 DEF NodeState
<1> QED
  BY <1>1, <1>4, <1>5, <1>6, SameFollows

\* Nothing but the node's own expunge takes messages out of the mailbox.
Undisturbed == OneNode /\ "absent" \notin Effects

\* The steps of the others.
LEMMA OthersFollow ==
  ASSUME IInv, Undisturbed, NEW n \in Nodes, Track(node[n]),
         \/ Deliver \/ Recreate \/ UNCHANGED vars
         \/ \E u \in Uid : OtherClient(u)
         \/ \E m \in Messages : Ack(m) \/ Expire(m)
  PROVE  Follows(n)
<1>1. PICK s \in NodeState : s = node[n] /\ Track(s)
  BY DEF IInv, Sound
<1>2. PICK r : r = node'[n]
  OBVIOUS
<1>3. CASE Recreate
  <2>1. r = s /\ s.at \in {"idle", "connect", "lock", "logout"}
    BY <1>1, <1>2, <1>3 DEF Recreate
  <2>2. s.at \in {"idle", "connect", "lock"} /\ s.expunged = 0 => s.over = {} /\ ~s.fresh
    BY <1>1 DEF Track
  <2> QED
    BY <1>1, <1>2, <2>1, <2>2, EarlyFollows
<1>4. ASSUME r = s \/ r = [s EXCEPT !.stale = TRUE], Present \subseteq Present'
      PROVE  Follows(n)
  <2>1. /\ r.at = s.at /\ r.kind = s.kind /\ r.first = s.first /\ r.cands = s.cands
        /\ r.over = s.over /\ r.fresh = s.fresh /\ r.newUid = s.newUid /\ r.after = s.after
        /\ r.expunged = s.expunged /\ r.pos = s.pos /\ r.retryScan = s.retryScan
        /\ r.retryNew = s.retryNew /\ r.how = s.how
    BY <1>4 DEF NodeState
  <2>2. \A u \in Uid : Order[u] <= Order'[u] /\ Order'[u] \in Nat
    BY <1>4, OrderGrows
  <2> QED
    BY <1>1, <1>2, <2>1, <2>2, SameFollows
<1>5. mailbox \in Mailbox /\ \A kind \in Effects : kind # "absent"
  BY DEF IInv, Undisturbed
<1>6. CASE Deliver
  <2>1. PICK kind \in {"wanted", "unwanted"} :
           mailbox' = [mailbox EXCEPT !.next = @ + 1, !.state[mailbox.next] = kind]
    BY <1>6 DEF Deliver
  <2>2. \A u \in Uid : mailbox'.state[u] = mailbox.state[u] \/ mailbox'.state[u] = kind
    BY <1>5, <2>1 DEF Mailbox
  <2>3. Present \subseteq Present'
    BY <2>2 DEF Present
  <2>4. r = s
    BY <1>1, <1>2, <1>6 DEF Deliver
  <2> QED
    BY <1>4, <2>3, <2>4
<1>7. CASE UNCHANGED vars
  <2>1. Present \subseteq Present' /\ r = s
    BY <1>1, <1>2, <1>7 DEF vars, Present
  <2> QED
    BY <1>4, <2>1
<1>8. ASSUME NEW v, NEW kind \in Effects, mailbox' = [mailbox EXCEPT !.state[v] = kind]
      PROVE  Present \subseteq Present'
  <2>1. \A u \in Uid : mailbox'.state[u] = mailbox.state[u] \/ mailbox'.state[u] = kind
    BY <1>5, <1>8 DEF Mailbox
  <2> QED
    BY <1>5, <2>1 DEF Present
<1>9. CASE \E u \in Uid : OtherClient(u)
  <2>1. Present \subseteq Present'
    BY <1>8, <1>9 DEF OtherClient
  <2>2. r = s
    BY <1>1, <1>2, <1>9 DEF OtherClient
  <2> QED
    BY <1>4, <2>1, <2>2
<1>10. ASSUME NEW m \in Messages, Ack(m)
       PROVE  Follows(n)
  <2>1. r = s \/ r = [s EXCEPT !.stale = TRUE]
    BY <1>1, <1>2, <1>10 DEF Ack
  <2>2. CASE mailbox' = mailbox
    BY <1>4, <2>1, <2>2 DEF Present
  <2>3. CASE \E kind \in Effects : mailbox' = [mailbox EXCEPT !.state[m[2]] = kind]
    BY <1>4, <1>8, <2>1, <2>3
  <2> QED
    BY <1>10, <2>2, <2>3 DEF Ack
<1>11. ASSUME NEW m \in Messages, Expire(m)
       PROVE  Follows(n)
  <2>1. r = s /\ Present \subseteq Present'
    BY <1>1, <1>2, <1>11 DEF Expire, Present
  <2> QED
    BY <1>4, <2>1
<1> QED
  BY <1>3, <1>6, <1>7, <1>9, <1>10, <1>11

TrackInv == \A n \in Nodes : Track(node[n])

LEMMA NextFollows ==
  ASSUME IInv, Undisturbed, TrackInv, [Next]_vars, NEW n \in Nodes
  PROVE  Follows(n)
<1>1. Track(node[n])
  BY DEF TrackInv
<1>2. \A k \in Nodes : k = n
  BY DEF Undisturbed, OneNode
<1>3. ASSUME NEW k \in Nodes,
             \/ Trigger(k) \/ ConnectReply(k) \/ LockReply(k) \/ WindowReply(k)
             \/ ExpungeReply(k) \/ FetchReply(k) \/ ContentReply(k) \/ LogoutReply(k)
             \/ AbortedReply(k) \/ Close(k) \/ Deadline(k)
      PROVE  Follows(n)
  <2>1. k = n
    BY <1>2
  <2>2. \/ Trigger(n) \/ ConnectReply(n) \/ LockReply(n) \/ WindowReply(n)
        \/ ExpungeReply(n) \/ FetchReply(n) \/ ContentReply(n) \/ LogoutReply(n)
        \/ AbortedReply(n) \/ Close(n) \/ Deadline(n)
    BY <1>3, <2>1
  <2> QED
    BY <1>1, <2>2, TriggerFollows, ConnectReplyFollows, LockReplyFollows, WindowReplyFollows,
       ExpungeReplyFollows, FetchReplyFollows, ContentReplyFollows, FinishedFollows,
       CloseFollows
<1>4. ASSUME \/ Deliver \/ Recreate \/ UNCHANGED vars
             \/ \E u \in Uid : OtherClient(u)
             \/ \E m \in Messages : Ack(m) \/ Expire(m)
      PROVE  Follows(n)
  BY <1>1, <1>4, OthersFollow
<1> QED
  BY <1>3, <1>4 DEF Next

\* The invariant of the cursors, for one node in a mailbox that nobody else takes messages from.
THEOREM CursorsInductive == Undisturbed => (Spec => [](IInv /\ TrackInv))
<1> SUFFICES ASSUME Undisturbed
             PROVE  Spec => [](IInv /\ TrackInv)
  OBVIOUS
<1>1. Init => IInv /\ TrackInv
  <2> SUFFICES ASSUME Init
               PROVE  TrackInv
    BY InitIInv
  <2>1. \A n \in Nodes : node[n] = IdleNode
    BY DEF Init
  <2> QED
    BY <2>1 DEF TrackInv, Track, IdleNode
<1>2. IInv /\ TrackInv /\ [Next]_vars => (IInv /\ TrackInv)'
  <2> SUFFICES ASSUME IInv, TrackInv, [Next]_vars
               PROVE  IInv' /\ TrackInv'
    OBVIOUS
  <2>1. IInv'
    BY NextKept
  <2>2. \A n \in Nodes : Track(node[n])'
    BY NextFollows DEF Follows
  <2> QED
    BY <2>1, <2>2 DEF TrackInv
<1> QED
  BY <1>1, <1>2, PTL DEF Spec

LEMMA OrderNext == \A u \in Uid : Order'[u] = SeqNo(u)' /\ Order'[u] \in Nat
<1>1. \A u \in Uid : {v \in Present' : v <= u} \in SUBSET Uid
  BY DEF Present
<1>2. \A u \in Uid : Order'[u] = SeqNo(u)'
  BY DEF Order
<1>3. \A u \in Uid : Order'[u] = Cardinality({v \in Present' : v <= u})
  BY DEF Order, SeqNo
<1> QED
  BY <1>1, <1>2, <1>3, UidFinite

\* A cycle that expunged nothing leaves no candidate behind both cursors: what did not fit into
\* the batch is read again before they wrap.
THEOREM OverflowKept == Undisturbed => (Spec => OverflowHeld)
<1> SUFFICES ASSUME Undisturbed
             PROVE  Spec => OverflowHeld
  OBVIOUS
<1> DEFINE A == \A n \in Nodes, how \in {"done", "interrupted"} :
                  EndsAs(n, how) /\ node'[n].expunged = 0 => Held(node[n])'
<1>1. IInv /\ TrackInv /\ IInv' /\ [Next]_vars => [A]_vars
  <2> SUFFICES ASSUME IInv, TrackInv, IInv', [Next]_vars, NEW n \in Nodes,
                      NEW how \in {"done", "interrupted"},
                      EndsAs(n, how), node'[n].expunged = 0
               PROVE  Held(node[n])'
    OBVIOUS
  <2>1. Follows(n)
    BY NextFollows
  <2>2. node'[n].at = "logout" /\ Ends(node[n])'
    BY <2>1 DEF Follows, EndsAs
  <2>3. \A u \in node'[n].over : node'[n].scan <= Order'[u] \/ node'[n].newUid \in 1..u
    BY <2>2 DEF Ends, EndsAs
  <2>4. node'[n].scan \in Nat
    <3>1. node'[n].scan \in Cursor
      BY DEF IInv, Sound, NodeState
    <3> QED
      BY <3>1, BoundAssumption DEF Cursor
  <2> SUFFICES ASSUME NEW u \in node'[n].over, u \in Uid
               PROVE  BeforeScan(node[n], u)' \/ node'[n].newUid \in 1..u
    BY DEF Held, Present
  <2>5. Order'[u] = SeqNo(u)' /\ Order'[u] \in Nat
    BY OrderNext
  <2>6. node'[n].scan <= Order'[u] => BeforeScan(node[n], u)'
    BY <2>4, <2>5 DEF BeforeScan
  <2> QED
    BY <2>3, <2>6
<1> QED
  BY <1>1, CursorsInductive, PTL DEF Spec, OverflowHeld

\* In such a cycle the candidate whose fetch a lost connection interrupts is found again.
THEOREM FailedKept == Undisturbed => (Spec => FailedCandidateAhead)
<1> SUFFICES ASSUME Undisturbed
             PROVE  Spec => FailedCandidateAhead
  OBVIOUS
<1> DEFINE A == \A n \in Nodes : EndsAs(n, "interrupted") /\ node'[n].expunged = 0 =>
                  Ahead(node[n], node[n].cands[node[n].pos])'
<1>1. IInv /\ TrackInv /\ IInv' /\ [Next]_vars => [A]_vars
  <2> SUFFICES ASSUME IInv, TrackInv, IInv', [Next]_vars, NEW n \in Nodes,
                      EndsAs(n, "interrupted"), node'[n].expunged = 0
               PROVE  Ahead(node[n], node[n].cands[node[n].pos])'
    OBVIOUS
  <2>1. Follows(n)
    BY NextFollows
  <2>2. node'[n].at = "logout" /\ Ends(node[n])'
    BY <2>1 DEF Follows, EndsAs
  <2>3. PICK c : c = node'[n].cands[node'[n].pos]
    OBVIOUS
  <2>4. IF c.new # 0 THEN node'[n].newUid \in 1..c.uid ELSE node'[n].scan <= Order'[c.uid]
    BY <2>2, <2>3 DEF Ends, EndsAs
  <2>5. node'[n].scan \in Nat
    <3>1. node'[n].scan \in Cursor
      BY DEF IInv, Sound, NodeState
    <3> QED
      BY <3>1, BoundAssumption DEF Cursor
  <2>6. c.uid \in Uid => Order'[c.uid] = Cardinality({v \in Present' : v <= c.uid})
                           /\ Order'[c.uid] \in Nat
    BY OrderNext DEF SeqNo
  <2>7. {v \in Present' : v <= c.uid} = {v \in Present' : v <= node'[n].cands[node'[n].pos].uid}
    BY <2>3
  <2>8. c.uid \in Uid /\ c.new = 0 =>
          Cardinality({v \in Present' : v <= node'[n].cands[node'[n].pos].uid}) >= node'[n].scan
    BY <2>4, <2>5, <2>6, <2>7
  <2>9. c.uid \in Present' => c.uid \in Uid
    BY DEF Present
  <2> QED
    BY <2>3, <2>4, <2>8, <2>9 DEF Ahead, BeforeScan, SeqNo
<1> QED
  BY <1>1, CursorsInductive, PTL DEF Spec, FailedCandidateAhead

-----------------------------------------------------------------------------
(* A close takes the reading of the cycle it cuts off back.                *)

\* Before the first candidate no cursors are noted for the close.
Unfetched(s) == s.pos = 0 => s.closeScan = 0 /\ s.closeNew = 0
UnfetchedInv == \A n \in Nodes : Unfetched(node[n])

Notes(s) == <<s.pos, s.closeScan, s.closeNew>>

LEMMA SameNotes ==
  ASSUME NEW s, Unfetched(s), NEW r, Notes(r) = Notes(s)
  PROVE  Unfetched(r)
BY DEF Unfetched, Notes

LEMMA EndCycleNotes ==
  ASSUME NEW s \in NodeState, NEW how
  PROVE  Notes(EndCycle(s, how)) = Notes(s)
BY DEF EndCycle, Notes, NodeState

LEMMA NextCandidateUnfetched ==
  ASSUME NEW s \in NodeState, Unfetched(s), NEW i \in Nat \ {0}
  PROVE  Unfetched(NextCandidate(s, i))
<1>1. Unfetched(NoteCandidateRollback(s, i))
  BY DEF NoteCandidateRollback, Unfetched, NodeState
<1>2. Unfetched([s EXCEPT !.at = "expunge", !.pos = i, !.purge = Purgeable(s, s.late)])
  BY DEF Unfetched, NodeState
<1>3. Unfetched(EndCycle(s, "done"))
  BY EndCycleNotes, SameNotes
<1> QED
  BY <1>1, <1>2, <1>3 DEF NextCandidate

LEMMA ReadingDoneUnfetched ==
  ASSUME NEW s \in NodeState, Unfetched(s)
  PROVE  Unfetched(ReadingDone(s))
<1>1. Unfetched([s EXCEPT !.at = "expunge", !.purge = Purgeable(s, s.deleted)])
  BY DEF Unfetched, NodeState
<1>2. Unfetched(NextCandidate(s, 1))
  BY NextCandidateUnfetched
<1> QED
  BY <1>1, <1>2 DEF ReadingDone

LEMMA WindowNotes ==
  ASSUME NEW s \in NodeState
  PROVE  /\ \A kind, size : Notes(CursorWindow(s, kind, size)) = Notes(s)
         /\ \A start, end : Notes(NewUidChunk(s, start, end)) = Notes(s)
         /\ \A v : Notes(ScanAt(s, v)) = Notes(s)
         /\ \A v : Notes(NewUidAt(s, v)) = Notes(s)
         /\ \A v : Notes(FreshAt(s, v)) = Notes(s)
<1>1. \A kind, size : Notes(CursorWindow(s, kind, size)) = Notes(s)
  BY DEF CursorWindow, Notes, NodeState
<1>2. \A start, end : Notes(NewUidChunk(s, start, end)) = Notes(s)
  BY DEF NewUidChunk, Notes, NodeState
<1>3. \A v : Notes(ScanAt(s, v)) = Notes(s)
  BY DEF ScanAt, Notes, NodeState
<1>4. \A v : Notes(NewUidAt(s, v)) = Notes(s)
  BY DEF NewUidAt, Notes, NodeState
<1>5. \A v : Notes(FreshAt(s, v)) = Notes(s)
  BY DEF FreshAt, Notes, NodeState
<1> QED
  BY <1>1, <1>2, <1>3, <1>4, <1>5

LEMMA ReadNotes ==
  ASSUME NEW s \in NodeState
  PROVE  Notes(ReadCandidateWindow(s)) = Notes(s)
BY DEF ReadCandidateWindow, Notes, NodeState

LEMMA AfterNewUidsUnfetched ==
  ASSUME NEW s, Reading(s), Unfetched(s), NEW missed \in SUBSET Uid
  PROVE  Unfetched(AfterNewUids(s, missed))
<1> DEFINE newUid == IF missed # {} THEN MinOf(missed) ELSE s.last + 1
           here == NewUidAt(s, newUid)
           top == ScanAt(here, 1)
           window == CursorWindow(here, "backlog", BacklogWindowSize)
           r == AfterNewUids(s, missed)
<1>1. s \in NodeState
  BY DEF Reading, Cycle
<1>2. newUid \in Cursor0
  <2>1. s.last \in 0..MaxUid
    BY <1>1 DEF NodeState
  <2>2. missed # {} => MinOf(missed) \in Uid
    BY LeastUid
  <2>3. \A u \in Uid : u \in Cursor0
    BY BoundAssumption DEF Uid, Cursor0
  <2>4. s.last + 1 \in Cursor0
    BY <2>1, BoundAssumption DEF Cursor0
  <2> QED
    BY <2>2, <2>3, <2>4
<1>3. \/ r = ReadingDone(top) \/ r = ReadingDone(here) \/ r = window
  BY DEF AfterNewUids, NewUidAt, ScanAt
<1>4. Notes(here) = Notes(s)
  BY <1>1, WindowNotes
<1> HIDE DEF newUid, r
<1>5. Reading(here)
  BY <1>2, CursorsMoved
<1> HIDE DEF here
<1>6. here \in NodeState /\ 1 \in Cursor
  BY <1>5, BoundAssumption DEF Reading, Cycle, Cursor
<1>7. top \in NodeState
  BY <1>5, <1>6, CursorsMoved DEF Reading, Cycle
<1>8. Notes(top) = Notes(here) /\ Notes(window) = Notes(here)
  BY <1>6, WindowNotes
<1> HIDE DEF top, window
<1>9. Unfetched(here) /\ Unfetched(top) /\ Unfetched(window)
  BY <1>4, <1>8, SameNotes
<1>10. Unfetched(ReadingDone(here)) /\ Unfetched(ReadingDone(top))
  BY <1>6, <1>7, <1>9, ReadingDoneUnfetched
<1> QED
  BY <1>3, <1>9, <1>10 DEF r

LEMMA AfterWindowUnfetched ==
  ASSUME NEW s, Reading(s), s.first \in 1..s.last, Unfetched(s), NEW missed \in SUBSET Uid,
         NEW timeout
  PROVE  Unfetched(AfterWindow(s, missed, timeout))
<1> DEFINE r == AfterWindow(s, missed, timeout)
           moved == MoveScanCursor(s, missed # {})
           next == IF s.last >= s.exists THEN 1 ELSE s.last + 1
           scan == IF missed # {} THEN s.first ELSE next
           fresh == FreshAt(moved, s.next)
           window == CursorWindow(moved, "cursor", FrontWindowSize)
           chunk == NewUidChunk(s, s.last + 1, s.newEnd)
<1>1. s \in NodeState
  BY DEF Reading, Cycle
<1>2. /\ s.kind \in {"cursor", "backlog", "new"} /\ s.last \in 0..MaxUid
      /\ s.exists \in 0..MaxUid /\ s.first \in Cursor0 /\ s.next \in Cursor0
  BY <1>1 DEF NodeState
<1>3. moved = ScanAt(s, scan)
  BY DEF MoveScanCursor, ScanAt
<1>4. Notes(moved) = Notes(s)
  BY <1>1, <1>3, WindowNotes
<1>5. \/ r = ReadingDone(moved) \/ r = ReadingDone(fresh) \/ r = window
      \/ r = chunk \/ r = AfterNewUids(s, missed)
  BY <1>2 DEF AfterWindow, FreshAt
<1> HIDE DEF moved, r
<1>6. scan \in Cursor
  <2>1. s.first \in Cursor
    BY <1>2, BoundAssumption DEF Cursor
  <2>2. next \in Cursor
    BY <1>2, BoundAssumption DEF Cursor
  <2> QED
    BY <2>1, <2>2
<1> HIDE DEF scan, next
<1>7. Reading(moved)
  BY <1>3, <1>6, CursorsMoved
<1>8. moved \in NodeState /\ fresh \in NodeState
  BY <1>2, <1>7, CursorsMoved DEF Reading, Cycle
<1>9. Notes(fresh) = Notes(moved) /\ Notes(window) = Notes(moved) /\ Notes(chunk) = Notes(s)
  BY <1>1, <1>8, WindowNotes
<1> HIDE DEF fresh, window, chunk
<1>10. Unfetched(moved) /\ Unfetched(fresh) /\ Unfetched(window) /\ Unfetched(chunk)
  BY <1>4, <1>9, SameNotes
<1>11. Unfetched(ReadingDone(moved)) /\ Unfetched(ReadingDone(fresh))
  BY <1>8, <1>10, ReadingDoneUnfetched
<1>12. Unfetched(AfterNewUids(s, missed))
  BY AfterNewUidsUnfetched
<1> QED
  BY <1>5, <1>10, <1>11, <1>12 DEF r

LEMMA SelectedUnfetched ==
  ASSUME NEW s \in NodeState, Unfetched(s), mailbox \in Mailbox
  PROVE  Unfetched(Selected(s))
<1> DEFINE here == SelectedAt(s)
           valid == WithValidity(here)
           done == [here EXCEPT !.at = "logout", !.how = "done", !.scan = 1,
                                !.validity = here.session, !.newUid = here.next]
           known == NewUidAt(valid, Min2(valid.newUid, valid.next))
           first == FirstWindow(valid)
           r == Selected(s)
<1>1. here \in NodeState /\ valid \in NodeState
  BY SelectedReads
<1>2. r = IF here.exists = 0 THEN done ELSE first
  BY DEF Selected, SelectedAt
<1>3. Notes(here) = Notes(s)
  BY DEF Notes, NodeState, SelectedAt
<1> HIDE DEF here, r
<1>4. Notes(valid) = Notes(here) /\ Notes(done) = Notes(here)
  BY <1>1 DEF Notes, NodeState, WithValidity
<1> HIDE DEF valid
<1>5. known \in NodeState
  <2>1. valid.newUid \in Cursor0 /\ valid.next \in Cursor0
    BY <1>1 DEF NodeState
  <2>2. Min2(valid.newUid, valid.next) \in Cursor0
    BY <2>1 DEF Min2
  <2> QED
    BY <1>1, <2>2, Updates DEF NewUidAt
<1>6. Notes(known) = Notes(valid)
  BY <1>1, WindowNotes
<1>7. \/ first = CursorWindow(valid, "cursor", FrontWindowSize)
      \/ \E start, end : first = NewUidChunk(known, start, end)
      \/ first = CursorWindow(known, "backlog", BacklogWindowSize)
  <2>1. known = [valid EXCEPT !.newUid = Min2(@, valid.next)]
    BY <1>1 DEF NewUidAt, NodeState
  <2> HIDE DEF known
  <2> QED
    BY <2>1 DEF FirstWindow
<1> HIDE DEF known, first, done
<1>8. Notes(first) = Notes(valid)
  BY <1>1, <1>5, <1>6, <1>7, WindowNotes
<1>9. Notes(r) = Notes(s)
  BY <1>2, <1>3, <1>4, <1>8
<1> QED
  BY <1>9, SameNotes DEF r

LEMMA AfterChunkUnfetched ==
  ASSUME NEW s \in NodeState, Unfetched(s), NEW chunk
  PROVE  Unfetched(AfterChunk(s, chunk))
<1> DEFINE left == [s EXCEPT !.purge = s.purge \ chunk]
           r == AfterChunk(s, chunk)
<1>1. s.purge \ chunk \in SUBSET Uid
  BY DEF NodeState
<1>2. left \in NodeState
  BY <1>1, Updates
<1>3. Notes(left) = Notes(s)
  BY DEF Notes, NodeState
<1>4. \/ r = left \/ r = NextCandidate(left, 1) \/ r = EndCycle(left, "done")
  BY DEF AfterChunk
<1> HIDE DEF left, r
<1>5. Unfetched(left)
  BY <1>3, SameNotes
<1>6. Unfetched(NextCandidate(left, 1)) /\ Unfetched(EndCycle(left, "done"))
  BY <1>2, <1>5, NextCandidateUnfetched, EndCycleNotes, SameNotes
<1> QED
  BY <1>4, <1>5, <1>6 DEF r

LEMMA IdleUnfetched == \A s : Unfetched(Finished(s)) /\ Unfetched(CloseAbort(s))
BY DEF Unfetched, Finished, CloseAbort, IdleNode

\* The steps of one node.
LEMMA NodeUnfetched ==
  ASSUME IInv, NEW n \in Nodes, Unfetched(node[n]),
         \/ Trigger(n) \/ ConnectReply(n) \/ LockReply(n) \/ WindowReply(n) \/ ExpungeReply(n)
         \/ FetchReply(n) \/ ContentReply(n) \/ LogoutReply(n) \/ AbortedReply(n)
         \/ Close(n) \/ Deadline(n)
  PROVE  \E r : Unfetched(r) /\ node' = [node EXCEPT ![n] = r]
<1>1. PICK s \in NodeState : s = node[n] /\ Sound(s) /\ Unfetched(s)
  BY DEF IInv, Sound
<1>2. ASSUME NEW r, node' = [node EXCEPT ![n] = r], Unfetched(r) \/ Notes(r) = Notes(s)
      PROVE  \E q : Unfetched(q) /\ node' = [node EXCEPT ![n] = q]
  <2>1. Unfetched(r)
    BY <1>1, <1>2, SameNotes
  <2> QED
    BY <1>2, <2>1
<1>3. Notes(Thrown(s)) = Notes(s)
  BY DEF Notes, Thrown, NodeState
<1>4. CASE Trigger(n)
  <2>1. PICK limit : limit = CandidateLimit(MaxInflight - Cardinality(active))
    OBVIOUS
  <2>2. PICK r : r = [s EXCEPT !.at = "connect", !.limit = limit, !.startScan = s.scan,
                               !.startNew = s.newUid]
    OBVIOUS
  <2>3. node' = [node EXCEPT ![n] = r]
    BY <1>1, <1>4, <2>1, <2>2 DEF Trigger, Step
  <2>4. Notes(r) = Notes(s)
    BY <2>2 DEF Notes, NodeState
  <2> QED
    BY <1>2, <2>3, <2>4
<1>5. CASE ConnectReply(n)
  <2>1. Notes([s EXCEPT !.at = "lock"]) = Notes(s)
    BY DEF Notes, NodeState
  <2> QED
    BY <1>1, <1>2, <1>3, <1>5, <2>1 DEF ConnectReply, Step
<1>6. CASE LockReply(n)
  <2>1. Unfetched(Selected(s))
    BY <1>1, SelectedUnfetched DEF IInv
  <2> QED
    BY <1>1, <1>2, <1>3, <1>6, <2>1 DEF LockReply, Step
<1>7. CASE WindowReply(n)
  <2>1. PICK read : read = ReadCandidateWindow(s)
    OBVIOUS
  <2>2. PICK missed : missed = read.over \ s.over
    OBVIOUS
  <2>3. Reading(s) /\ s.first \in 1..s.last
    BY <1>1, <1>7 DEF WindowReply, Sound
  <2>4. /\ Reading(read) /\ missed \in SUBSET Uid
        /\ read.first = s.first /\ read.last = s.last
    BY <2>1, <2>2, <2>3, ReadCandidateWindowReads DEF IInv
  <2>5. Unfetched(read)
    BY <1>1, <2>1, ReadNotes, SameNotes
  <2>6. \A timeout : Unfetched(AfterWindow(read, missed, timeout))
    BY <2>3, <2>4, <2>5, AfterWindowUnfetched
  <2>7. \/ \E timeout : node' = [node EXCEPT ![n] = AfterWindow(read, missed, timeout)]
        \/ node' = [node EXCEPT ![n] = Thrown(s)]
    BY <1>1, <1>7, <2>1, <2>2 DEF WindowReply, Step
  <2> QED
    BY <1>2, <1>3, <2>6, <2>7
<1>8. CASE ExpungeReply(n)
  <2>1. PICK chunk : chunk = Smallest(s.purge, MaxUidPerCommand)
    OBVIOUS
  <2>2. PICK k : k = s.expunged + Cardinality(chunk)
    OBVIOUS
  <2>3. PICK c : c = [s EXCEPT !.expunged = k]
    OBVIOUS
  <2>4. \/ node' = [node EXCEPT ![n] = AfterChunk(c, chunk)]
        \/ node' = [node EXCEPT ![n] = AfterChunk(s, chunk)]
        \/ node' = [node EXCEPT ![n] = Thrown(s)]
    BY <1>1, <1>8, <2>1, <2>2, <2>3 DEF ExpungeReply
  <2>5. c \in NodeState
    <3>1. chunk \in SUBSET Uid /\ s.expunged \in Nat
      BY <2>1 DEF Smallest, NodeState
    <3>2. k \in Nat
      BY <2>2, <3>1, UidFinite
    <3> QED
      BY <2>3, <3>2, Updates
  <2>6. Notes(c) = Notes(s)
    BY <2>3 DEF Notes, NodeState
  <2>7. Unfetched(AfterChunk(c, chunk)) /\ Unfetched(AfterChunk(s, chunk))
    BY <1>1, <2>5, <2>6, SameNotes, AfterChunkUnfetched
  <2> QED
    BY <1>2, <1>3, <2>4, <2>7
<1>9. CASE FetchReply(n)
  <2>1. PICK u : u = s.cands[s.pos].uid
    OBVIOUS
  <2>2. s.pos + 1 \in Nat \ {0} /\ u \in Uid
    <3>1. s.pos \in 1..Len(s.cands) /\ s.pos \in Nat
      BY <1>1, <1>9 DEF FetchReply, Sound, NodeState
    <3> QED
      BY <2>1, <3>1, CandidateType DEF Candidate
  <2>3. PICK d : d = RememberDeleted(s, u)
    OBVIOUS
  <2>4. d \in NodeState
    BY <2>2, <2>3, RememberDeletedFields
  <2>5. Notes(d) = Notes(s)
    BY <2>3 DEF RememberDeleted, Notes, NodeState
  <2>6. Unfetched(NextCandidate(d, s.pos + 1)) /\ Unfetched(NextCandidate(s, s.pos + 1))
    BY <1>1, <2>2, <2>4, <2>5, SameNotes, NextCandidateUnfetched
  <2>7. Notes([s EXCEPT !.at = "content", !.stale = FALSE]) = Notes(s)
    BY DEF Notes, NodeState
  <2>8. \/ node' = [node EXCEPT ![n] = [s EXCEPT !.at = "content", !.stale = FALSE]]
        \/ node' = [node EXCEPT ![n] = NextCandidate(d, s.pos + 1)]
        \/ node' = [node EXCEPT ![n] = NextCandidate(s, s.pos + 1)]
        \/ node' = [node EXCEPT ![n] = EndCycle(s, "interrupted")]
        \/ node' = [node EXCEPT ![n] = Thrown(s)]
    BY <1>1, <1>9, <2>1, <2>3 DEF FetchReply, Step
  <2> QED
    BY <1>2, <1>3, <2>6, <2>7, <2>8, EndCycleNotes
<1>10. CASE ContentReply(n)
  <2>1. s.pos + 1 \in Nat \ {0}
    BY <1>1, <1>10 DEF ContentReply, Sound, NodeState
  <2>2. Unfetched(NextCandidate(s, s.pos + 1))
    BY <1>1, <2>1, NextCandidateUnfetched
  <2>3. \/ node' = [node EXCEPT ![n] = NextCandidate(s, s.pos + 1)]
        \/ node' = [node EXCEPT ![n] = EndCycle(s, "interrupted")]
    BY <1>1, <1>10 DEF ContentReply
  <2> QED
    BY <1>2, <2>2, <2>3, EndCycleNotes
<1>11. CASE LogoutReply(n) \/ AbortedReply(n)
  <2>1. \E q : node' = [node EXCEPT ![n] = Finished(q)] \/ node' = [node EXCEPT ![n] = CloseAbort(q)]
    BY <1>11 DEF LogoutReply, AbortedReply, Step
  <2> QED
    BY <1>2, <2>1, IdleUnfetched
<1>12. CASE Close(n) \/ Deadline(n)
  <2>1. PICK close : node' = [node EXCEPT ![n] = [s EXCEPT !.close = close]]
    BY <1>1, <1>12 DEF Close, Deadline, Step
  <2>2. Notes([s EXCEPT !.close = close]) = Notes(s)
    BY DEF Notes, NodeState
  <2> QED
    BY <1>2, <2>1, <2>2
<1> QED
  BY <1>4, <1>5, <1>6, <1>7, <1>8, <1>9, <1>10, <1>11, <1>12

LEMMA NextUnfetched ==
  ASSUME IInv, UnfetchedInv, [Next]_vars
  PROVE  UnfetchedInv'
<1>1. ASSUME NEW n \in Nodes,
             \/ Trigger(n) \/ ConnectReply(n) \/ LockReply(n) \/ WindowReply(n)
             \/ ExpungeReply(n) \/ FetchReply(n) \/ ContentReply(n) \/ LogoutReply(n)
             \/ AbortedReply(n) \/ Close(n) \/ Deadline(n)
      PROVE  UnfetchedInv'
  <2>1. PICK r : Unfetched(r) /\ node' = [node EXCEPT ![n] = r]
    BY <1>1, NodeUnfetched DEF UnfetchedInv
  <2> QED
    BY <2>1 DEF UnfetchedInv, IInv
<1>2. ASSUME NEW m \in Messages, Ack(m)
      PROVE  UnfetchedInv'
  <2> SUFFICES ASSUME NEW n \in Nodes
               PROVE  Unfetched(node'[n])
    BY DEF UnfetchedInv
  <2>1. PICK s \in NodeState : s = node[n]
    BY DEF IInv, Sound
  <2>2. node'[n] = s \/ node'[n] = [s EXCEPT !.stale = TRUE]
    BY <1>2, <2>1 DEF Ack
  <2>3. Notes([s EXCEPT !.stale = TRUE]) = Notes(s)
    BY DEF Notes, NodeState
  <2> QED
    BY <2>1, <2>2, <2>3, SameNotes DEF UnfetchedInv
<1>3. ASSUME \/ Deliver \/ Recreate \/ UNCHANGED vars
             \/ \E u \in Uid : OtherClient(u)
             \/ \E m \in Messages : Expire(m)
      PROVE  UnfetchedInv'
  <2>1. node' = node
    BY <1>3 DEF Deliver, Recreate, vars, OtherClient, Expire
  <2> QED
    BY <2>1 DEF UnfetchedInv
<1> QED
  BY <1>1, <1>2, <1>3 DEF Next

\* Only the end of an await that the close has cut off takes a closing node from its work.
LEMMA CutOff ==
  ASSUME IInv, OneNode, Next, NEW n \in Nodes, node[n].close = "closing",
         node[n].at \notin {"idle", "logout"}, node'[n].at = "idle"
  PROVE  AbortedReply(n)
<1>1. \A k \in Nodes : k = n
  BY DEF OneNode
<1>2. PICK s \in NodeState : s = node[n]
  BY DEF IInv, Sound
<1>3. ~(Trigger(n) \/ ConnectReply(n) \/ LockReply(n) \/ WindowReply(n) \/ ExpungeReply(n)
          \/ FetchReply(n) \/ ContentReply(n) \/ LogoutReply(n))
  BY DEF Trigger, ConnectReply, LockReply, WindowReply, ExpungeReply, FetchReply, ContentReply,
         LogoutReply, Closing
<1>4. ASSUME \/ node'[n] = s \/ \E close : node'[n] = [s EXCEPT !.close = close]
             \/ node'[n] = [s EXCEPT !.stale = TRUE]
      PROVE  FALSE
  <2>1. node'[n].at = s.at
    BY <1>4 DEF NodeState
  <2> QED
    BY <1>2, <2>1
<1>5. ~(Close(n) \/ Deadline(n))
  <2>1. Close(n) \/ Deadline(n) => \E close : node'[n] = [s EXCEPT !.close = close]
    BY <1>2 DEF Close, Deadline, Step, IInv
  <2> QED
    BY <1>4, <2>1
<1>6. ~(Deliver \/ Recreate \/ \E u \in Uid : OtherClient(u))
  BY <1>2, <1>4 DEF Deliver, Recreate, OtherClient
<1>7. ~(\E m \in Messages : Ack(m) \/ Expire(m))
  BY <1>2, <1>4 DEF Ack, Expire
<1> QED
  BY <1>1, <1>3, <1>5, <1>6, <1>7 DEF Next

\* The close of a node whose cycle hangs sets the cursors back: to the cycle's start before the
\* first candidate, and so that the candidate in work is found again after that.
THEOREM CloseKept == Undisturbed => (Spec => CloseSetsBack)
<1> SUFFICES ASSUME Undisturbed
             PROVE  Spec => CloseSetsBack
  OBVIOUS
<1> DEFINE A == \A n \in Nodes :
       LET s == node[n]
       IN  s.close = "closing" /\ s.at \notin {"idle", "logout"} /\ node'[n].at = "idle" =>
             /\ s.pos = 0 => /\ node'[n].scan = s.startScan
                            /\ node'[n].newUid = s.startNew
             /\ s.at \in {"fetch", "content"} /\ s.expunged = 0 =>
                  Ahead(node'[n], s.cands[s.pos])
           Inv == IInv /\ TrackInv /\ UnfetchedInv
<1>1. Init => UnfetchedInv
  BY DEF Init, UnfetchedInv, Unfetched, IdleNode
<1>2. UnfetchedInv /\ IInv /\ [Next]_vars => UnfetchedInv'
  BY NextUnfetched
<1>3. Inv /\ [Next]_vars => [A]_vars
  <2> SUFFICES ASSUME IInv, TrackInv, UnfetchedInv, Next, NEW n \in Nodes,
                      node[n].close = "closing", node[n].at \notin {"idle", "logout"},
                      node'[n].at = "idle"
               PROVE  /\ node[n].pos = 0 => /\ node'[n].scan = node[n].startScan
                                           /\ node'[n].newUid = node[n].startNew
                      /\ node[n].at \in {"fetch", "content"} /\ node[n].expunged = 0 =>
                           Ahead(node'[n], node[n].cands[node[n].pos])
    OBVIOUS
  <2>1. PICK s \in NodeState : s = node[n] /\ Sound(s) /\ Track(s) /\ Unfetched(s)
    BY DEF IInv, Sound, TrackInv, UnfetchedInv
  <2>2. AbortedReply(n)
    BY CutOff DEF Undisturbed
  <2>3. node'[n] = IF s.at \in {"fetch", "content"} THEN Finished(EndCycle(s, "interrupted"))
                   ELSE CloseAbort(s)
    BY <2>1, <2>2 DEF AbortedReply, IInv
  <2>4. s.at \in {"fetch", "content"} => s.pos \in 1..Len(s.cands) /\ s.pos # 0
    BY <2>1 DEF Sound, NodeState
  <2>5. ASSUME s.pos = 0
        PROVE  node'[n].scan = s.startScan /\ node'[n].newUid = s.startNew
    <3>1. node'[n] = CloseAbort(s) /\ s.closeScan = 0 /\ s.closeNew = 0
      BY <2>1, <2>3, <2>4, <2>5 DEF Unfetched
    <3> QED
      BY <3>1 DEF CloseAbort, Finished, IdleNode, NodeState
  <2>6. ASSUME s.at \in {"fetch", "content"}, s.expunged = 0
        PROVE  Ahead(node'[n], s.cands[s.pos])
    <3>1. PICK e : e = EndCycle(s, "interrupted")
      OBVIOUS
    <3>2. PICK c : c = s.cands[s.pos]
      OBVIOUS
    <3>3. Leads(e, s.how)
      BY <2>1, <2>4, <2>6, <3>1, EndCycleEnds DEF Track
    <3>4. /\ e.at = "logout" /\ e.how = "interrupted" /\ e.expunged = 0
          /\ e.cands = s.cands /\ e.pos = s.pos
      BY <2>6, <3>1 DEF EndCycle, NodeState
    <3>5. IF c.new # 0 THEN e.newUid \in 1..c.uid ELSE e.scan <= Order[c.uid]
      BY <3>2, <3>3, <3>4 DEF Leads, Ends
    <3>6. node'[n].scan = e.scan /\ node'[n].newUid = e.newUid
      BY <2>3, <2>6, <3>1 DEF Finished, IdleNode
    <3>7. e.scan \in Nat
      <4>1. s.retryScan \in Cursor0 /\ s.after \in Cursor0
        BY DEF NodeState
      <4>2. e.scan \in {s.retryScan, s.after}
        BY <3>1 DEF EndCycle, NodeState
      <4> QED
        BY <4>1, <4>2, BoundAssumption DEF Cursor0
    <3>8. c.uid \in Uid
      BY <2>1, <2>4, <2>6, <3>2, CandidateType DEF Candidate
    <3>9. Order[c.uid] = SeqNo(c.uid) /\ Order[c.uid] \in Nat
      BY <3>8, OrderType
    <3>10. c.new = 0 => SeqNo(c.uid) >= node'[n].scan
      BY <3>5, <3>6, <3>7, <3>9
    <3>11. Ahead(node'[n], c)
      BY <3>5, <3>6, <3>10 DEF Ahead, BeforeScan
    <3> QED
      BY <3>2, <3>11
  <2> QED
    BY <2>1, <2>5, <2>6
<1> QED
  BY <1>1, <1>2, <1>3, CursorsInductive, PTL DEF Spec, CloseSetsBack

=============================================================================
