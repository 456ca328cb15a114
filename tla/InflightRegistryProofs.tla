----------------------- MODULE InflightRegistryProofs -----------------------
(* Theorems about InflightRegistry for every value of its constants.       *)
EXTENDS InflightRegistry, TLAPS, FiniteSetTheorems, SequenceTheorems

(* The guard list keeps its type under every operation.                    *)

\* The number of expired leading guards is a natural number.
LEMMA ExpiredPrefixType ==
  ASSUME NEW g \in Seq(Guard), NEW now \in Nat
  PROVE  ExpiredPrefix(g, now) \in Nat
<1> DEFINE S == {i \in 1..Len(g) : \A j \in 1..i : g[j].at + GuardTTL <= now}
<1>1. IsFiniteSet(1..Len(g))
  BY FS_Interval, LenProperties
<1>2. S \in SUBSET (1..Len(g))
  OBVIOUS
<1>3. IsFiniteSet(S)
  BY <1>1, <1>2, FS_Subset
<1> QED
  BY <1>3, FS_CardinalityType DEF ExpiredPrefix

\* Dropping the oldest guards leaves a list of guards.
LEMMA PruneGuardsType ==
  ASSUME NEW g \in Seq(Guard), NEW now \in Nat
  PROVE  PruneCompletionGuards(g, now) \in Seq(Guard)
<1> DEFINE e == ExpiredPrefix(g, now)
           x == Len(g) - MaxGuards
           m == (IF e > x THEN e ELSE x) + 1
<1>1. e \in Nat
  BY ExpiredPrefixType
<1>2. Len(g) \in Nat /\ \A i \in 1..Len(g) : g[i] \in Guard
  BY ElementOfSeq, LenProperties
<1>3. m \in Int /\ m >= 1
  BY <1>1, <1>2, BoundAssumption
<1>4. \A i \in m..Len(g) : g[i] \in Guard
  BY <1>2, <1>3
<1> HIDE DEF e, x, m
<1>5. SubSeq(g, m, Len(g)) \in Seq(Guard)
  BY <1>2, <1>3, <1>4, SubSeqProperties
<1> QED
  BY <1>5 DEF PruneCompletionGuards, e, x, m

\* Deleting a guard leaves a list of guards.
LEMMA DeleteGuardType ==
  ASSUME NEW g \in Seq(Guard), NEW k
  PROVE  DeleteGuard(g, k) \in Seq(Guard)
<1> DEFINE p == GuardPosition(g, k)
<1>1. CASE ~IsGuarded(g, k)
  BY <1>1 DEF DeleteGuard
<1>2. CASE IsGuarded(g, k)
  <2>1. p \in 1..Len(g)
    BY <1>2 DEF IsGuarded, GuardPosition
  <2>2. Len(g) \in Nat /\ \A i \in 1..Len(g) : g[i] \in Guard
    BY ElementOfSeq, LenProperties
  <2> HIDE DEF p
  <2>3. SubSeq(g, 1, p - 1) \in Seq(Guard)
    BY <2>1, <2>2, SubSeqProperties
  <2>4. SubSeq(g, p + 1, Len(g)) \in Seq(Guard)
    BY <2>1, <2>2, SubSeqProperties
  <2> QED
    BY <1>2, <2>3, <2>4, ConcatProperties DEF DeleteGuard, p
<1> QED
  BY <1>1, <1>2

\* Recording a completion leaves a list of guards.
LEMMA RecordCompletionType ==
  ASSUME NEW g \in Seq(Guard), NEW k \in Keys, NEW now \in Time
  PROVE  RecordCompletion(g, k, now) \in Seq(Guard)
<1>1. now \in Nat
  BY DEF Time
<1>2. DeleteGuard(PruneCompletionGuards(g, now), k) \in Seq(Guard)
  BY <1>1, PruneGuardsType, DeleteGuardType
<1>3. [key |-> k, at |-> now] \in Guard
  BY DEF Guard
<1>4. Append(DeleteGuard(PruneCompletionGuards(g, now), k), [key |-> k, at |-> now]) \in Seq(Guard)
  BY <1>2, <1>3, AppendProperties
<1> QED
  BY <1>1, <1>4, PruneGuardsType DEF RecordCompletion

-----------------------------------------------------------------------------
(* Type correctness.                                                       *)

LEMMA InitTypeOK == Init => TypeOK
  BY EmptySeq DEF Init, TypeOK, Time

LEMMA NextTypeOK == TypeOK /\ [Next]_vars => TypeOK'
<1> SUFFICES ASSUME TypeOK, [Next]_vars
             PROVE  TypeOK'
  OBVIOUS
<1> USE RetryAssumption, BoundAssumption, SentinelAssumption
<1>1. CASE UNCHANGED vars
  BY <1>1 DEF TypeOK, vars
<1>2. CASE Tick
  <2>1. clock' \in Time /\ clock' = clock + 1 /\ clock \in Nat
    BY <1>2 DEF TypeOK, Tick, Time
  <2>2. \A k \in Keys : entries[k] # NoEntry => entries[k].lastSentAt \in Nat
    BY DEF TypeOK, Entry, Time
  <2>3. \A f \in Fetchers : built[f] # NoToken => built[f].issuedAt \in Nat
    BY DEF TypeOK, Token, Time
  <2>4. \A k \in Keys : entries'[k] # NoEntry =>
          entries'[k].token.key = k /\ entries'[k].lastSentAt <= clock'
    BY <1>2, <2>1, <2>2 DEF TypeOK, Tick
  <2>5. \A f \in Fetchers : built'[f] # NoToken => built'[f].issuedAt <= clock'
    BY <1>2, <2>1, <2>3 DEF TypeOK, Tick
  <2>6. drawn' \in [Keys -> SUBSET Nonces]
    BY <1>2 DEF Tick
  <2> QED
    BY <1>2, <2>1, <2>4, <2>5, <2>6 DEF TypeOK, Tick, history
<1>3. ASSUME NEW f \in Fetchers, PruneExpired(f)
      PROVE  TypeOK'
  <2>1. guards' \in Seq(Guard)
    BY <1>3, PruneGuardsType DEF TypeOK, PruneExpired, Time
  <2> QED
    BY <1>3, <2>1 DEF TypeOK, PruneExpired, PruneExpiredInflight, history
<1>4. ASSUME NEW f \in Fetchers, NEW k \in Keys, Select(f, k)
      PROVE  TypeOK'
  BY <1>4 DEF TypeOK, Select, history
<1>5. ASSUME NEW f \in Fetchers, NEW k \in Keys, Build(f, k)
      PROVE  TypeOK'
  <2>1. PICK n \in Nonces \ drawn[k] :
          /\ built' = [built EXCEPT ![f] = [key |-> k, issuedAt |-> clock, nonce |-> n]]
          /\ drawn' = [drawn EXCEPT ![k] = @ \union {n}]
    BY <1>5 DEF Build, NextNonce
  <2>2. [key |-> k, issuedAt |-> clock, nonce |-> n] \in Token
    BY <2>1 DEF TypeOK, Token
  <2>3. built' \in [Fetchers -> Token \union {NoToken}] /\ drawn' \in [Keys -> SUBSET Nonces]
    BY <2>1, <2>2 DEF TypeOK
  <2>4. \A h \in Fetchers : built'[h] # NoToken => built'[h].issuedAt <= clock
    BY <2>1 DEF TypeOK, Time
  <2> QED
    BY <1>5, <2>3, <2>4 DEF TypeOK, Build, history
<1>6. ASSUME NEW f \in Fetchers, MarkAccepted(f)
      PROVE  TypeOK'
  <2> DEFINE t == built[f]
             e == [token |-> t, lastSentAt |-> clock, claimed |-> FALSE]
  <2>1. t \in Token
    BY <1>6 DEF TypeOK, MarkAccepted
  <2>2. e \in Entry /\ e.token.key = t.key /\ e.lastSentAt <= clock
    BY <2>1 DEF TypeOK, Entry, Time
  <2>3. t.key \in Keys
    BY <2>1 DEF Token
  <2>4. entries' = [entries EXCEPT ![t.key] = e]
    BY <1>6 DEF MarkAccepted
  <2> HIDE DEF e, t
  <2>5. /\ entries' \in [Keys -> Entry \union {NoEntry}]
        /\ \A k \in Keys : entries'[k] # NoEntry =>
             entries'[k].token.key = k /\ entries'[k].lastSentAt <= clock
    BY <2>2, <2>3, <2>4 DEF TypeOK
  <2>6. guards' \in Seq(Guard)
    BY <1>6, PruneGuardsType, DeleteGuardType DEF TypeOK, MarkAccepted, Time
  <2>7. sentAt' \in [Keys -> Nat] /\ doneAt' \in [Keys -> Nat] /\ overtaken' \in [Keys -> SUBSET Keys]
    BY <1>6 DEF TypeOK, MarkAccepted, Time
  <2>8. built' \in [Fetchers -> Token \union {NoToken}]
        /\ \A h \in Fetchers : built'[h] # NoToken => built'[h].issuedAt <= clock
    BY <1>6 DEF TypeOK, MarkAccepted
  <2> QED
    BY <1>6, <2>5, <2>6, <2>7, <2>8 DEF TypeOK, MarkAccepted
<1>7. ASSUME NEW f \in Fetchers, MarkSuppressed(f)
      PROVE  TypeOK'
  <2>1. guards' \in Seq(Guard)
    BY <1>7, PruneGuardsType DEF TypeOK, MarkSuppressed, Time
  <2> QED
    BY <1>7, <2>1 DEF TypeOK, MarkSuppressed, history
<1>8. ASSUME NEW f \in Fetchers, Abandon(f)
      PROVE  TypeOK'
  BY <1>8 DEF TypeOK, Abandon, history
<1>9. ASSUME NEW f \in Fetchers, NEW k \in Keys, RemoveInflight(f, k)
      PROVE  TypeOK'
  BY <1>9 DEF TypeOK, RemoveInflight, history
<1>10. ASSUME NEW a \in Ackers, NEW t \in [key : Keys, issuedAt : 1..clock, nonce : Nonces],
              ClaimAckToken(a, t)
       PROVE  TypeOK'
  <2>1. t \in Token /\ t.key \in Keys
    BY DEF Token, Time, TypeOK
  <2>2. entries[t.key] \in Entry
    BY <1>10, <2>1 DEF TypeOK, ClaimAckToken, TokenIdentityMatches
  <2>3. [entries[t.key] EXCEPT !.claimed = TRUE] \in Entry
    BY <2>2 DEF Entry
  <2>4. entries' \in [Keys -> Entry \union {NoEntry}]
    BY <1>10, <2>1, <2>3 DEF TypeOK, ClaimAckToken
  <2>5. \A k \in Keys : entries'[k] # NoEntry =>
          entries'[k].token.key = k /\ entries'[k].lastSentAt <= clock
    BY <1>10, <2>1, <2>2 DEF TypeOK, ClaimAckToken, Entry
  <2> QED
    BY <1>10, <2>1, <2>4, <2>5 DEF TypeOK, ClaimAckToken, history
<1>11. ASSUME NEW a \in Ackers, CompleteAckToken(a)
       PROVE  TypeOK'
  <2>1. ack[a].key \in Keys
    BY <1>11 DEF TypeOK, CompleteAckToken, Token
  <2>2. guards' \in Seq(Guard)
    BY <1>11, <2>1, RecordCompletionType DEF TypeOK, CompleteAckToken
  <2>3. sentAt' \in [Keys -> Nat] /\ doneAt' \in [Keys -> Nat] /\ overtaken' \in [Keys -> SUBSET Keys]
    BY <1>11, <2>1 DEF TypeOK, CompleteAckToken, Time
  <2> QED
    BY <1>11, <2>1, <2>2, <2>3 DEF TypeOK, CompleteAckToken
<1>12. ASSUME NEW a \in Ackers, ReleaseAckToken(a)
       PROVE  TypeOK'
  <2>1. ack[a].key \in Keys
    BY <1>12 DEF TypeOK, ReleaseAckToken, Token
  <2>2. entries[ack[a].key] \in Entry
    BY <1>12, <2>1 DEF TypeOK, ReleaseAckToken, TokenIdentityMatches
  <2>3. [entries[ack[a].key] EXCEPT !.claimed = FALSE] \in Entry
    BY <2>2 DEF Entry
  <2>4. entries' \in [Keys -> Entry \union {NoEntry}]
    BY <1>12, <2>1, <2>3 DEF TypeOK, ReleaseAckToken
  <2>5. \A k \in Keys : entries'[k] # NoEntry =>
          entries'[k].token.key = k /\ entries'[k].lastSentAt <= clock
    BY <1>12, <2>1, <2>2 DEF TypeOK, ReleaseAckToken, Entry
  <2> QED
    BY <1>12, <2>4, <2>5 DEF TypeOK, ReleaseAckToken, history
<1> QED
  BY <1>1, <1>2, <1>3, <1>4, <1>5, <1>6, <1>7, <1>8, <1>9, <1>10, <1>11, <1>12 DEF Next

\* Every reachable state has the shape the code gives it, and nothing in it is dated
\* in the future (the timestamps of lib/runtime-registry.js).
THEOREM TypeCorrect == Spec => []TypeOK
  BY InitTypeOK, NextTypeOK, PTL DEF Spec

-----------------------------------------------------------------------------
(* Ownership of claims.  ClaimOwnership is inductive relative to TypeOK.   *)

LEMMA InitOwnership == Init => ClaimOwnership
  BY DEF Init, ClaimOwnership, Holds

LEMMA NextOwnership == TypeOK /\ ClaimOwnership /\ [Next]_vars => ClaimOwnership'
<1> SUFFICES ASSUME TypeOK, ClaimOwnership, [Next]_vars
             PROVE  ClaimOwnership'
  OBVIOUS
<1> USE SentinelAssumption
<1>1. CASE UNCHANGED <<entries, ack>>
  BY <1>1 DEF ClaimOwnership, Holds
\* Input nodes replace or drop entries, but none that is claimed.
<1>2. ASSUME UNCHANGED ack,
             \A k \in Keys :
               \/ entries'[k] = entries[k]
               \/ /\ entries[k] = NoEntry \/ ~entries[k].claimed
                  /\ entries'[k] = NoEntry \/ ~entries'[k].claimed
      PROVE  ClaimOwnership'
  <2>1. \A a \in Ackers : ack[a] # NoToken => ack[a].key \in Keys
    BY DEF TypeOK, Token
  <2> QED
    BY <1>2, <2>1 DEF ClaimOwnership, Holds
<1>3. ASSUME NEW f \in Fetchers, PruneExpired(f)
      PROVE  ClaimOwnership'
  BY <1>2, <1>3 DEF PruneExpired, PruneExpiredInflight
<1>4. ASSUME NEW f \in Fetchers, MarkAccepted(f)
      PROVE  ClaimOwnership'
  <2>1. built[f].key \in Keys
    BY <1>4 DEF TypeOK, MarkAccepted, Token
  <2>2. entries[built[f].key] = NoEntry \/ ~entries[built[f].key].claimed
    BY <1>4 DEF MarkAccepted, IsEntryActive
  <2>3. ~entries'[built[f].key].claimed
    BY <1>4, <2>1 DEF TypeOK, MarkAccepted
  <2> QED
    BY <1>2, <1>4, <2>1, <2>2, <2>3 DEF TypeOK, MarkAccepted
<1>5. ASSUME NEW f \in Fetchers, NEW k \in Keys, RemoveInflight(f, k)
      PROVE  ClaimOwnership'
  BY <1>2, <1>5 DEF TypeOK, RemoveInflight, IsEntryActive
<1>6. ASSUME NEW a \in Ackers, NEW t \in [key : Keys, issuedAt : 1..clock, nonce : Nonces],
             ClaimAckToken(a, t)
      PROVE  ClaimOwnership'
  <2>1. t \in Token /\ t.key \in Keys
    BY DEF Token, Time, TypeOK
  <2>2. entries[t.key] \in Entry /\ entries[t.key].token = t /\ ~entries[t.key].claimed
    BY <1>6, <2>1 DEF TypeOK, ClaimAckToken, TokenIdentityMatches
  \* Nobody held the message before: a holder would have its entry claimed.
  <2>3. \A b \in Ackers : ~Holds(b, t.key)
    BY <2>2 DEF ClaimOwnership, Holds
  <2>4. entries'[t.key] \in Entry /\ entries'[t.key].token = t /\ entries'[t.key].claimed
    BY <1>6, <2>1, <2>2 DEF TypeOK, ClaimAckToken, Entry
  <2>5. \A k \in Keys : k # t.key => entries'[k] = entries[k]
    BY <1>6 DEF TypeOK, ClaimAckToken
  <2>6. ack'[a] = t /\ ack[a] = NoToken /\ \A b \in Ackers : b # a => ack'[b] = ack[b]
    BY <1>6 DEF TypeOK, ClaimAckToken
  <2>7. \A b \in Ackers : ack[b] # NoToken => ack[b].key \in Keys
    BY DEF TypeOK, Token
  <2>8. \A k \in Keys : entries'[k] # NoEntry /\ entries'[k].claimed =>
          \E b \in Ackers : ack'[b] = entries'[k].token
    <3> SUFFICES ASSUME NEW k \in Keys, entries'[k] # NoEntry, entries'[k].claimed
                 PROVE  \E b \in Ackers : ack'[b] = entries'[k].token
      OBVIOUS
    <3>1. CASE k = t.key
      BY <2>4, <2>6, <3>1
    <3>2. CASE k # t.key
      <4>1. PICK b \in Ackers : ack[b] = entries[k].token
        BY <2>5, <3>2 DEF ClaimOwnership
      <4>2. b # a
        BY <2>5, <2>6, <3>2, <4>1 DEF TypeOK, Entry
      <4> QED
        BY <2>5, <2>6, <3>2, <4>1, <4>2
    <3> QED
      BY <3>1, <3>2
  <2>9. \A b \in Ackers : ack'[b] # NoToken =>
          LET e == entries'[ack'[b].key]
          IN  e # NoEntry /\ e.claimed /\ e.token = ack'[b]
    BY <2>1, <2>3, <2>4, <2>5, <2>6, <2>7 DEF ClaimOwnership, Holds
  <2>10. \A b, c \in Ackers, k \in Keys : Holds(b, k)' /\ Holds(c, k)' => b = c
    BY <2>3, <2>6 DEF ClaimOwnership, Holds
  <2> QED
    BY <2>8, <2>9, <2>10 DEF ClaimOwnership
\* The owner's entry is unclaimed or gone afterwards, and nobody else held it.
<1>7. ASSUME NEW a \in Ackers, ack[a] # NoToken,
             ack' = [ack EXCEPT ![a] = NoToken],
             entries'[ack[a].key] = NoEntry \/ ~entries'[ack[a].key].claimed,
             \A k \in Keys : k # ack[a].key => entries'[k] = entries[k]
      PROVE  ClaimOwnership'
  <2>1. \A b \in Ackers : ack[b] # NoToken => ack[b].key \in Keys
    BY DEF TypeOK, Token
  <2>2. \A b \in Ackers : b # a /\ ack[b] # NoToken => ack[b].key # ack[a].key
    BY <1>7, <2>1 DEF ClaimOwnership, Holds
  <2>3. ack'[a] = NoToken /\ \A b \in Ackers : b # a => ack'[b] = ack[b]
    BY <1>7 DEF TypeOK
  <2>4. \A k \in Keys : entries'[k] # NoEntry /\ entries'[k].claimed =>
          \E b \in Ackers : ack'[b] = entries'[k].token
    <3> SUFFICES ASSUME NEW k \in Keys, entries'[k] # NoEntry, entries'[k].claimed
                 PROVE  \E b \in Ackers : ack'[b] = entries'[k].token
      OBVIOUS
    <3>1. k # ack[a].key /\ entries'[k] = entries[k]
      BY <1>7
    <3>2. PICK b \in Ackers : ack[b] = entries[k].token
      BY <3>1 DEF ClaimOwnership
    <3>3. b # a
      BY <3>1, <3>2 DEF TypeOK
    <3> QED
      BY <2>3, <3>1, <3>2, <3>3
  <2>5. \A b \in Ackers : ack'[b] # NoToken =>
          LET e == entries'[ack'[b].key]
          IN  e # NoEntry /\ e.claimed /\ e.token = ack'[b]
    BY <1>7, <2>1, <2>2, <2>3 DEF ClaimOwnership
  <2>6. \A b, c \in Ackers, k \in Keys : Holds(b, k)' /\ Holds(c, k)' => b = c
    BY <2>3 DEF ClaimOwnership, Holds
  <2> QED
    BY <2>4, <2>5, <2>6 DEF ClaimOwnership
<1>8. ASSUME NEW a \in Ackers, CompleteAckToken(a)
      PROVE  ClaimOwnership'
  <2>1. ack[a].key \in Keys
    BY <1>8 DEF TypeOK, CompleteAckToken, Token
  <2> QED
    BY <1>7, <1>8, <2>1 DEF TypeOK, CompleteAckToken
<1>9. ASSUME NEW a \in Ackers, ReleaseAckToken(a)
      PROVE  ClaimOwnership'
  <2>1. ack[a].key \in Keys
    BY <1>9 DEF TypeOK, ReleaseAckToken, Token
  <2>2. entries[ack[a].key] \in Entry
    BY <1>9, <2>1 DEF TypeOK, ReleaseAckToken, TokenIdentityMatches
  <2>3. ~entries'[ack[a].key].claimed
    BY <1>9, <2>1, <2>2 DEF TypeOK, ReleaseAckToken, Entry
  <2> QED
    BY <1>7, <1>9, <2>1, <2>3 DEF TypeOK, ReleaseAckToken
<1> QED
  BY <1>1, <1>3, <1>4, <1>5, <1>6, <1>8, <1>9
     DEF Next, vars, Tick, Select, Build, MarkSuppressed, Abandon

\* Every claim has exactly one owner, and every owner its claim: no interleaving of
\* fetch cycles, prunings, claims, completions and releases leaks a claim, steals one,
\* or lets two ACK items work on one message (claimAckToken, completeAckToken,
\* releaseAckToken, markInflight, removeInflight, pruneExpiredInflight).
THEOREM OwnershipCorrect == Spec => []ClaimOwnership
<1>1. Init => TypeOK /\ ClaimOwnership
  BY InitTypeOK, InitOwnership
<1>2. TypeOK /\ ClaimOwnership /\ [Next]_vars => (TypeOK /\ ClaimOwnership)'
  BY NextTypeOK, NextOwnership
<1> QED
  BY <1>1, <1>2, PTL DEF Spec

-----------------------------------------------------------------------------
(* The registry implements DeliveryLedger.                                 *)

Offered == {k \in Keys : entries[k] # NoEntry /\ ~entries[k].claimed}
Holders == [k \in Keys |-> {a \in Ackers : Holds(a, k)}]

LEMMA InitLedger == Init => Ledger!Init
  BY DEF Init, Ledger!Init, Holds

LEMMA NextLedger ==
  TypeOK /\ ClaimOwnership /\ [Next]_vars => [Ledger!Next]_<<Offered, Holders>>
<1> SUFFICES ASSUME TypeOK, ClaimOwnership, [Next]_vars
             PROVE  [Ledger!Next]_<<Offered, Holders>>
  OBVIOUS
<1> USE SentinelAssumption
<1>1. CASE UNCHANGED <<entries, ack>>
  BY <1>1 DEF Offered, Holders, Holds
<1>2. ASSUME NEW f \in Fetchers, PruneExpired(f)
      PROVE  Ledger!Next
  <2>0. PICK ks \in SUBSET Keys : ks = {k \in Keys : entries'[k] = NoEntry}
    OBVIOUS
  <2>1. Offered' = Offered \ ks
    BY <1>2, <2>0 DEF Offered, PruneExpired, PruneExpiredInflight
  <2>2. Holders' = Holders
    BY <1>2 DEF Holders, Holds, PruneExpired
  <2>3. Ledger!Forget(ks)
    BY <2>1, <2>2 DEF Ledger!Forget, Offered, Holders
  <2> QED
    BY <2>3 DEF Ledger!Next
<1>3. ASSUME NEW f \in Fetchers, MarkAccepted(f)
      PROVE  Ledger!Next
  <2>1. PICK k \in Keys : k = built[f].key
    BY <1>3 DEF TypeOK, MarkAccepted, Token
  <2>2. Holders[k] = {}
    BY <1>3, <2>1 DEF ClaimOwnership, Holders, Holds, MarkAccepted, IsEntryActive
  <2>3. Offered' = Offered \union {k}
    <3> DEFINE e == [token |-> built[f], lastSentAt |-> clock, claimed |-> FALSE]
    <3>1. e \in Entry /\ ~e.claimed
      BY <1>3 DEF TypeOK, MarkAccepted, Entry
    <3>2. entries' = [entries EXCEPT ![k] = e]
      BY <1>3, <2>1 DEF MarkAccepted
    <3> HIDE DEF e
    <3>3. entries'[k] # NoEntry /\ ~entries'[k].claimed
          /\ \A j \in Keys : j # k => entries'[j] = entries[j]
      BY <3>1, <3>2 DEF TypeOK
    <3> QED
      BY <3>3 DEF Offered
  <2>4. Holders' = Holders
    BY <1>3 DEF Holders, Holds, MarkAccepted
  <2>5. Ledger!Offer(k)
    BY <2>2, <2>3, <2>4 DEF Ledger!Offer, Offered, Holders
  <2> QED
    BY <2>1, <2>5 DEF Ledger!Next
<1>4. ASSUME NEW f \in Fetchers, NEW k \in Keys, RemoveInflight(f, k)
      PROVE  Ledger!Next
  <2>1. Offered' = Offered \ {k}
    BY <1>4 DEF TypeOK, Offered, RemoveInflight
  <2>2. Holders' = Holders
    BY <1>4 DEF Holders, Holds, RemoveInflight
  <2>3. Ledger!Forget({k})
    BY <2>1, <2>2 DEF Ledger!Forget, Offered, Holders
  <2> QED
    BY <2>3 DEF Ledger!Next
<1>5. ASSUME NEW a \in Ackers, NEW t \in [key : Keys, issuedAt : 1..clock, nonce : Nonces],
             ClaimAckToken(a, t)
      PROVE  Ledger!Next
  <2> DEFINE k == t.key
  <2>1. t \in Token /\ k \in Keys
    BY DEF Token, Time, TypeOK
  <2>2. entries[k] \in Entry /\ ~entries[k].claimed
    BY <1>5, <2>1 DEF TypeOK, ClaimAckToken, TokenIdentityMatches
  <2>3. k \in Offered /\ Holders[k] = {}
    BY <2>1, <2>2 DEF ClaimOwnership, Offered, Holders, Holds
  <2>4. Offered' = Offered \ {k}
    BY <1>5, <2>1, <2>2 DEF TypeOK, Offered, ClaimAckToken, Entry
  <2>5. Holders' = [Holders EXCEPT ![k] = {a}]
    <3>1. ack'[a] = t /\ ack[a] = NoToken /\ \A b \in Ackers : b # a => ack'[b] = ack[b]
      BY <1>5 DEF TypeOK, ClaimAckToken
    <3>2. \A b \in Ackers : ~Holds(b, k)
      BY <2>2 DEF ClaimOwnership, Holds
    <3>3. \A j \in Keys : {b \in Ackers : Holds(b, j)'} =
            IF j = k THEN {a} ELSE {b \in Ackers : Holds(b, j)}
      BY <2>1, <3>1, <3>2 DEF Holds
    <3> QED
      BY <2>1, <3>3 DEF Holders
  <2>6. Ledger!Claim(k, a)
    BY <2>3, <2>4, <2>5 DEF Ledger!Claim, Offered, Holders
  <2> QED
    BY <2>1, <2>6 DEF Ledger!Next
\* A holder that lets go leaves no holder behind.
<1>6. ASSUME NEW a \in Ackers, ack[a] # NoToken, ack' = [ack EXCEPT ![a] = NoToken]
      PROVE  /\ ack[a].key \in Keys
             /\ Holders[ack[a].key] = {a}
             /\ Holders' = [Holders EXCEPT ![ack[a].key] = {}]
  <2> DEFINE k == ack[a].key
  <2>1. k \in Keys
    BY <1>6 DEF TypeOK, Token
  <2>2. \A b \in Ackers : Holds(b, k) <=> b = a
    BY <1>6, <2>1 DEF ClaimOwnership, Holds
  <2>3. ack'[a] = NoToken /\ \A b \in Ackers : b # a => ack'[b] = ack[b]
    BY <1>6 DEF TypeOK
  <2>4. \A j \in Keys : {b \in Ackers : Holds(b, j)'} =
          IF j = k THEN {} ELSE {b \in Ackers : Holds(b, j)}
    BY <1>6, <2>2, <2>3 DEF Holds
  <2> QED
    BY <2>1, <2>2, <2>4 DEF Holders
<1>7. ASSUME NEW a \in Ackers, CompleteAckToken(a)
      PROVE  Ledger!Next
  <2> DEFINE k == ack[a].key
  <2>1. /\ k \in Keys
        /\ Holders[k] = {a}
        /\ Holders' = [Holders EXCEPT ![k] = {}]
    BY <1>6, <1>7 DEF CompleteAckToken
  <2>2. Offered' = Offered
    BY <1>7, <2>1 DEF TypeOK, Offered, CompleteAckToken
  <2>3. Ledger!Acknowledge(k, a)
    BY <2>1, <2>2 DEF Ledger!Acknowledge, Offered, Holders
  <2> QED
    BY <2>1, <2>3 DEF Ledger!Next
<1>8. ASSUME NEW a \in Ackers, ReleaseAckToken(a)
      PROVE  Ledger!Next
  <2> DEFINE k == ack[a].key
  <2>1. /\ k \in Keys
        /\ Holders[k] = {a}
        /\ Holders' = [Holders EXCEPT ![k] = {}]
    BY <1>6, <1>8 DEF ReleaseAckToken
  <2>2. entries[k] \in Entry
    BY <1>8, <2>1 DEF TypeOK, ReleaseAckToken, TokenIdentityMatches
  <2>3. entries'[k] # NoEntry /\ ~entries'[k].claimed
        /\ \A j \in Keys : j # k => entries'[j] = entries[j]
    <3>1. entries'[k] = [entries[k] EXCEPT !.claimed = FALSE]
          /\ \A j \in Keys : j # k => entries'[j] = entries[j]
      BY <1>8, <2>1 DEF TypeOK, ReleaseAckToken
    <3>2. [entries[k] EXCEPT !.claimed = FALSE] \in Entry
      BY <2>2 DEF Entry
    <3> QED
      BY <2>2, <3>1, <3>2 DEF Entry
  <2>4. Offered' = Offered \union {k}
    BY <2>1, <2>3 DEF Offered
  <2>5. Ledger!Release(k, a)
    BY <2>1, <2>4 DEF Ledger!Release, Offered, Holders
  <2> QED
    BY <2>1, <2>5 DEF Ledger!Next
<1> QED
  BY <1>1, <1>2, <1>3, <1>4, <1>5, <1>7, <1>8
     DEF Next, vars, Tick, Select, Build, MarkSuppressed, Abandon

\* The registry, with its tokens, clock, retry intervals and guards, implements the
\* ledger: one holder per message at a time, no offer and no forgetting while it holds.
THEOREM LedgerImplemented == Spec => LedgerSpec
<1>1. Init => TypeOK /\ ClaimOwnership
  BY InitTypeOK, InitOwnership
<1>2. TypeOK /\ ClaimOwnership /\ [Next]_vars => (TypeOK /\ ClaimOwnership)'
  BY NextTypeOK, NextOwnership
<1> QED
  BY <1>1, <1>2, InitLedger, NextLedger, PTL
     DEF Spec, LedgerSpec, Ledger!Spec, Offered, Holders

-----------------------------------------------------------------------------
(* The completion guards: what their operations keep of the list.          *)

\* Pruning drops a prefix of the list and leaves at most MaxGuards guards.
LEMMA PruneDropsPrefix ==
  ASSUME NEW g \in Seq(Guard), NEW now \in Nat
  PROVE  \E d \in 0..Len(g) :
           /\ Len(PruneCompletionGuards(g, now)) = Len(g) - d
           /\ Len(g) - d <= MaxGuards
           /\ \A i \in 1..(Len(g) - d) : PruneCompletionGuards(g, now)[i] = g[i + d]
           /\ \A i \in 1..Len(g) :
                now < g[i].at + GuardTTL /\ Len(g) - i < MaxGuards => d < i
<1> DEFINE S == {i \in 1..Len(g) : \A j \in 1..i : g[j].at + GuardTTL <= now}
           e == ExpiredPrefix(g, now)
           x == Len(g) - MaxGuards
           d == IF e > x THEN e ELSE x
<1>1. Len(g) \in Nat /\ \A i \in 1..Len(g) : g[i] \in Guard
  BY ElementOfSeq, LenProperties
<1>2. MaxGuards \in Nat /\ GuardTTL \in Nat
  BY BoundAssumption
<1>3. e \in Nat
  BY ExpiredPrefixType
<1>4. e = Cardinality(S)
  BY DEF ExpiredPrefix
<1>5. \A n \in Nat : (\A i \in S : i <= n) => e <= n
  <2> SUFFICES ASSUME NEW n \in Nat, \A i \in S : i <= n
               PROVE  e <= n
    OBVIOUS
  <2>1. S \in SUBSET (1..n)
    BY <1>1
  <2>2. IsFiniteSet(1..n) /\ Cardinality(1..n) = n
    BY FS_Interval
  <2> QED
    BY <1>4, <2>1, <2>2, FS_Subset
<1>6. e <= Len(g)
  BY <1>1, <1>5
<1>7. \A i \in 1..Len(g) : now < g[i].at + GuardTTL => e < i
  <2> SUFFICES ASSUME NEW i \in 1..Len(g), now < g[i].at + GuardTTL
               PROVE  e < i
    OBVIOUS
  <2>1. \A n \in S : n <= i - 1
    <3> SUFFICES ASSUME NEW n \in 1..Len(g), \A j \in 1..n : g[j].at + GuardTTL <= now, n >= i
                 PROVE  FALSE
      BY <1>1
    <3>1. i \in 1..n
      BY <1>1
    <3>2. g[i].at \in Nat
      BY <1>1 DEF Guard, Time
    <3> QED
      BY <1>2, <3>1, <3>2
  <2>2. i - 1 \in Nat
    BY <1>1
  <2> HIDE DEF S, e
  <2>3. e <= i - 1
    BY <1>5, <2>1, <2>2
  <2> QED
    BY <1>1, <1>3, <2>3
<1> HIDE DEF S, e
<1>8. d \in 0..Len(g) /\ Len(g) - d <= MaxGuards
  BY <1>1, <1>2, <1>3, <1>6
<1>9. \A i \in 1..Len(g) : now < g[i].at + GuardTTL /\ Len(g) - i < MaxGuards => d < i
  BY <1>1, <1>2, <1>7
<1>10. PruneCompletionGuards(g, now) = SubSeq(g, d + 1, Len(g))
  BY DEF PruneCompletionGuards, e
<1> HIDE DEF d
<1>11. \A i \in (d + 1)..Len(g) : g[i] \in Guard
  BY <1>1, <1>8
<1>12. /\ Len(SubSeq(g, d + 1, Len(g))) = Len(g) - d
       /\ \A i \in 1..(Len(g) - d) : SubSeq(g, d + 1, Len(g))[i] = g[i + d]
  <2>1. d + 1 \in Int /\ Len(g) \in Int
    BY <1>1, <1>8
  <2>2. Len(SubSeq(g, d + 1, Len(g))) = IF d + 1 <= Len(g) THEN Len(g) - (d + 1) + 1 ELSE 0
    BY <1>11, <2>1, SubSeqProperties
  <2>3. \A i \in 1..(Len(g) - (d + 1) + 1) : SubSeq(g, d + 1, Len(g))[i] = g[d + 1 + i - 1]
    BY <1>11, <2>1, SubSeqProperties
  <2> QED
    BY <1>1, <1>8, <2>2, <2>3
<1> QED
  BY <1>8, <1>9, <1>10, <1>12

\* The list is in order of time with one guard per message, and a guard carries the time of the
\* last completion of its message; whatever has a guard behind it was completed later.
Before(x, y, ov) == x.at <= y.at /\ x.key # y.key /\ y.key \in ov[x.key]

Chained(g, done, ov) ==
  /\ \A i, j \in 1..Len(g) : i < j => Before(g[i], g[j], ov)
  /\ \A i \in 1..Len(g) : g[i].at = done[g[i].key]

Has(g, x) == \E i \in 1..Len(g) : g[i] = x

\* A guard the code promises to keep at this time.
Young(x, ov, now) == now < x.at + GuardTTL /\ Cardinality(ov[x.key]) < MaxGuards

\* Pruning keeps the order.
LEMMA PruneChained ==
  ASSUME NEW g \in Seq(Guard), NEW now \in Nat, NEW done, NEW ov, Chained(g, done, ov)
  PROVE  /\ Chained(PruneCompletionGuards(g, now), done, ov)
         /\ Len(PruneCompletionGuards(g, now)) <= MaxGuards
         /\ \A x : Has(PruneCompletionGuards(g, now), x) => Has(g, x)
<1> DEFINE p == PruneCompletionGuards(g, now)
<1>1. Len(g) \in Nat
  BY LenProperties
<1>2. PICK d \in 0..Len(g) : /\ Len(p) = Len(g) - d
                             /\ Len(g) - d <= MaxGuards
                             /\ \A i \in 1..(Len(g) - d) : p[i] = g[i + d]
  BY PruneDropsPrefix
<1> HIDE DEF p
<1>3. \A i \in 1..Len(p) : i + d \in 1..Len(g) /\ p[i] = g[i + d]
  BY <1>1, <1>2
<1>4. \A i, j \in 1..Len(p) : i < j => i + d < j + d
  BY <1>1, <1>2
<1>5. Chained(p, done, ov)
  BY <1>3, <1>4 DEF Chained
<1>6. \A x : Has(p, x) => Has(g, x)
  BY <1>3 DEF Has
<1>7. Len(p) <= MaxGuards
  BY <1>2
<1> QED
  BY <1>5, <1>6, <1>7 DEF p

\* The messages behind a guard were all completed after its own.
LEMMA BehindAreOvertaking ==
  ASSUME NEW g \in Seq(Guard), NEW done, NEW ov \in [Keys -> SUBSET Keys], Chained(g, done, ov),
         NEW i \in 1..Len(g)
  PROVE  Cardinality(ov[g[i].key]) \in Nat /\ Len(g) - i <= Cardinality(ov[g[i].key])
<1> DEFINE S == (i + 1)..Len(g)
           T == ov[g[i].key]
           f == [j \in S |-> g[j].key]
<1>1. Len(g) \in Nat /\ \A j \in 1..Len(g) : g[j] \in Guard
  BY ElementOfSeq, LenProperties
<1>2. T \in SUBSET Keys
  BY <1>1 DEF Guard
<1>3. IsFiniteSet(T)
  BY <1>2, FiniteAssumption, FS_Subset
<1>4. IsFiniteSet(S) /\ Cardinality(S) = Len(g) - i
  BY <1>1, FS_Interval
<1>5. \A j \in S : j \in 1..Len(g) /\ i < j
  BY <1>1
<1>6. f \in [S -> T]
  BY <1>5 DEF Chained, Before
<1>7. \A j, l \in S : j # l => f[j] # f[l]
  <2> SUFFICES ASSUME NEW j \in S, NEW l \in S, j # l
               PROVE  g[j].key # g[l].key
    OBVIOUS
  <2>1. j < l \/ l < j
    BY <1>1, <1>5
  <2> QED
    BY <1>5, <2>1 DEF Chained, Before
<1>8. Cardinality(S) \in Nat /\ Cardinality(T) \in Nat
  BY <1>3, <1>4, FS_CardinalityType
<1> HIDE DEF S, T, f
<1>9. ~(Cardinality(T) < Cardinality(S))
  BY <1>3, <1>4, <1>6, <1>7, FS_PigeonHole
<1>10. Cardinality(S) <= Cardinality(T)
  BY <1>8, <1>9
<1> QED
  BY <1>4, <1>8, <1>10 DEF T

\* Pruning keeps a guard within its TTL unless MaxGuards other messages were completed after it.
LEMMA PruneRemembers ==
  ASSUME NEW g \in Seq(Guard), NEW now \in Nat, NEW done, NEW ov \in [Keys -> SUBSET Keys],
         Chained(g, done, ov), NEW x, Has(g, x), Young(x, ov, now)
  PROVE  Has(PruneCompletionGuards(g, now), x)
<1> DEFINE p == PruneCompletionGuards(g, now)
<1>1. Len(g) \in Nat
  BY LenProperties
<1>2. PICK i \in 1..Len(g) : g[i] = x
  BY DEF Has
<1>3. Cardinality(ov[x.key]) \in Nat /\ Len(g) - i <= Cardinality(ov[x.key])
  BY <1>2, BehindAreOvertaking
<1>4. Len(g) - i < MaxGuards
  BY <1>1, <1>3, BoundAssumption DEF Young
<1>5. PICK d \in 0..Len(g) : /\ Len(p) = Len(g) - d
                             /\ \A j \in 1..(Len(g) - d) : p[j] = g[j + d]
                             /\ \A j \in 1..Len(g) :
                                  now < g[j].at + GuardTTL /\ Len(g) - j < MaxGuards => d < j
  BY PruneDropsPrefix
<1> HIDE DEF p
<1>6. d < i
  BY <1>2, <1>4, <1>5 DEF Young
<1>7. i - d \in 1..Len(p) /\ (i - d) + d = i
  BY <1>1, <1>5, <1>6
<1>8. p[i - d] = x
  BY <1>2, <1>5, <1>7
<1> QED
  BY <1>7, <1>8 DEF Has, p

\* Deleting the guard of k leaves the others in order, and none of k.
LEMMA DeleteChained ==
  ASSUME NEW g \in Seq(Guard), NEW k, NEW done, NEW ov, Chained(g, done, ov)
  PROVE  /\ Chained(DeleteGuard(g, k), done, ov)
         /\ Len(DeleteGuard(g, k)) <= Len(g)
         /\ ~IsGuarded(DeleteGuard(g, k), k)
         /\ \A x : Has(DeleteGuard(g, k), x) => Has(g, x)
         /\ \A x : Has(g, x) /\ x.key # k => Has(DeleteGuard(g, k), x)
<1>1. Len(g) \in Nat /\ \A i \in 1..Len(g) : g[i] \in Guard
  BY ElementOfSeq, LenProperties
<1>2. CASE ~IsGuarded(g, k)
  <2>1. DeleteGuard(g, k) = g
    BY <1>2 DEF DeleteGuard
  <2> QED
    BY <1>1, <1>2, <2>1
<1>3. CASE IsGuarded(g, k)
  <2> DEFINE p == GuardPosition(g, k)
             h == DeleteGuard(g, k)
             left == SubSeq(g, 1, p - 1)
             right == SubSeq(g, p + 1, Len(g))
  <2>1. p \in 1..Len(g) /\ g[p].key = k
    BY <1>3 DEF IsGuarded, GuardPosition
  <2>2. h = left \o right
    BY <1>3 DEF DeleteGuard
  <2> HIDE DEF p, h
  <2>3. /\ left \in Seq(Guard)
        /\ Len(left) = p - 1
        /\ \A i \in 1..(p - 1) : left[i] = g[i]
    BY <1>1, <2>1, SubSeqProperties
  <2>4. /\ right \in Seq(Guard)
        /\ Len(right) = Len(g) - p
        /\ \A i \in 1..(Len(g) - p) : right[i] = g[p + i]
    BY <1>1, <2>1, SubSeqProperties
  <2> HIDE DEF left, right
  <2>5. /\ Len(h) = Len(g) - 1
        /\ \A i \in 1..(Len(g) - 1) : h[i] = IF i < p THEN g[i] ELSE g[i + 1]
    <3>1. Len(h) = Len(left) + Len(right)
      BY <2>2, <2>3, <2>4, ConcatProperties
    <3>2. \A i \in 1..(Len(left) + Len(right)) :
            h[i] = IF i <= Len(left) THEN left[i] ELSE right[i - Len(left)]
      BY <2>2, <2>3, <2>4, ConcatProperties
    <3>3. Len(h) = Len(g) - 1
      BY <1>1, <2>1, <2>3, <2>4, <3>1
    <3>4. ASSUME NEW i \in 1..(Len(g) - 1)
          PROVE  h[i] = IF i < p THEN g[i] ELSE g[i + 1]
      <4>1. i \in 1..(Len(left) + Len(right))
        BY <1>1, <2>1, <2>3, <2>4
      <4>2. CASE i < p
        BY <2>1, <2>3, <3>2, <4>1, <4>2
      <4>3. CASE ~(i < p)
        <5>1. i - Len(left) \in 1..(Len(g) - p) /\ p + (i - Len(left)) = i + 1 /\ ~(i <= Len(left))
          BY <1>1, <2>1, <2>3, <4>3
        <5>2. h[i] = right[i - Len(left)]
          BY <3>2, <4>1, <5>1
        <5>3. right[i - Len(left)] = g[p + (i - Len(left))]
          BY <2>4, <5>1
        <5> QED
          BY <4>3, <5>1, <5>2, <5>3
      <4> QED
        BY <4>2, <4>3
    <3> QED
      BY <3>3, <3>4
  <2> DEFINE at(i) == IF i < p THEN i ELSE i + 1
  <2>6. \A i \in 1..Len(h) : at(i) \in 1..Len(g) /\ at(i) # p /\ h[i] = g[at(i)]
    BY <1>1, <2>1, <2>5
  <2>7. \A i, j \in 1..Len(h) : i < j => at(i) < at(j)
    BY <1>1, <2>1, <2>5
  <2>8. Chained(h, done, ov)
    <3> HIDE DEF at
    <3> QED
      BY <2>6, <2>7 DEF Chained
  <2>9. \A i \in 1..Len(g) : i # p => g[i].key # k
    <3> SUFFICES ASSUME NEW i \in 1..Len(g), i # p
                 PROVE  g[i].key # k
      OBVIOUS
    <3>1. i < p \/ p < i
      BY <2>1
    <3> QED
      BY <2>1, <3>1 DEF Chained, Before
  <2>10. ~IsGuarded(h, k)
    <3> HIDE DEF at
    <3> QED
      BY <2>6, <2>9 DEF IsGuarded
  <2>11. \A i \in 1..Len(g) : g[i].key # k => \E j \in 1..Len(h) : h[j] = g[i]
    <3> SUFFICES ASSUME NEW i \in 1..Len(g), g[i].key # k
                 PROVE  \E j \in 1..Len(h) : h[j] = g[i]
      OBVIOUS
    <3>1. i # p
      BY <2>1
    <3>2. CASE i < p
      BY <1>1, <2>1, <2>5, <3>2
    <3>3. CASE i > p
      <4>1. i - 1 \in 1..Len(h) /\ ~(i - 1 < p) /\ (i - 1) + 1 = i
        BY <1>1, <2>1, <2>5, <3>3
      <4> QED
        BY <2>5, <4>1
    <3> QED
      BY <2>1, <3>1, <3>2, <3>3
  <2>12. \A i \in 1..Len(h) : \E j \in 1..Len(g) : h[i] = g[j]
    BY <2>6
  <2>13. Len(h) <= Len(g)
    BY <1>1, <2>5
  <2>14. \A x : Has(h, x) => Has(g, x)
    BY <2>12 DEF Has
  <2>15. \A x : Has(g, x) /\ x.key # k => Has(h, x)
    BY <2>11 DEF Has
  <2> QED
    BY <2>8, <2>10, <2>13, <2>14, <2>15 DEF h
<1> QED
  BY <1>2, <1>3

\* A completion moves the guard of its message to the young end, and keeps the order when the
\* message is added to what overtook the others.
LEMMA RecordChained ==
  ASSUME NEW g \in Seq(Guard), NEW k \in Keys, NEW now \in Time,
         NEW done, NEW newDone,
         NEW ov \in [Keys -> SUBSET Keys], NEW newOv \in [Keys -> SUBSET Keys],
         Chained(g, done, ov), newDone[k] = now,
         \A x : Has(g, x) => x.at <= now,
         \A x : Has(g, x) /\ x.key # k =>
           newDone[x.key] = done[x.key] /\ newOv[x.key] = ov[x.key] \union {k}
  PROVE  /\ Chained(RecordCompletion(g, k, now), newDone, newOv)
         /\ Len(RecordCompletion(g, k, now)) <= MaxGuards
         /\ \A x : Has(g, x) /\ x.key # k /\ Young(x, ov, now) /\ Young(x, newOv, now)
              => Has(RecordCompletion(g, k, now), x)
         /\ Young([key |-> k, at |-> now], newOv, now)
              => Has(RecordCompletion(g, k, now), [key |-> k, at |-> now])
<1> DEFINE g1 == PruneCompletionGuards(g, now)
           g2 == DeleteGuard(g1, k)
           n == [key |-> k, at |-> now]
           g3 == Append(g2, n)
           r == PruneCompletionGuards(g3, now)
<1>1. now \in Nat /\ n \in Guard /\ n.key = k /\ n.at = now
  BY DEF Time, Guard
<1>2. g1 \in Seq(Guard) /\ g2 \in Seq(Guard)
  BY <1>1, PruneGuardsType, DeleteGuardType
<1>3. /\ Chained(g1, done, ov)
      /\ \A x : Has(g1, x) => Has(g, x)
  BY <1>1, PruneChained
<1>4. \A x : Has(g, x) /\ Young(x, ov, now) => Has(g1, x)
  BY <1>1, PruneRemembers
<1> HIDE DEF g1
<1>5. /\ Chained(g2, done, ov)
      /\ ~IsGuarded(g2, k)
      /\ \A x : Has(g2, x) => Has(g1, x)
      /\ \A x : Has(g1, x) /\ x.key # k => Has(g2, x)
  <2>1. g1 \in Seq(Guard)
    BY <1>2
  <2>2. Chained(g1, done, ov)
    BY <1>3
  <2> QED
    BY <2>1, <2>2, DeleteChained
<1> HIDE DEF g2, n
<1>6. \A i \in 1..Len(g2) : /\ g2[i].key # k /\ g2[i].at <= now
                            /\ newDone[g2[i].key] = done[g2[i].key]
                            /\ newOv[g2[i].key] = ov[g2[i].key] \union {k}
  <2> SUFFICES ASSUME NEW i \in 1..Len(g2)
               PROVE  /\ g2[i].key # k /\ g2[i].at <= now
                      /\ newDone[g2[i].key] = done[g2[i].key]
                      /\ newOv[g2[i].key] = ov[g2[i].key] \union {k}
    OBVIOUS
  <2>1. g2[i].key # k
    BY <1>5 DEF IsGuarded
  <2>2. Has(g, g2[i])
    BY <1>3, <1>5 DEF Has
  <2> QED
    BY <2>1, <2>2
<1>7. /\ g3 \in Seq(Guard)
      /\ Len(g3) = Len(g2) + 1
      /\ \A i \in 1..Len(g2) : g3[i] = g2[i]
      /\ g3[Len(g3)] = n
      /\ Len(g2) \in Nat
  BY <1>1, <1>2, AppendProperties, LenProperties
<1> HIDE DEF g3
<1>8. Chained(g3, newDone, newOv)
  <2>1. \A i, j \in 1..Len(g3) : i < j => Before(g3[i], g3[j], newOv)
    <3> SUFFICES ASSUME NEW i \in 1..Len(g3), NEW j \in 1..Len(g3), i < j
                 PROVE  Before(g3[i], g3[j], newOv)
      OBVIOUS
    <3>1. i \in 1..Len(g2) /\ g3[i] = g2[i]
      BY <1>7
    <3>2. CASE j \in 1..Len(g2)
      <4>1. Before(g2[i], g2[j], ov)
        BY <1>5, <3>1, <3>2 DEF Chained
      <4>2. g3[j] = g2[j] /\ newOv[g2[i].key] = ov[g2[i].key] \union {k}
        BY <1>6, <1>7, <3>1, <3>2
      <4> QED
        BY <3>1, <4>1, <4>2 DEF Before
    <3>3. CASE j = Len(g3)
      <4>1. g3[j] = n
        BY <1>7, <3>3
      <4>2. g2[i].key # k /\ g2[i].at <= now /\ k \in newOv[g2[i].key]
        BY <1>6, <3>1
      <4> QED
        BY <1>1, <3>1, <4>1, <4>2 DEF Before
    <3>4. j \in 1..Len(g2) \/ j = Len(g3)
      BY <1>7
    <3> QED
      BY <3>2, <3>3, <3>4
  <2>2. \A i \in 1..Len(g3) : g3[i].at = newDone[g3[i].key]
    <3> SUFFICES ASSUME NEW i \in 1..Len(g3)
                 PROVE  g3[i].at = newDone[g3[i].key]
      OBVIOUS
    <3>1. CASE i \in 1..Len(g2)
      BY <1>5, <1>6, <1>7, <3>1 DEF Chained
    <3>2. CASE i = Len(g3)
      BY <1>1, <1>7, <3>2
    <3> QED
      BY <1>7, <3>1, <3>2
  <2> QED
    BY <2>1, <2>2 DEF Chained
<1>9. Chained(r, newDone, newOv) /\ Len(r) <= MaxGuards
  BY <1>1, <1>7, <1>8, PruneChained
<1>10. \A x : Has(g3, x) /\ Young(x, newOv, now) => Has(r, x)
  BY <1>1, <1>7, <1>8, PruneRemembers
<1> HIDE DEF r
<1>11. \A x : Has(g2, x) => Has(g3, x)
  BY <1>7 DEF Has
<1>12. Has(g3, n)
  BY <1>7 DEF Has
<1>13. \A x : Has(g, x) /\ x.key # k /\ Young(x, ov, now) /\ Young(x, newOv, now) => Has(r, x)
  BY <1>4, <1>5, <1>10, <1>11
<1>14. Young(n, newOv, now) => Has(r, n)
  BY <1>10, <1>12
<1> QED
  BY <1>9, <1>13, <1>14 DEF RecordCompletion, r, g3, g2, g1, n

-----------------------------------------------------------------------------
(* The completion guards and the history of completions.                   *)

\* The inductive invariant: the guards are chained, a completed message is not in flight, and its
\* completion is remembered.
GuardInv ==
  /\ Len(guards) <= MaxGuards
  /\ Chained(guards, doneAt, overtaken)
  /\ \A k \in Keys : doneAt[k] <= clock /\ (doneAt[k] # 0 => entries[k] = NoEntry)
  /\ GuardsRemember

LEMMA InitGuardInv == Init => GuardInv
<1> SUFFICES ASSUME Init
             PROVE  GuardInv
  OBVIOUS
<1>1. Len(guards) = 0
  BY EmptySeq DEF Init
<1>2. Chained(guards, doneAt, overtaken)
  BY <1>1 DEF Chained
<1> QED
  BY <1>1, <1>2, BoundAssumption DEF Init, GuardInv, GuardsRemember

\* The shape of a guard, in the terms of the history.
LEMMA GuardFacts ==
  ASSUME TypeOK, GuardInv, NEW i \in 1..Len(guards)
  PROVE  /\ guards[i] \in Guard
         /\ guards[i].key \in Keys
         /\ guards[i].at = doneAt[guards[i].key]
         /\ guards[i].at <= clock
         /\ entries[guards[i].key] = NoEntry
<1>1. guards[i] \in Guard
  BY ElementOfSeq DEF TypeOK
<1>2. guards[i].key \in Keys /\ guards[i].at \in Nat \ {0}
  BY <1>1 DEF Guard, Time
<1>3. guards[i].at = doneAt[guards[i].key]
  BY DEF GuardInv, Chained
<1> QED
  BY <1>1, <1>2, <1>3 DEF GuardInv

\* The completion of k, as a guard of the list remembers it.
Completion(k) == [key |-> k, at |-> doneAt[k]]

LEMMA RememberedGuards ==
  ASSUME GuardInv, NEW k \in Keys, doneAt[k] # 0, Young(Completion(k), overtaken, clock)
  PROVE  Has(guards, Completion(k))
BY DEF GuardInv, GuardsRemember, Has, Young, Completion

LEMMA RememberIfYoung ==
  ASSUME \A k \in Keys : doneAt[k] # 0 /\ Young(Completion(k), overtaken, clock) => Has(guards, Completion(k))
  PROVE  GuardsRemember
BY DEF GuardsRemember, Has, Young, Completion

\* Only the guards are pruned.
LEMMA PruneGuardInv ==
  ASSUME TypeOK, GuardInv,
         guards' = PruneCompletionGuards(guards, clock),
         UNCHANGED <<clock, history>>,
         \A k \in Keys : entries[k] = NoEntry => entries'[k] = NoEntry
  PROVE  GuardInv'
<1>1. clock \in Nat /\ guards \in Seq(Guard) /\ overtaken \in [Keys -> SUBSET Keys]
  BY DEF TypeOK, Time
<1>2. Chained(guards, doneAt, overtaken)
  BY DEF GuardInv
<1>3. Len(guards') <= MaxGuards /\ Chained(guards', doneAt', overtaken')
  BY <1>1, <1>2, PruneChained DEF history
<1>4. \A k \in Keys : doneAt'[k] <= clock' /\ (doneAt'[k] # 0 => entries'[k] = NoEntry)
  BY DEF GuardInv, history
<1>5. GuardsRemember'
  <2> SUFFICES ASSUME NEW k \in Keys, doneAt[k] # 0, Young(Completion(k), overtaken, clock)
               PROVE  Has(guards', Completion(k))
    BY RememberIfYoung DEF history, Completion, GuardsRemember, Has, Young
  <2>1. Has(guards, Completion(k))
    BY RememberedGuards
  <2> QED
    BY <1>1, <1>2, <2>1, PruneRemembers
<1> QED
  BY <1>3, <1>4, <1>5 DEF GuardInv

\* The message leaves the history and its guard goes.
LEMMA EmitGuardInv ==
  ASSUME TypeOK, GuardInv, NEW k \in Keys,
         guards' = DeleteGuard(PruneCompletionGuards(guards, clock), k),
         clock' = clock,
         doneAt' = [doneAt EXCEPT ![k] = 0],
         overtaken' = [overtaken EXCEPT ![k] = {}],
         \A j \in Keys \ {k} : entries'[j] = entries[j]
  PROVE  GuardInv'
<1> DEFINE live == PruneCompletionGuards(guards, clock)
<1>1. clock \in Nat /\ guards \in Seq(Guard) /\ overtaken \in [Keys -> SUBSET Keys]
      /\ doneAt \in [Keys -> Nat]
  BY DEF TypeOK, Time
<1>2. Chained(guards, doneAt, overtaken)
  BY DEF GuardInv
<1>3. live \in Seq(Guard)
  BY <1>1, PruneGuardsType
<1>4. Chained(live, doneAt, overtaken) /\ Len(live) <= MaxGuards
  BY <1>1, <1>2, PruneChained
<1> HIDE DEF live
<1>5. /\ Chained(guards', doneAt, overtaken)
      /\ Len(guards') <= Len(live)
      /\ ~IsGuarded(guards', k)
      /\ \A x : Has(live, x) /\ x.key # k => Has(guards', x)
  BY <1>3, <1>4, DeleteChained DEF live
<1>6. guards' \in Seq(Guard)
  BY <1>3, DeleteGuardType DEF live
<1>7. \A i \in 1..Len(guards') : guards'[i].key \in Keys \ {k}
  <2> SUFFICES ASSUME NEW i \in 1..Len(guards')
               PROVE  guards'[i].key \in Keys \ {k}
    OBVIOUS
  <2>1. guards'[i] \in Guard
    BY <1>6, ElementOfSeq
  <2> QED
    BY <1>5, <2>1 DEF IsGuarded, Guard
<1>8. Chained(guards', doneAt', overtaken')
  <2>1. \A i \in 1..Len(guards') : /\ doneAt'[guards'[i].key] = doneAt[guards'[i].key]
                                   /\ overtaken'[guards'[i].key] = overtaken[guards'[i].key]
    BY <1>1, <1>7
  <2> QED
    BY <1>5, <2>1 DEF Chained, Before
<1>9. Len(guards') <= MaxGuards
  BY <1>3, <1>4, <1>5, <1>6, LenProperties, BoundAssumption
<1>10. \A j \in Keys : doneAt'[j] <= clock' /\ (doneAt'[j] # 0 => entries'[j] = NoEntry)
  BY <1>1 DEF GuardInv
<1>11. GuardsRemember'
  <2> SUFFICES ASSUME NEW j \in Keys, doneAt'[j] # 0, Young(Completion(j)', overtaken', clock')
               PROVE  Has(guards', Completion(j)')
    BY DEF GuardsRemember, Has, Young, Completion
  <2>1. j # k /\ doneAt'[j] = doneAt[j] /\ overtaken'[j] = overtaken[j]
    BY <1>1
  <2>2. Completion(j)' = Completion(j) /\ Completion(j).key = j
    BY <2>1 DEF Completion
  <2>3. Young(Completion(j), overtaken, clock)
    BY <2>1, <2>2 DEF Young
  <2>4. Has(guards, Completion(j))
    BY <2>1, <2>3, RememberedGuards
  <2>5. Has(live, Completion(j))
    BY <1>1, <1>2, <2>3, <2>4, PruneRemembers DEF live
  <2> QED
    BY <1>5, <2>1, <2>2, <2>5
<1> QED
  BY <1>8, <1>9, <1>10, <1>11 DEF GuardInv

\* The completion of k is recorded; it overtakes every message completed before.
LEMMA CompleteGuardInv ==
  ASSUME TypeOK, GuardInv, NEW k \in Keys,
         guards' = RecordCompletion(guards, k, clock),
         clock' = clock,
         entries' = [entries EXCEPT ![k] = NoEntry],
         doneAt' = [doneAt EXCEPT ![k] = clock],
         overtaken' = [j \in Keys |->
           IF j = k THEN {} ELSE IF doneAt[j] = 0 THEN {} ELSE overtaken[j] \union {k}]
  PROVE  GuardInv'

<1>1. clock \in Time /\ guards \in Seq(Guard) /\ doneAt \in [Keys -> Nat]
      /\ overtaken \in [Keys -> SUBSET Keys] /\ overtaken' \in [Keys -> SUBSET Keys]
  BY DEF TypeOK
<1>2. Chained(guards, doneAt, overtaken)
  BY DEF GuardInv
<1>3. \A i \in 1..Len(guards) : guards[i].at <= clock
  BY GuardFacts
<1>4. \A x : Has(guards, x) /\ x.key # k =>
        doneAt'[x.key] = doneAt[x.key] /\ overtaken'[x.key] = overtaken[x.key] \union {k}
  <2> SUFFICES ASSUME NEW i \in 1..Len(guards), guards[i].key # k
               PROVE  /\ doneAt'[guards[i].key] = doneAt[guards[i].key]
                      /\ overtaken'[guards[i].key] = overtaken[guards[i].key] \union {k}
    BY DEF Has
  <2>1. guards[i].key \in Keys /\ doneAt[guards[i].key] # 0
    BY GuardFacts DEF Guard, Time
  <2> QED
    BY <1>1, <2>1
<1>5. doneAt'[k] = clock /\ overtaken'[k] = {} /\ Completion(k)' = [key |-> k, at |-> clock]
  BY <1>1 DEF Completion
<1>6. /\ Chained(guards', doneAt', overtaken')
      /\ Len(guards') <= MaxGuards
      /\ \A x : Has(guards, x) /\ x.key # k /\ Young(x, overtaken, clock) /\ Young(x, overtaken', clock)
           => Has(guards', x)
      /\ Young([key |-> k, at |-> clock], overtaken', clock) => Has(guards', [key |-> k, at |-> clock])
  <2>1. \A x : Has(guards, x) => x.at <= clock
    BY <1>3 DEF Has
  <2>2. doneAt'[k] = clock
    BY <1>5
  <2> QED
    BY <1>1, <1>2, <1>4, <2>1, <2>2, RecordChained
<1>7. \A j \in Keys : doneAt'[j] <= clock' /\ (doneAt'[j] # 0 => entries'[j] = NoEntry)
  BY <1>1 DEF GuardInv, TypeOK, Time
<1>8. GuardsRemember'
  <2> SUFFICES ASSUME NEW j \in Keys, doneAt'[j] # 0, Young(Completion(j)', overtaken', clock')
               PROVE  Has(guards', Completion(j)')
    BY DEF GuardsRemember, Has, Young, Completion
  <2>1. CASE j = k
    BY <1>5, <1>6, <2>1
  <2>2. CASE j # k
    <3>1. doneAt'[j] = doneAt[j] /\ overtaken'[j] = overtaken[j] \union {k}
      BY <1>1, <2>2
    <3>2. Completion(j)' = Completion(j) /\ Completion(j).key = j
      BY <3>1 DEF Completion
    <3>3. Cardinality(overtaken[j]) <= Cardinality(overtaken'[j])
          /\ Cardinality(overtaken[j]) \in Nat /\ Cardinality(overtaken'[j]) \in Nat
      <4>1. IsFiniteSet(overtaken'[j])
        BY <1>1, FiniteAssumption, FS_Subset
      <4>2. IsFiniteSet(overtaken[j]) /\ Cardinality(overtaken[j]) <= Cardinality(overtaken'[j])
        BY <3>1, <4>1, FS_Subset
      <4> QED
        BY <4>1, <4>2, FS_CardinalityType
    <3>4. Young(Completion(j), overtaken, clock)
      BY <3>2, <3>3, BoundAssumption DEF Young
    <3>5. Has(guards, Completion(j))
      BY <3>1, <3>4, RememberedGuards
    <3> QED
      BY <1>6, <2>2, <3>2, <3>4, <3>5
  <2> QED
    BY <2>1, <2>2
<1> QED
  BY <1>6, <1>7, <1>8 DEF GuardInv

LEMMA NextGuardInv == TypeOK /\ GuardInv /\ [Next]_vars => GuardInv'
<1> SUFFICES ASSUME TypeOK, GuardInv, [Next]_vars
             PROVE  GuardInv'
  OBVIOUS
<1> USE SentinelAssumption
\* Neither the guards nor the history change, and time may pass.
<1>1. ASSUME UNCHANGED <<guards, history>>, clock' \in {clock, clock + 1},
             \A k \in Keys : entries[k] = NoEntry => entries'[k] = NoEntry
      PROVE  GuardInv'
  <2>1. clock \in Nat /\ clock' \in Nat /\ doneAt \in [Keys -> Nat] /\ clock <= clock'
    BY <1>1 DEF TypeOK, Time
  <2>2. GuardsRemember'
    <3> SUFFICES ASSUME NEW k \in Keys, doneAt[k] # 0, clock' < doneAt[k] + GuardTTL,
                        Cardinality(overtaken[k]) < MaxGuards
                 PROVE  \E i \in 1..Len(guards) : guards[i] = [key |-> k, at |-> doneAt[k]]
      BY <1>1 DEF GuardsRemember, history
    <3>1. clock < doneAt[k] + GuardTTL
      BY <2>1, BoundAssumption
    <3> QED
      BY <3>1 DEF GuardInv, GuardsRemember
  <2>3. \A k \in Keys : doneAt'[k] <= clock' /\ (doneAt'[k] # 0 => entries'[k] = NoEntry)
    BY <1>1, <2>1 DEF GuardInv, history
  <2>4. Len(guards') <= MaxGuards /\ Chained(guards', doneAt', overtaken')
    BY <1>1 DEF GuardInv, history
  <2> QED
    BY <2>2, <2>3, <2>4 DEF GuardInv
<1>2. CASE UNCHANGED vars
  BY <1>1, <1>2 DEF vars, history
<1>3. CASE Tick
  BY <1>1, <1>3 DEF Tick, history
<1>4. ASSUME NEW f \in Fetchers, PruneExpired(f)
      PROVE  GuardInv'
  <2>1. \A k \in Keys : entries[k] = NoEntry => entries'[k] = NoEntry
    BY <1>4 DEF PruneExpired, PruneExpiredInflight
  <2> QED
    BY <1>4, <2>1, PruneGuardInv DEF PruneExpired
<1>5. ASSUME NEW f \in Fetchers, NEW k \in Keys, Select(f, k)
      PROVE  GuardInv'
  BY <1>1, <1>5 DEF Select
<1>6. ASSUME NEW f \in Fetchers, NEW k \in Keys, Build(f, k)
      PROVE  GuardInv'
  BY <1>1, <1>6 DEF Build
<1>7. ASSUME NEW f \in Fetchers, MarkAccepted(f)
      PROVE  GuardInv'
  <2>1. PICK k \in Keys : k = built[f].key
    BY <1>7 DEF TypeOK, MarkAccepted, Token
  <2>2. \A j \in Keys \ {k} : entries'[j] = entries[j]
    BY <1>7, <2>1 DEF TypeOK, MarkAccepted
  <2> QED
    BY <1>7, <2>1, <2>2, EmitGuardInv DEF MarkAccepted
<1>8. ASSUME NEW f \in Fetchers, MarkSuppressed(f)
      PROVE  GuardInv'
  BY <1>8, PruneGuardInv DEF MarkSuppressed
<1>9. ASSUME NEW f \in Fetchers, Abandon(f)
      PROVE  GuardInv'
  BY <1>1, <1>9 DEF Abandon
<1>10. ASSUME NEW f \in Fetchers, NEW k \in Keys, RemoveInflight(f, k)
       PROVE  GuardInv'
  <2>1. \A j \in Keys : entries[j] = NoEntry => entries'[j] = NoEntry
    BY <1>10 DEF TypeOK, RemoveInflight
  <2> QED
    BY <1>1, <1>10, <2>1 DEF RemoveInflight
<1>11. ASSUME NEW a \in Ackers, NEW t \in [key : Keys, issuedAt : 1..clock, nonce : Nonces],
              ClaimAckToken(a, t)
       PROVE  GuardInv'
  <2>1. \A j \in Keys : entries[j] = NoEntry => entries'[j] = NoEntry
    BY <1>11 DEF TypeOK, ClaimAckToken, TokenIdentityMatches
  <2> QED
    BY <1>1, <1>11, <2>1 DEF ClaimAckToken
<1>12. ASSUME NEW a \in Ackers, CompleteAckToken(a)
       PROVE  GuardInv'
  <2>1. PICK k \in Keys : k = ack[a].key
    BY <1>12 DEF TypeOK, CompleteAckToken, Token
  <2>2. /\ guards' = RecordCompletion(guards, k, clock)
        /\ clock' = clock
        /\ entries' = [entries EXCEPT ![k] = NoEntry]
        /\ doneAt' = [doneAt EXCEPT ![k] = clock]
        /\ overtaken' = [j \in Keys |->
             IF j = k THEN {} ELSE IF doneAt[j] = 0 THEN {} ELSE overtaken[j] \union {k}]
    BY <1>12, <2>1 DEF CompleteAckToken
  <2> QED
    BY <2>2, CompleteGuardInv
<1>13. ASSUME NEW a \in Ackers, ReleaseAckToken(a)
       PROVE  GuardInv'
  <2>1. \A j \in Keys : entries[j] = NoEntry => entries'[j] = NoEntry
    BY <1>13 DEF TypeOK, ReleaseAckToken, TokenIdentityMatches
  <2> QED
    BY <1>1, <1>13, <2>1 DEF ReleaseAckToken
<1> QED
  BY <1>2, <1>3, <1>4, <1>5, <1>6, <1>7, <1>8, <1>9, <1>10, <1>11, <1>12, <1>13 DEF Next

LEMMA GuardInvCorrect == Spec => [](TypeOK /\ GuardInv)
<1>1. Init => TypeOK /\ GuardInv
  BY InitTypeOK, InitGuardInv
<1>2. TypeOK /\ GuardInv /\ [Next]_vars => (TypeOK /\ GuardInv)'
  BY NextTypeOK, NextGuardInv
<1> QED
  BY <1>1, <1>2, PTL DEF Spec

\* The list of completion guards stays in order of time, with one guard per message, within the
\* cap and without any message that is in flight, through every pruning, insertion and deletion
\* (pruneCompletionGuards, completeAckToken, markInflight).
THEOREM GuardsOrdered == Spec => []GuardsConsistent
<1>1. TypeOK /\ GuardInv => GuardsConsistent
  <2> SUFFICES ASSUME TypeOK, GuardInv
               PROVE  GuardsConsistent
    OBVIOUS
  <2>1. Len(guards) <= MaxGuards
    BY DEF GuardInv
  <2>2. \A i, j \in 1..Len(guards) : i < j =>
          guards[i].at <= guards[j].at /\ guards[i].key # guards[j].key
    BY DEF GuardInv, Chained, Before
  <2>3. \A i \in 1..Len(guards) : guards[i].at <= clock /\ entries[guards[i].key] = NoEntry
    BY GuardFacts
  <2> QED
    BY <2>1, <2>2, <2>3 DEF GuardsConsistent
<1> QED
  BY <1>1, GuardInvCorrect, PTL

\* A completion is remembered for the TTL unless MaxGuards other messages were completed after it:
\* no interleaving makes a pruning drop a younger guard than the cap allows.
THEOREM CompletionsRemembered == Spec => []GuardsRemember
<1>1. GuardInv => GuardsRemember
  BY DEF GuardInv
<1> QED
  BY <1>1, GuardInvCorrect, PTL

-----------------------------------------------------------------------------
(* When a message may be emitted.                                          *)

\* A new generation of a message is stored by MarkAccepted only.
LEMMA EmitsByMark ==
  ASSUME TypeOK, Next, NEW k \in Keys, Emits(k)
  PROVE  \E f \in Fetchers : MarkAccepted(f) /\ built[f].key = k /\ entries'[k].token = built[f]
<1> USE SentinelAssumption
<1>1. ASSUME NEW a \in Ackers, NEW t \in [key : Keys, issuedAt : 1..clock, nonce : Nonces],
             ClaimAckToken(a, t)
      PROVE  FALSE
  <2>1. entries[t.key] \in Entry
    BY <1>1 DEF TypeOK, ClaimAckToken, TokenIdentityMatches
  <2>2. \A j \in Keys : \/ entries'[j] = entries[j]
                        \/ entries[j] # NoEntry /\ entries'[j].token = entries[j].token
    BY <1>1, <2>1 DEF TypeOK, ClaimAckToken, Entry
  <2> QED
    BY <2>2 DEF Emits
<1>2. ASSUME NEW a \in Ackers, ReleaseAckToken(a)
      PROVE  FALSE
  <2>1. ack[a].key \in Keys
    BY <1>2 DEF TypeOK, ReleaseAckToken, Token
  <2>2. entries[ack[a].key] \in Entry
    BY <1>2, <2>1 DEF TypeOK, ReleaseAckToken, TokenIdentityMatches
  <2>3. \A j \in Keys : \/ entries'[j] = entries[j]
                        \/ entries[j] # NoEntry /\ entries'[j].token = entries[j].token
    BY <1>2, <2>2 DEF TypeOK, ReleaseAckToken, Entry
  <2> QED
    BY <2>3 DEF Emits
<1>3. ASSUME NEW a \in Ackers, CompleteAckToken(a)
      PROVE  FALSE
  BY <1>3 DEF TypeOK, CompleteAckToken, Emits
<1>4. ASSUME \A j \in Keys : entries'[j] = entries[j] \/ entries'[j] = NoEntry
      PROVE  FALSE
  BY <1>4 DEF Emits
<1>5. ASSUME NEW f \in Fetchers, MarkAccepted(f)
      PROVE  built[f].key = k /\ entries'[k].token = built[f]
  <2>1. \A j \in Keys : j # built[f].key => entries'[j] = entries[j]
    BY <1>5 DEF TypeOK, MarkAccepted
  <2>2. built[f].key = k
    BY <2>1 DEF Emits
  <2> QED
    BY <1>5, <2>2 DEF TypeOK, MarkAccepted
<1>6. ASSUME NEW f \in Fetchers, PruneExpired(f)
      PROVE  FALSE
  BY <1>4, <1>6 DEF PruneExpired, PruneExpiredInflight
<1>7. ASSUME NEW f \in Fetchers, NEW j \in Keys, RemoveInflight(f, j)
      PROVE  FALSE
  BY <1>4, <1>7 DEF TypeOK, RemoveInflight
<1> QED
  BY <1>1, <1>2, <1>3, <1>4, <1>5, <1>6, <1>7 DEF Next, Tick, Select, Build, MarkSuppressed, Abandon

FreshEmission ==
  \A k \in Keys :
    /\ Emits(k) /\ doneAt[k] # 0
    /\ clock < doneAt[k] + GuardTTL /\ Cardinality(overtaken[k]) < MaxGuards
    => entries'[k].token.issuedAt > doneAt[k]

LEMMA NextFreshEmission == TypeOK /\ GuardInv /\ [Next]_vars => [FreshEmission]_vars
<1> SUFFICES ASSUME TypeOK, GuardInv, Next, NEW k \in Keys, Emits(k), doneAt[k] # 0,
                    clock < doneAt[k] + GuardTTL, Cardinality(overtaken[k]) < MaxGuards
             PROVE  entries'[k].token.issuedAt > doneAt[k]
  BY DEF FreshEmission
<1> DEFINE live == PruneCompletionGuards(guards, clock)
<1>1. PICK f \in Fetchers : MarkAccepted(f) /\ built[f].key = k /\ entries'[k].token = built[f]
  BY EmitsByMark
<1>2. clock \in Nat /\ guards \in Seq(Guard) /\ overtaken \in [Keys -> SUBSET Keys]
  BY DEF TypeOK, Time
<1>3. Chained(guards, doneAt, overtaken)
  BY DEF GuardInv
<1>4. Young(Completion(k), overtaken, clock) /\ Completion(k).key = k
  BY DEF Young, Completion
<1>5. Has(live, Completion(k))
  BY <1>2, <1>3, <1>4, RememberedGuards, PruneRemembers
<1>6. Chained(live, doneAt, overtaken)
  BY <1>2, <1>3, PruneChained
<1>7. ~GuardRejects(live, built[f])
  BY <1>1 DEF MarkAccepted
<1> HIDE DEF live
<1>8. IsGuarded(live, k)
  BY <1>4, <1>5 DEF IsGuarded, Has
<1>9. GuardPosition(live, k) \in 1..Len(live) /\ live[GuardPosition(live, k)].key = k
  BY <1>8 DEF IsGuarded, GuardPosition
<1>10. live[GuardPosition(live, k)].at = doneAt[k]
  BY <1>6, <1>9 DEF Chained
<1>11. ~(built[f].issuedAt <= doneAt[k])
  BY <1>1, <1>7, <1>8, <1>10 DEF GuardRejects
<1>12. built[f].issuedAt \in Nat /\ doneAt[k] \in Nat
  BY <1>1 DEF TypeOK, MarkAccepted, Token, Time
<1> QED
  BY <1>1, <1>11, <1>12

\* A fetch that began before a message was acknowledged never emits it again within the window the
\* guards cover: markInflight refuses every token issued no later than the completion.
THEOREM StaleFetchesSuppressed == Spec => StaleFetchSuppressed
<1>1. TypeOK /\ GuardInv /\ [Next]_vars => [FreshEmission]_vars
  BY NextFreshEmission
<1>2. StaleFetchSuppressed <=> [][FreshEmission]_vars
  BY PTL DEF StaleFetchSuppressed, FreshEmission
<1> QED
  BY <1>1, <1>2, GuardInvCorrect, PTL DEF Spec

-----------------------------------------------------------------------------
(* The history of emissions.                                               *)

\* An entry dates from the last emission; a message emitted and not completed whose entry is gone
\* lost it when the retry interval of some input node was over.
SentInv ==
  \A k \in Keys :
    /\ entries[k] # NoEntry => sentAt[k] = entries[k].lastSentAt
    /\ entries[k] = NoEntry /\ sentAt[k] # 0 =>
         \E f \in Fetchers : clock - sentAt[k] >= RetryAfter[f]

LEMMA InitSentInv == Init => SentInv
  BY DEF Init, SentInv

LEMMA NextSentInv == TypeOK /\ SentInv /\ [Next]_vars => SentInv'
<1> SUFFICES ASSUME TypeOK, SentInv, [Next]_vars
             PROVE  SentInv'
  OBVIOUS
<1> USE SentinelAssumption
<1>1. clock \in Nat /\ sentAt \in [Keys -> Nat] /\ RetryAfter \in [Fetchers -> Nat]
  BY RetryAssumption DEF TypeOK, Time
<1>2. entries \in [Keys -> Entry \union {NoEntry}]
  BY DEF TypeOK
\* What every step but an emission and a completion does to a message.
<1>3. ASSUME UNCHANGED sentAt, clock' \in {clock, clock + 1},
             \A k \in Keys :
               \/ entries'[k] = entries[k]
               \/ /\ entries[k] # NoEntry /\ entries'[k] # NoEntry
                  /\ entries'[k].lastSentAt = entries[k].lastSentAt
               \/ /\ entries[k] # NoEntry /\ entries'[k] = NoEntry
                  /\ \E f \in Fetchers : clock - entries[k].lastSentAt >= RetryAfter[f]
      PROVE  SentInv'
  <2>1. ASSUME NEW k \in Keys, NEW f \in Fetchers, clock - sentAt[k] >= RetryAfter[f]
        PROVE  clock' - sentAt'[k] >= RetryAfter[f]
    <3>1. sentAt[k] \in Nat /\ RetryAfter[f] \in Nat
      BY <1>1
    <3> QED
      BY <1>1, <1>3, <2>1, <3>1
  <2> SUFFICES ASSUME NEW k \in Keys
               PROVE  /\ entries'[k] # NoEntry => sentAt'[k] = entries'[k].lastSentAt
                      /\ entries'[k] = NoEntry /\ sentAt'[k] # 0 =>
                           \E f \in Fetchers : clock' - sentAt'[k] >= RetryAfter[f]
    BY DEF SentInv
  <2>2. CASE entries'[k] # NoEntry
    BY <1>3, <2>2 DEF SentInv
  <2>3. ASSUME entries'[k] = NoEntry, sentAt'[k] # 0
        PROVE  \E f \in Fetchers : clock' - sentAt'[k] >= RetryAfter[f]
    <3>1. \E f \in Fetchers : clock - sentAt[k] >= RetryAfter[f]
      BY <1>3, <2>3 DEF SentInv
    <3> QED
      BY <2>1, <3>1
  <2> QED
    BY <2>2, <2>3
<1>4. CASE UNCHANGED vars
  BY <1>3, <1>4 DEF vars
<1>5. CASE Tick
  BY <1>3, <1>5 DEF Tick, history
<1>6. ASSUME NEW f \in Fetchers, PruneExpired(f)
      PROVE  SentInv'
  BY <1>3, <1>6 DEF PruneExpired, PruneExpiredInflight, history
<1>7. ASSUME NEW f \in Fetchers, NEW k \in Keys, Select(f, k) \/ Build(f, k)
      PROVE  SentInv'
  BY <1>3, <1>7 DEF Select, Build, history
<1>8. ASSUME NEW f \in Fetchers, MarkSuppressed(f) \/ Abandon(f)
      PROVE  SentInv'
  BY <1>3, <1>8 DEF MarkSuppressed, Abandon, history
<1>9. ASSUME NEW f \in Fetchers, MarkAccepted(f)
      PROVE  SentInv'
  <2>1. PICK k \in Keys : k = built[f].key
    BY <1>9 DEF TypeOK, MarkAccepted, Token
  <2> DEFINE e == [token |-> built[f], lastSentAt |-> clock, claimed |-> FALSE]
  <2>2. e \in Entry /\ e.lastSentAt = clock
    BY <1>9 DEF TypeOK, MarkAccepted, Entry
  <2>3. entries' = [entries EXCEPT ![k] = e] /\ sentAt' = [sentAt EXCEPT ![k] = clock]
        /\ clock' = clock
    BY <1>9, <2>1 DEF MarkAccepted
  <2> HIDE DEF e
  <2>4. entries'[k] # NoEntry /\ entries'[k].lastSentAt = clock /\ sentAt'[k] = clock
    BY <1>1, <2>2, <2>3 DEF TypeOK
  <2>5. \A j \in Keys \ {k} : entries'[j] = entries[j] /\ sentAt'[j] = sentAt[j]
    BY <1>1, <2>3 DEF TypeOK
  <2> QED
    BY <2>3, <2>4, <2>5 DEF SentInv
<1>10. ASSUME NEW f \in Fetchers, NEW k \in Keys, RemoveInflight(f, k)
       PROVE  SentInv'
  <2>1. \E h \in Fetchers : clock - entries[k].lastSentAt >= RetryAfter[h]
    <3>1. entries[k].lastSentAt \in Nat
      BY <1>2, <1>10 DEF RemoveInflight, Entry, Time
    <3>2. ~(clock - entries[k].lastSentAt < RetryAfter[f])
      BY <1>10 DEF RemoveInflight, IsEntryActive
    <3> QED
      BY <1>1, <3>1, <3>2
  <2>2. entries[k] # NoEntry /\ entries' = [entries EXCEPT ![k] = NoEntry]
    BY <1>10 DEF RemoveInflight
  <2>3. entries'[k] = NoEntry /\ \A j \in Keys : j # k => entries'[j] = entries[j]
    BY <1>2, <2>2
  <2> QED
    BY <1>3, <1>10, <2>1, <2>2, <2>3 DEF RemoveInflight, history
<1>11. ASSUME NEW a \in Ackers, NEW t \in [key : Keys, issuedAt : 1..clock, nonce : Nonces],
              ClaimAckToken(a, t)
       PROVE  SentInv'
  <2>1. entries[t.key] \in Entry
    BY <1>2, <1>11 DEF ClaimAckToken, TokenIdentityMatches
  <2> DEFINE e == [entries[t.key] EXCEPT !.claimed = TRUE]
  <2>2. e \in Entry /\ e.lastSentAt = entries[t.key].lastSentAt
    BY <2>1 DEF Entry
  <2>3. t.key \in Keys /\ entries' = [entries EXCEPT ![t.key] = e]
    BY <1>11 DEF ClaimAckToken
  <2> HIDE DEF e
  <2>4. entries'[t.key] = e /\ \A k \in Keys : k # t.key => entries'[k] = entries[k]
    BY <1>2, <2>3
  <2> QED
    BY <1>3, <1>11, <2>1, <2>2, <2>4 DEF ClaimAckToken, history
<1>12. ASSUME NEW a \in Ackers, CompleteAckToken(a)
       PROVE  SentInv'
  <2>1. PICK k \in Keys : k = ack[a].key
    BY <1>12 DEF TypeOK, CompleteAckToken, Token
  <2>2. entries' = [entries EXCEPT ![k] = NoEntry] /\ sentAt' = [sentAt EXCEPT ![k] = 0]
        /\ clock' = clock
    BY <1>12, <2>1 DEF CompleteAckToken
  <2>3. entries'[k] = NoEntry /\ sentAt'[k] = 0
    BY <1>1, <2>2 DEF TypeOK
  <2>4. \A j \in Keys \ {k} : entries'[j] = entries[j] /\ sentAt'[j] = sentAt[j]
    BY <1>1, <2>2 DEF TypeOK
  <2> QED
    BY <2>2, <2>3, <2>4 DEF SentInv
<1>13. ASSUME NEW a \in Ackers, ReleaseAckToken(a)
       PROVE  SentInv'
  <2>1. PICK k \in Keys : k = ack[a].key
    BY <1>13 DEF TypeOK, ReleaseAckToken, Token
  <2>2. entries[k] \in Entry
    BY <1>2, <1>13, <2>1 DEF ReleaseAckToken, TokenIdentityMatches
  <2> DEFINE e == [entries[k] EXCEPT !.claimed = FALSE]
  <2>3. e \in Entry /\ e.lastSentAt = entries[k].lastSentAt
    BY <2>2 DEF Entry
  <2>4. entries' = [entries EXCEPT ![k] = e]
    BY <1>13, <2>1 DEF ReleaseAckToken
  <2> HIDE DEF e
  <2>5. entries'[k] = e /\ \A j \in Keys : j # k => entries'[j] = entries[j]
    BY <1>2, <2>4
  <2> QED
    BY <1>3, <1>13, <2>2, <2>3, <2>5 DEF ReleaseAckToken, history
<1> QED
  BY <1>4, <1>5, <1>6, <1>7, <1>8, <1>9, <1>10, <1>11, <1>12, <1>13 DEF Next

LateEmission ==
  \A k \in Keys : Emits(k) /\ sentAt[k] # 0 =>
    \E f \in Fetchers : clock - sentAt[k] >= RetryAfter[f]

LEMMA NextLateEmission == TypeOK /\ SentInv /\ [Next]_vars => [LateEmission]_vars
<1> SUFFICES ASSUME TypeOK, SentInv, Next, NEW k \in Keys, Emits(k), sentAt[k] # 0
             PROVE  \E f \in Fetchers : clock - sentAt[k] >= RetryAfter[f]
  BY DEF LateEmission
<1>1. PICK f \in Fetchers : MarkAccepted(f) /\ built[f].key = k
  BY EmitsByMark
<1>2. CASE entries[k] = NoEntry
  BY <1>2 DEF SentInv
<1>3. CASE entries[k] # NoEntry
  <2>1. sentAt[k] = entries[k].lastSentAt
    BY <1>3 DEF SentInv
  <2>2. ~(clock - entries[k].lastSentAt < RetryAfter[f])
    BY <1>1, <1>3 DEF MarkAccepted, IsEntryActive
  <2>3. clock \in Nat /\ sentAt[k] \in Nat /\ RetryAfter[f] \in Nat
    BY RetryAssumption DEF TypeOK, Time
  <2> QED
    BY <2>1, <2>2, <2>3
<1> QED
  BY <1>2, <1>3

\* A message that was emitted and not acknowledged is not emitted again before the retry interval of
\* some input node is over, whatever removals, prunings, failed and released ACKs come in between.
\* It is the shortest interval of the queue that counts, not the one of the node that emits: the nodes
\* share the entries, and each prunes them by its own interval.
THEOREM RedeliveriesLate == Spec => NoEarlyRedelivery
<1>1. Init => TypeOK /\ SentInv
  BY InitTypeOK, InitSentInv
<1>2. TypeOK /\ SentInv /\ [Next]_vars => (TypeOK /\ SentInv)'
  BY NextTypeOK, NextSentInv
<1>3. TypeOK /\ SentInv /\ [Next]_vars => [LateEmission]_vars
  BY NextLateEmission
<1>4. NoEarlyRedelivery <=> [][LateEmission]_vars
  BY PTL DEF NoEarlyRedelivery, LateEmission
<1> QED
  BY <1>1, <1>2, <1>3, <1>4, PTL DEF Spec

\* An emission of a message sent before comes at least r after it.
SpacedEmission(r) == \A k \in Keys : Emits(k) /\ sentAt[k] # 0 => clock - sentAt[k] >= r

\* Where no node of the queue retries before r, no node redelivers an unacknowledged message before r:
\* nodes with one common interval keep it, and so does a node whose interval is the shortest.
THEOREM SharedIntervalKept ==
  Spec => [][\A r \in Nat : (\A f \in Fetchers : RetryAfter[f] >= r) => SpacedEmission(r)]_vars
<1> DEFINE Spaced == \A r \in Nat : (\A f \in Fetchers : RetryAfter[f] >= r) => SpacedEmission(r)
<1>1. Init => TypeOK /\ SentInv
  BY InitTypeOK, InitSentInv
<1>2. TypeOK /\ SentInv /\ [Next]_vars => (TypeOK /\ SentInv)'
  BY NextTypeOK, NextSentInv
<1>3. TypeOK /\ SentInv /\ [Next]_vars => [Spaced]_vars
  <2> SUFFICES ASSUME TypeOK, SentInv, Next,
                      NEW r \in Nat, \A f \in Fetchers : RetryAfter[f] >= r,
                      NEW k \in Keys, Emits(k), sentAt[k] # 0
               PROVE  clock - sentAt[k] >= r
    BY DEF SpacedEmission
  <2>1. PICK f \in Fetchers : clock - sentAt[k] >= RetryAfter[f]
    BY NextLateEmission DEF LateEmission, Emits, vars
  <2>2. RetryAfter[f] \in Nat /\ clock - sentAt[k] \in Int
    BY RetryAssumption DEF TypeOK, Time
  <2> QED
    BY <2>1, <2>2
<1> QED
  BY <1>1, <1>2, <1>3, PTL DEF Spec
=============================================================================
