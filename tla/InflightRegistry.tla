-------------------------- MODULE InflightRegistry --------------------------
(***************************************************************************)
(* lib/runtime-registry.js: the process-wide memory of which messages of   *)
(* one queue are in flight, and of which were acknowledged a short while   *)
(* ago.  Input nodes (Fetchers) mark messages, ACK items (Ackers) claim,   *)
(* complete or release them; all calls are synchronous, so each is one     *)
(* step, but what a caller learned before an await is stale when it calls. *)
(*                                                                         *)
(* Only one queue is modelled: no call touches two queue keys, and the     *)
(* maps of different queues share nothing.                                 *)
(***************************************************************************)
EXTENDS Integers, Sequences, FiniteSets

CONSTANTS
  Keys,          \* messages: (uidValidity, uid) pairs of one queue
  Fetchers,      \* input nodes that read this queue
  Ackers,        \* ACK items being flushed, of any ACK node
  Nonces,        \* nonces buildAckToken can draw for a message in one tick
  BatchSize,     \* batchSize of the input nodes: candidates of one cycle
  RetryAfter,    \* retryAfterMs of each input node
  GuardTTL,      \* COMPLETION_GUARD_TTL_MS
  MaxGuards,     \* MAX_COMPLETION_GUARDS_PER_QUEUE
  MaxDraws,      \* bound of the model: tokens built within one clock tick
  MaxClock,      \* bound of the model: the last instant of Date.now()
  NoEntry,       \* "the queue map has no entry for this key"
  NoToken        \* "this caller holds no token"

Time == Nat \ {0}
Token == [key : Keys, issuedAt : Time, nonce : Nonces]
Entry == [token : Token, lastSentAt : Time, claimed : BOOLEAN]
Guard == [key : Keys, at : Time]

ASSUME RetryAssumption == RetryAfter \in [Fetchers -> Nat \ {0}]
ASSUME BoundAssumption ==
  /\ BatchSize \in Nat \ {0} /\ GuardTTL \in Nat /\ MaxGuards \in Nat
  /\ MaxDraws \in Nat /\ MaxClock \in Time
ASSUME SentinelAssumption == NoEntry \notin Entry /\ NoToken \notin Token
ASSUME FiniteAssumption == IsFiniteSet(Keys) /\ Nonces \subseteq Nat

VARIABLES
  clock,         \* Date.now(), assumed not to run backwards
  entries,       \* queues.get(queueKey): key -> entry
  guards,        \* completionGuards.get(queueKey), in the Map's insertion order
  candidates,    \* per input node: keys its window read selected
  built,         \* per input node: token built after fetchOne, not yet marked
  ack,           \* per ACK item: token it has claimed
  drawn,         \* nonces drawn for a key in this tick (128 random bits never repeat)
  sentAt,        \* history: last emission not followed by a completion, 0 if none
  doneAt,        \* history: last completion not followed by an emission, 0 if none
  overtaken      \* history: keys completed since doneAt[k]

code == <<clock, entries, guards, candidates, built, ack, drawn>>
history == <<sentAt, doneAt, overtaken>>
vars == <<clock, entries, guards, candidates, built, ack, drawn, sentAt, doneAt, overtaken>>

-----------------------------------------------------------------------------
(* The operations of the registry, as functions of its two maps.           *)

\* Mutant of IsEntryActive: the retry interval is one tick short.
IsEntryActive_TooEarly(e, retry, now) ==
  e # NoEntry /\ (e.claimed \/ now - e.lastSentAt < retry - 1)

\* A claimed entry is active whatever its age: nobody may touch it.
IsEntryActive(e, retry, now) ==
  e # NoEntry /\ (e.claimed \/ now - e.lastSentAt < retry)

\* Mutant of PruneExpiredInflight: claims are not skipped.
PruneExpiredInflight_Claimed(es, retry, now) ==
  [k \in Keys |->
     IF es[k] # NoEntry /\ now - es[k].lastSentAt >= retry THEN NoEntry ELSE es[k]]

PruneExpiredInflight(es, retry, now) ==
  [k \in Keys |->
     IF es[k] # NoEntry /\ ~es[k].claimed /\ now - es[k].lastSentAt >= retry
       THEN NoEntry ELSE es[k]]

\* Leading guards older than the TTL; the loop breaks at the first younger one.
ExpiredPrefix(g, now) ==
  Cardinality({i \in 1..Len(g) : \A j \in 1..i : g[j].at + GuardTTL <= now})

\* Mutant of PruneCompletionGuards: at the cap the youngest guards are given up.
PruneCompletionGuards_Youngest(g, now) ==
  LET live == SubSeq(g, ExpiredPrefix(g, now) + 1, Len(g))
  IN  SubSeq(live, 1, IF Len(live) < MaxGuards THEN Len(live) ELSE MaxGuards)

PruneCompletionGuards(g, now) ==
  LET expired == ExpiredPrefix(g, now)
      excess  == Len(g) - MaxGuards
  IN  SubSeq(g, (IF expired > excess THEN expired ELSE excess) + 1, Len(g))

GuardPosition(g, k) == CHOOSE i \in 1..Len(g) : g[i].key = k
IsGuarded(g, k) == \E i \in 1..Len(g) : g[i].key = k

DeleteGuard(g, k) ==
  IF IsGuarded(g, k)
    THEN SubSeq(g, 1, GuardPosition(g, k) - 1) \o SubSeq(g, GuardPosition(g, k) + 1, Len(g))
    ELSE g

\* Mutant of RecordCompletion: the guard carries the time of the emission.
RecordCompletion_SentAt(g, k, now) ==
  PruneCompletionGuards(
    Append(DeleteGuard(PruneCompletionGuards(g, now), k),
           [key |-> k, at |-> entries[k].lastSentAt]), now)

\* completeAckToken inserts the guard at the young end, also when one existed.
RecordCompletion(g, k, now) ==
  PruneCompletionGuards(
    Append(DeleteGuard(PruneCompletionGuards(g, now), k), [key |-> k, at |-> now]), now)

\* Mutant of GuardRejects: a token issued in the very tick of the completion passes.
GuardRejects_Strict(g, token) ==
  IsGuarded(g, token.key) /\ token.issuedAt < g[GuardPosition(g, token.key)].at

\* A token that was issued before the message was completed may not mark it again.
GuardRejects(g, token) ==
  IsGuarded(g, token.key) /\ token.issuedAt <= g[GuardPosition(g, token.key)].at

\* Mutant of TokenIdentityMatches: the nonce is not compared.
TokenIdentityMatches_NoNonce(e, token) ==
  e # NoEntry /\ e.token.key = token.key /\ e.token.issuedAt = token.issuedAt

TokenIdentityMatches(e, token) == e # NoEntry /\ e.token = token

-----------------------------------------------------------------------------
Init ==
  /\ clock = 1
  /\ entries = [k \in Keys |-> NoEntry]
  /\ guards = <<>>
  /\ candidates = [f \in Fetchers |-> {}]
  /\ built = [f \in Fetchers |-> NoToken]
  /\ ack = [a \in Ackers |-> NoToken]
  /\ drawn = [k \in Keys |-> {}]
  /\ sentAt = [k \in Keys |-> 0]
  /\ doneAt = [k \in Keys |-> 0]
  /\ overtaken = [k \in Keys |-> {}]

Tick ==
  /\ clock < MaxClock
  /\ clock' = clock + 1
  /\ drawn' = [k \in Keys |-> {}]
  /\ UNCHANGED <<entries, guards, candidates, built, ack, history>>

\* Start and end of a fetch cycle, and a trigger that finds the node running: the
\* candidates of the running cycle were selected before.
PruneExpired(f) ==
  /\ entries' = PruneExpiredInflight(entries, RetryAfter[f], clock)
  /\ guards' = PruneCompletionGuards(guards, clock)
  /\ UNCHANGED <<clock, candidates, built, ack, drawn, history>>

\* The window read: checked here, but used only after further awaits.
Select(f, k) ==
  /\ built[f] = NoToken
  /\ k \notin candidates[f] /\ Cardinality(candidates[f]) < BatchSize
  /\ ~IsEntryActive(entries[k], RetryAfter[f], clock)
  /\ candidates' = [candidates EXCEPT ![f] = @ \union {k}]
  /\ UNCHANGED <<clock, entries, guards, built, ack, drawn, history>>

\* The tokens built in this tick, and the next nonce for k: nonces only have to differ, so
\* they are numbered as they are drawn.
Draws == {d \in Keys \X Nonces : d[2] \in drawn[d[1]]}
NextNonce(k) == {n \in Nonces \ drawn[k] : \A m \in Nonces \ drawn[k] : n <= m}

\* Mutant of Build: the time of issue is rounded up to the next tick.
Build_RoundedUp(f, k) ==
  /\ built[f] = NoToken
  /\ k \in candidates[f]
  /\ Cardinality(Draws) < MaxDraws
  /\ \E n \in NextNonce(k) :
       /\ built' = [built EXCEPT ![f] = [key |-> k, issuedAt |-> clock + 1, nonce |-> n]]
       /\ drawn' = [drawn EXCEPT ![k] = @ \union {n}]
  /\ candidates' = [candidates EXCEPT ![f] = @ \ {k}]
  /\ UNCHANGED <<clock, entries, guards, ack, history>>

\* fetchOne answered for the next candidate: buildAckToken stamps the time.
Build(f, k) ==
  /\ built[f] = NoToken
  /\ k \in candidates[f]
  /\ Cardinality(Draws) < MaxDraws
  /\ \E n \in NextNonce(k) :
       /\ built' = [built EXCEPT ![f] = [key |-> k, issuedAt |-> clock, nonce |-> n]]
       /\ drawn' = [drawn EXCEPT ![k] = @ \union {n}]
  /\ candidates' = [candidates EXCEPT ![f] = @ \ {k}]
  /\ UNCHANGED <<clock, entries, guards, ack, history>>

\* markInflight stores the entry and the node emits the message.
MarkAccepted(f) ==
  LET t    == built[f]
      live == PruneCompletionGuards(guards, clock)
  IN  /\ t # NoToken
      /\ ~IsEntryActive(entries[t.key], RetryAfter[f], clock)
      /\ ~GuardRejects(live, t)
      /\ entries' = [entries EXCEPT ![t.key] =
                       [token |-> t, lastSentAt |-> clock, claimed |-> FALSE]]
      /\ guards' = DeleteGuard(live, t.key)
      /\ built' = [built EXCEPT ![f] = NoToken]
      /\ sentAt' = [sentAt EXCEPT ![t.key] = clock]
      /\ doneAt' = [doneAt EXCEPT ![t.key] = 0]
      /\ overtaken' = [overtaken EXCEPT ![t.key] = {}]
      /\ UNCHANGED <<clock, candidates, ack, drawn>>

\* markInflight returned null: nothing is emitted, the guards were pruned.
MarkSuppressed(f) ==
  LET t    == built[f]
      live == PruneCompletionGuards(guards, clock)
  IN  /\ t # NoToken
      /\ \/ IsEntryActive(entries[t.key], RetryAfter[f], clock)
         \/ GuardRejects(live, t)
      /\ guards' = live
      /\ built' = [built EXCEPT ![f] = NoToken]
      /\ UNCHANGED <<clock, entries, candidates, ack, drawn, history>>

\* The cycle ends early (lost connection, close) or skips the rest.
Abandon(f) ==
  /\ candidates[f] # {} \/ built[f] # NoToken
  /\ candidates' = [candidates EXCEPT ![f] = {}]
  /\ built' = [built EXCEPT ![f] = NoToken]
  /\ UNCHANGED <<clock, entries, guards, ack, drawn, history>>

\* removeInflight for a message seen deleted or expunged.
RemoveInflight(f, k) ==
  /\ entries[k] # NoEntry
  /\ ~IsEntryActive(entries[k], RetryAfter[f], clock)
  /\ entries' = [entries EXCEPT ![k] = NoEntry]
  /\ UNCHANGED <<clock, guards, candidates, built, ack, drawn, history>>

\* Any token a flow can present, current or stale.
ClaimAckToken(a, t) ==
  /\ ack[a] = NoToken
  /\ TokenIdentityMatches(entries[t.key], t)
  /\ ~entries[t.key].claimed
  /\ entries' = [entries EXCEPT ![t.key].claimed = TRUE]
  /\ ack' = [ack EXCEPT ![a] = t]
  /\ UNCHANGED <<clock, guards, candidates, built, drawn, history>>

CompleteAckToken(a) ==
  LET t == ack[a]
      k == t.key
  IN  /\ t # NoToken
      /\ TokenIdentityMatches(entries[k], t) /\ entries[k].claimed
      /\ entries' = [entries EXCEPT ![k] = NoEntry]
      /\ guards' = RecordCompletion(guards, k, clock)
      /\ ack' = [ack EXCEPT ![a] = NoToken]
      /\ sentAt' = [sentAt EXCEPT ![k] = 0]
      /\ doneAt' = [doneAt EXCEPT ![k] = clock]
      /\ overtaken' = [j \in Keys |->
           IF j = k THEN {} ELSE IF doneAt[j] = 0 THEN {} ELSE overtaken[j] \union {k}]
      /\ UNCHANGED <<clock, candidates, built, drawn>>

ReleaseAckToken(a) ==
  LET t == ack[a]
  IN  /\ t # NoToken
      /\ TokenIdentityMatches(entries[t.key], t) /\ entries[t.key].claimed
      /\ entries' = [entries EXCEPT ![t.key].claimed = FALSE]
      /\ ack' = [ack EXCEPT ![a] = NoToken]
      /\ UNCHANGED <<clock, guards, candidates, built, drawn, history>>

Next ==
  \/ Tick
  \/ \E f \in Fetchers :
       \/ PruneExpired(f) \/ MarkAccepted(f) \/ MarkSuppressed(f) \/ Abandon(f)
       \/ \E k \in Keys : Select(f, k) \/ Build(f, k) \/ RemoveInflight(f, k)
  \/ \E a \in Ackers :
       \/ CompleteAckToken(a) \/ ReleaseAckToken(a)
       \/ \E t \in [key : Keys, issuedAt : 1..clock, nonce : Nonces] : ClaimAckToken(a, t)

Spec == Init /\ [][Next]_vars

-----------------------------------------------------------------------------
(* Correctness.                                                            *)

\* The state has the shape the code gives it, and nothing is dated in the future:
\* entries, tokens and guards carry Date.now() of an earlier or this tick.
TypeOK ==
  /\ clock \in Time
  /\ entries \in [Keys -> Entry \union {NoEntry}]
  /\ \A k \in Keys : entries[k] # NoEntry =>
       entries[k].token.key = k /\ entries[k].lastSentAt <= clock
  /\ guards \in Seq(Guard)
  /\ candidates \in [Fetchers -> SUBSET Keys]
  /\ built \in [Fetchers -> Token \union {NoToken}]
  /\ \A f \in Fetchers : built[f] # NoToken => built[f].issuedAt <= clock
  /\ ack \in [Ackers -> Token \union {NoToken}]
  /\ drawn \in [Keys -> SUBSET Nonces]
  /\ sentAt \in [Keys -> Nat]
  /\ doneAt \in [Keys -> Nat]
  /\ overtaken \in [Keys -> SUBSET Keys]

Holds(a, k) == ack[a] # NoToken /\ ack[a].key = k

\* A claim has exactly one owner and an owner has a claim: an entry is claimed if and
\* only if one ACK item holds it, with the very token of the entry.  A claim without
\* owner would keep the message from ever being emitted again; an owner without claim
\* would report a stale token after the IMAP action was carried out
\* (imap-email-ack.js completeItems).
ClaimOwnership ==
  /\ \A k \in Keys : entries[k] # NoEntry /\ entries[k].claimed =>
       \E a \in Ackers : ack[a] = entries[k].token
  /\ \A a \in Ackers : ack[a] # NoToken =>
       LET e == entries[ack[a].key]
       IN  e # NoEntry /\ e.claimed /\ e.token = ack[a]
  /\ \A a, b \in Ackers, k \in Keys : Holds(a, k) /\ Holds(b, k) => a = b

\* The completion guards are in order of time, one per message, never more than the
\* cap, and never for a message that is in flight: pruneCompletionGuards stops at the
\* first young guard and drops the oldest first only because this order holds.
GuardsConsistent ==
  /\ Len(guards) <= MaxGuards
  /\ \A i, j \in 1..Len(guards) : i < j =>
       guards[i].at <= guards[j].at /\ guards[i].key # guards[j].key
  /\ \A i \in 1..Len(guards) : guards[i].at <= clock /\ entries[guards[i].key] = NoEntry

\* A completion is remembered for the whole TTL, unless as many other messages as the
\* cap allows were completed after it.
GuardsRemember ==
  \A k \in Keys :
    doneAt[k] # 0 /\ clock < doneAt[k] + GuardTTL /\ Cardinality(overtaken[k]) < MaxGuards
      => \E i \in 1..Len(guards) : guards[i] = [key |-> k, at |-> doneAt[k]]

\* markInflight stores a new generation for k, so k is emitted in this step.
Emits(k) ==
  entries'[k] # NoEntry /\ (entries[k] = NoEntry \/ entries'[k].token # entries[k].token)

\* A fetch that began before a message was acknowledged does not emit it again: within
\* the window the guards cover, the first generation after a completion was issued
\* after it.
StaleFetchSuppressed ==
  [][\A k \in Keys :
       /\ Emits(k) /\ doneAt[k] # 0
       /\ clock < doneAt[k] + GuardTTL /\ Cardinality(overtaken[k]) < MaxGuards
       => entries'[k].token.issuedAt > doneAt[k]]_vars

\* A message that was emitted and not yet acknowledged is not emitted again before the
\* retry interval of some input node has passed, whatever removals, prunings, failed
\* and released ACKs come in between.
NoEarlyRedelivery ==
  [][\A k \in Keys : Emits(k) /\ sentAt[k] # 0 =>
       \E f \in Fetchers : clock - sentAt[k] >= RetryAfter[f]]_vars

\* What the registry promises the flow: see DeliveryLedger.
Ledger == INSTANCE DeliveryLedger WITH
  offered <- {k \in Keys : entries[k] # NoEntry /\ ~entries[k].claimed},
  holders <- [k \in Keys |-> {a \in Ackers : Holds(a, k)}]
LedgerSpec == Ledger!Spec
=============================================================================
