# Verification of node-red-contrib-imap-email

TLA+ models of the Node-RED nodes `imap-email in` and `imap-email ack`, the TLC
runs that check them on small instances, and theorems checked by TLAPS. Paths
like `lib/runtime-registry.js` are relative to the repository's `src/`.
`PROJECT.json` maps every definition to the lines it models, lists the hazards
of the code at their lines and names, for each property, a plausible bug that
the run would find (`Operator_Variant` in the modules, one per property).

```
tlc -workers 2 -config ImapEmailIn_one.cfg MCImapEmailIn     # a run
tlapm InflightRegistryProofs.tla                             # the proofs of a module
```

## 1. The system

An `imap-email in` node reads one mailbox when triggered and sends one message
per mail, with an ACK token. Flows work on it and send the token to an
`imap-email ack` node, which deletes, moves, copies or flags the mail in the
mailbox. Delivery is at least once: a mail that is not acknowledged within
`retryAfterMs` is sent again.

The nodes never call each other. They meet in a process-wide registry (module
variables, synchronous calls) and in the mailbox itself, which other clients
change too. JavaScript runs one callback at a time: a step of a model is the code
from one `await` (or timer, or event) to the next, and whatever was read before
an `await` may be stale after it.

| Component | State | Operations | Interaction |
|---|---|---|---|
| In-flight registry, `lib/runtime-registry.js` | per queue: map of entries (token, `lastSentAt`, `claimed`), ordered map of completion guards | `markInflight`, `isActiveInflight`, `pruneExpiredInflight`, `removeInflight`, `claimAckToken`, `completeAckToken`, `releaseAckToken` | called by both nodes |
| ACK token, `lib/ack-token.js` | signing secret of the process | build, validate | built by the input node, validated by the ACK node |
| Input node, `nodes/imap-email-in.js` | `scanCursor`, `newUidCursor`, `scanUidValidity`, running cycle, close state | trigger (`runFetchCycle`), close | IMAP client, registry, output |
| ACK node, `nodes/imap-email-ack.js` | pending items, timer, running flush, unsettled items, close state | input, `flush`, close | IMAP client, registry, two outputs |
| ACK actions and confirmed delete, `lib/imap-ack-actions.js`, `lib/imap-delete.js` | none between calls | `executeAckActionRange`, `deleteUidRange` | called per chunk by the ACK node; `deleteUidRange` also by the input node's expunge |
| UID ranges, `lib/uid-range.js` | none | `chunkUids`, `compressUids`, `normalizeUids` | both nodes |
| Connection check, `lib/imap-connection-check.js` | one shared probe, its subscribers, timers | `subscribe`, `close`, probe callbacks | account node, status of both nodes |
| IMAP helpers, `lib/imap-connection.js`, `lib/imap-utils.js` | none | `safeLogout`, `safeClose`, `ensureMailbox`, conversions | all |
| Account node, diagnostics, editor pages | configuration | `createClient`, redaction, forms | |

What is hard, and what makes each component correct:

* **Registry.** Two input nodes with different retry intervals and several ACK
  items use one queue, and every caller acts on what it knew before an `await`.
  Correct: a claim has one owner and nobody removes a claimed entry; nothing is
  sent early; a fetch that began before an acknowledgement does not send the
  message again, within the time and the number of guards the code keeps.
* **ACK node.** ACKs arrive in any order, twice, or late, also while a flush is
  running; chunks fail one by one; a close waits for one bounded flush, and a
  deadline ends it when IMAP does not answer, whose late answer then returns.
  Correct: each ACK is answered once and none is forgotten; claims are released
  exactly by those that own them; nothing is sent to the server after the close.
* **Input node.** A cycle reads windows by sequence number (which expunges
  shift) and by UID (new mail), takes at most so many candidates, holds the
  cursor for the rest, and rolls cursors back when it is interrupted or closed.
  Correct: no wanted message is left behind for ever, or behind both cursors by a
  failure; limits hold; the expunge spares what is in flight; every cycle and
  every close ends.
* **ACK actions.** A plan is several IMAP commands, each of which may fail
  before or after its effect. Correct: success means done, in particular a
  delete means gone; no other message is removed; an error is called partial
  exactly if something had changed.
* **Connection check.** Login answer, error event, close event, timeout and
  unsubscription race for one result. Correct: one result for each subscriber,
  none after close, and no business status overwritten.

## 2. Modules and plan

| | Module | Models | State |
|---|---|---|---|
| A | `InflightRegistry` | the registry, its callers reduced to what they know | done |
| B | `DeliveryLedger` | abstract: what the registry promises a flow | done |
| C | `InflightRegistryProofs` | theorems about A and its refinement of B | done |
| D | `ImapEmailAck` | ACK nodes, with the registry entries they touch | done |
| E | `ImapEmailAckProofs` | theorems about D for any nodes, ACKs, plans and limits | done |
| F | `ImapEmailIn` | input nodes and a mailbox with other clients | done |
| G | `ImapEmailInProofs` | theorems about F for any mailbox and limits, some for one node | done |
| H | `ParseStream` | one message through counter, parser and attachment drains: the steps of what is one step in F | done |
| I | `ParseStreamProofs` | theorems about H for messages of any length | done |
| J | `AckActions` | the commands of one plan for one chunk | done |
| K | `AckActionsProofs` | theorems about J for any mailbox and chunk | done |
| L | `AckPlan` | how a configuration or a message becomes a plan of J | done |
| M | `AckPlanProofs` | theorem about L for any request | done |
| N | `UidRange` | how a list of UIDs becomes the sets of the commands | done |
| O | `UidRangeProofs` | theorems about N for any list and chunk size | done |
| P | `ConnectionCheck` | the shared login check and the status of the nodes | done |
| Q | `ConnectionCheckProofs` | theorems about P for any nodes | done |

The order is that of what is at stake: who may touch a message (A-E), which
messages are read and sent (F-I), what happens to them on the server (J-O);
then what surrounds the delivery (P, Q). Each `MC` module names the values of the constants,
each `.cfg` one instance; `MCAckInputs` runs the two pure modules L and N together. No
module uses a RECURSIVE operator, so that all can be proved about.

## 3. How the models correspond to the code

**InflightRegistry.** `entries` and `guards` are the two maps of one queue
(different queues share nothing); `guards` is a sequence since the code relies on
the insertion order of the `Map`. `candidates` and `built` are what an input node
knows between window and mark, `ack` the token an ACK item holds. `sentAt`,
`doneAt`, `overtaken` only record the past. `Tick` is `Date.now()`. Each other
action is one exported call together with the caller's code around it. `PruneExpired`
may come at any time: a trigger that finds the node running prunes in the middle of the
cycle. Nonces only have to differ within a tick, so `NextNonce` numbers them as drawn.
`DeliveryLedger` has two variables per message: whether it is offered to the flow,
and who holds it; its steps are offer, take, acknowledge, give back, withdraw.

**ImapEmailAck.** A node is a record: `pending`, the timer, `close`, and the flush
with the `await` it stands at. Of the flush, `batch` is what it took off
`pending`, `todo` the items of the current group that no chunk has handled and
`later` those of the groups to come; the order of groups is that of the
`batch`, that of chunks by UID, so both are sets. `Input` is `onInput`;
`TimerFires` starts a flush; `ConnectReply`, `LockReply`, `ActionReply`,
`LogoutReply` resume it with each possible outcome; `Close` and `Deadline` are
`onClose` and the deadline timer. Whatever a run of the event loop does to items
and registry goes through `Report`, which says for each item which of
`completeItems`, `failItems` and `failItemsForClose` it met. `Emit` and `Forget` are
what input nodes do to the entries. A chunk's IMAP action has three outcomes here
(ok, lasting error, connection lost); `AckActions` says how they come about.

**ImapEmailIn.** `node[n]` has the three cursors that survive a cycle and the
locals of `runFetchCycle` that survive an `await`; `at` is the `await` it stands
at. Synchronous parts are operators from node state to node state, with the names
of the code's inner functions. `mailbox` is the server: per UID, absent, wanted,
filtered out, or flagged `\Deleted`. `Deliver`, `OtherClient`, `Recreate`,
`Ack` and `Expire` interleave with every `await`.

**ParseStream.** One message, as a sequence of texts and attachments whose sizes are
counted in chunks, flows from the download (`source`) through the counter
(`bytes`, `Count`) into MailParser (`parser`, `Parse`), which is external and waits
after each attachment for its `release()`. `Readable` is `readNext`, `Drain` and
`AttachmentEnd` are `drainAttachment`, `ParserEnd` and `ErrorEvent` the listeners of
`parseMailStream`, `Close` is `destroyActiveStreams`. `destroy(err)` raises its error
event later: `errors` holds those that are due. `ContentReply` of `ImapEmailIn` is
the whole of it.

**AckPlan and UidRange.** Pure code. In `AckPlan` a flag is its lower-case name
with two marks for its spelling (backslash, capitals), which is all that
`normalizeFlagName` and `dedupeFlags` look at, and a thrown error is a value. `UidRange`
turns the loops of `chunkUids` and `compressUids` into one state machine with an action
per turn (`Open`, `Extend`, `Split`, `Finish`), so that their loop invariant can be
stated; a range is a record and not the text `first:last`. `ValidRange` is
`validateRange` of `lib/imap-delete.js`, which must accept what `chunkUids` writes.

**ConnectionCheck.** `closed`, `current` and `probe` are the coordinator's variables,
`client` and `connecting` the ImapFlow client of a probe and the promise chain of its
`connect()`, `node` the status object of each node. `node.status()` runs its listeners
at once, and these may close a node, report work or close the account: so `call`
is the JavaScript stack of one delivery, and while it is not empty only its
next step (`Deliver`, the `...Returns` actions) or what a listener does is taken. Immediates,
microtasks and timers are actions; microtasks run before the next macrotask
(`Macrotask`). A node subscribes once in its life, so a probe is named after the node
that created it.

**AckActions.** `Commands` is the list of awaited commands of a plan; `Execute`,
`Refuse` and `Lose` are the server's side of the one on the wire, `Reply` is
the code after the `await`. `messageDelete` is two commands, as in ImapFlow. A
NO may come back as an apparent success where the code says so.

What the abstractions leave out:

* Messages that validation rejects (bad signature, scope, shape): the code
  returns before it changes any state.
* A restart of Node-RED: registry and signing secret vanish together, which is
  `Init` again; older tokens are rejected.
* `clearQueue`, `snapshot`, `force`: no callers outside the tests. A clock set
  back. Diagnostics, statistics, wording, editor pages.
* In `ImapEmailIn`: a window's FETCH is one step although rows stream in;
  a UID flagged `\Deleted` that two windows of a cycle show is to be expunged once
  (the code lists it twice, and both count against `expungeDeletedFrontLimit`);
  download and parse are one step, which `ParseStream` takes apart; `deleteUidRange` is one step per chunk; the
  server reports UIDNEXT; a mailbox is recreated only while it is not selected;
  expiry is seen when it happens, the code computes it from the `now` of
  the cycle's start; `removeInflight` of a failed fetch never finds an
  active entry and is left out.
* In `ParseStream`: the bytes of a chunk, the headers, and what MailParser makes of
  them; `content` of an attachment is the number of its chunks.
* In `ConnectionCheck`: the texts of `connectionErrorStatus`. A listener acts on the
  nodes and the account only through their exported operations, and does at most one
  thing for each `node.status()` call.
* In `AckActions`: `client.mailbox` does not change away and back unnoticed
  within one call (the code compares values, so it could not tell).

## 4. The runs

| Run | Instance | Checks |
|---|---|---|
| `registry` | 3 messages, 2 input nodes (retry 1 and 2) with batches of 1, 2 ACK items, 2 tokens built per tick, room for 2 guards, TTL 2, clock to 3 (690 000 states) | `TypeOK`, `ClaimOwnership`, `NoEarlyRedelivery`, `StaleFetchSuppressed`, `GuardsConsistent`, `GuardsRemember`, and `LedgerSpec`: the refinement |
| `ack_two` | 2 nodes with batches of 2 and of 1, one batch per flush, 3 ACKs of 2 messages, 2 generations (1.1 million states) | `ClaimsOwned`, `OneOutput`, `AcknowledgedOnce`, `EntryKeptUntilOk`, `CloseComplete` |
| `ack_live` | 1 node, 2 ACKs, 3 plans of which one is local, chunks of 1, fair | `EveryAckSettles`, `NoActionAfterClose` |
| `in_one` | 1 node, 3 UIDs, expunge, close, ACKs, another client, a recreated mailbox, one IMAP error | `TypeOK`, `InflightBounded`, `PurgeSparesInflight`, `PassedOnlyWhenRead` |
| `in_live` | 3 UIDs, batch 1, expunge, close, one IMAP error, fair | `EventuallySent`, `CycleEnds`, `CloseSetsBack`, `FailedCandidateAhead`, `OverflowHeld` |
| `ack_actions` | 2 messages in the chunk, 1 outside, any state, plan and capabilities, 2 changes by others | `DeleteMeansGone`, `OthersUntouched`, `PartialMeansChanged`, `AllConfirmed` |
| `connection_check` | 2 nodes of one account, listeners that act during a delivery, fair | `TypeOK`, `OneResult`, `ResultTrue`, `NothingLeft`, `StatusStays`, `Answered` |
| `parse_stream` | every message of up to 3 parts of 1 or 2 chunks, limits none, 2 and 4, a close and one failing stream at any point, fair | `ResultRight`, `StreamsReleased`, `ParseSettles` |
| `ack_inputs` | every list of up to 4 numbers from 0 to 6 and two longer ones, chunks of 3; every request with up to two flags to add and one to remove | `RangesExact`, `ChunksDeletable`, `PlanFaithful` |
| `in_interrupted`, `in_overflow`, `in_inflight` | | expected violations, section 7 |

**Why the bounds are enough.** Registry: with two intervals every comparison of
ages has both results within three ticks, and so has the guards' TTL; the cap of two
is smaller than the number of messages, so that guards stand in an order and go by age
and by the cap. `MaxDraws` bounds the tokens built within one tick, of any nodes; two are
what a comparison of nonces and a fetch that is overtaken within a millisecond need. A
batch of one suffices since two nodes already hold what they read across each other's
marks. ACK node: the smallest sizes in which a flush leaves items pending, a group has
more than one chunk, one chunk fails before another, two items name one
message, an item holds a superseded generation, and two nodes with different batch sizes
hold ACKs of one message; `ack_live` adds flushes of several groups, one of them
without a command. The theorems of section 6 then hold for all sizes. Input node:
windows shorter than the mailbox so that the cursor wraps, batches shorter than
windows so that they overflow, and an in-flight limit that is reached. A New-UID window
is one chunk in these instances; with several, a message that expires between two of them
may be passed unread, so that `PassedOnlyWhenRead` would need their gaps as an exception. AckActions: a message inside and one outside the
chunk for each role, and enough changes by others to clear a flag and to change
the mailbox in one call. ConnectionCheck: one node creates the check, another joins
it, also from a listener of the first one's delivery; a node that comes when a check has ended
creates the next. ParseStream: an attachment before, between and after
texts and other attachments, and limits that are crossed in the middle of a part and
at its end. AckInputs: gaps and runs within a chunk and across its end, repeated and
unsorted numbers and zeros; two spellings of one flag on a side, one flag on both.
Bounds on errors (`MaxErrors`) and outside events (`MaxChanges`, `MaxOther`) are
explicit guards.

`CHECK_DEADLOCK FALSE` is given where the system may come to rest: every ACK
settled, the node closed, the call returned.

## 5. Fairness

Stated in `LiveSpec` of each module, and only where a liveness run needs it:

* *Timers fire*: weak fairness of `TimerFires` and `Deadline`, which are
  `setTimeout` callbacks. The deadline's timer is armed by the close and cleared where
  the close completes, so "armed" is "closing" and it has no variable of its own.
* *While a node is open, a command ends*: weak fairness of the reply, with any
  outcome. ImapFlow's socket timeout, which the account node always sets, ends a
  command that gets no answer. Nothing of the kind is assumed of a
  closing node, so the close rests on its deadline timer alone.
* *The flow works*: `EventuallySent` also assumes that the input node is
  triggered again and again and that some message that was sent is acknowledged.
  Without that a full in-flight limit rightly stops the node.
* *The event loop runs* (`ConnectionCheck`, `ParseStream`): a call on the stack
  returns, immediates, microtasks and timers that are due are run, a stream that has
  something is read. Nothing is assumed of the server or the download: in `Answered`
  the time limit alone ends a check.

No fairness is assumed of other clients, deliveries or errors.

## 6. What is proved

For every value of the constants that satisfies the named assumptions of the module
(limits positive, sets finite where the code counts them, sentinels no elements). Each
inductive invariant was model-checked on a run's instance before it was proved.

**`InflightRegistryProofs`**, for any finite set of messages, any input nodes, ACK items
and nonces, and any intervals and caps.

* `TypeCorrect`: `TypeOK`. It includes that nothing is dated in the future, without
  which an age could be negative.
* `OwnershipCorrect`: `ClaimOwnership`.
* `LedgerImplemented`: `Spec => LedgerSpec`, the refinement of `DeliveryLedger`.
* `GuardsOrdered`, `CompletionsRemembered`: the invariants `GuardsConsistent` and
  `GuardsRemember`.
* `StaleFetchesSuppressed`, `RedeliveriesLate`: the action properties `StaleFetchSuppressed`
  and `NoEarlyRedelivery`. The latter promises the interval of some input node only: nodes
  share the entries of a queue and each prunes them by its own interval, so that a node with a
  short one lets another emit earlier than its own.
* `SharedIntervalKept`: if no node of the queue waits less than `r`, no unacknowledged message is
  emitted again before `r`. Nodes with one common interval thus keep it.

Ownership: `ClaimOwnership` has three conjuncts: a claimed entry has an owner, an
owner's token is that of a claimed entry, no two owners share a message. None is
inductive alone (releasing an entry needs the third to keep the first), but their
conjunction with `TypeOK` is. The steps that replace or drop entries first establish that
a claimed entry is kept as it is. The refinement then follows step by step: with
ownership known, completing a token is exactly the ledger's acknowledgement by a holder.

Guards: `GuardInv` says that the guards stand in the order of their times and that a
message completed within the TTL, and overtaken by fewer than `MaxGuards` others, has a
guard and no entry. Pruning drops a prefix of the sequence. The guards that stand
behind a message's own are those of messages that have overtaken it, one each; so a prefix
that reaches the guard means that the cap was reached by overtakers, or that the guard was
too old. `FiniteAssumption` is what makes the counting possible. `SentInv` says that
an entry dates from the last emission of its message, from which `RedeliveriesLate` and `SharedIntervalKept` follow.

**`AckActionsProofs`**, for any mailbox, any non-empty chunk of it and any number of
changes by others (`ChunkAssumption`, `BoundAssumption`).

* `TypeCorrect`, `DeleteCorrect`: `TypeOK` and `DeleteMeansGone`.
* `RemovalCorrect`, `ExpungeCorrect`: `OthersUntouched` and `ExpungeAfterStore`.
* `SuccessCorrect`, `ResultCorrect`: `AllConfirmed` and `PartialMeansChanged`.

The properties speak of the end of a call; the invariant `IInv` adds what holds on
the way. `Progress` says that the confirmed commands are those before the current
one that change messages. `DeleteProgress` says that an empty answer to the SEARCH,
while the mailbox is still the one the call began in, means an empty chunk, and
that only the third command of a delete has taken anything out. The lemmas before it give
the list of commands of each plan position by position; from them `PartialMeaning` shows
that `Partial`, which follows the code's `catch` blocks, is "an earlier command has
changed messages" for every plan.

**`ImapEmailAckProofs`**, for any nodes, messages, ACKs, plans, batch sizes and limits.

* `TypeCorrect` and `QueueServed`: `TypeOK` and `NothingForgotten`, an open node with
  queued ACKs has a timer or a running flush.
* `ClaimsCorrect`, `AnswersCorrect`, `AcknowledgedCorrect`, `CloseCorrect`: `ClaimsOwned`,
  `OneOutput`, `AcknowledgedOnce`, `CloseComplete`.
* `EntryCorrect` and `CloseSilences`: the action properties `EntryKeptUntilOk` and
  `NoActionAfterClose`.

`IInv` says where an ACK may be: `Queues`, the pending ones are in the queue of
their node, each once; `Work`, those in flight are the ones that hold a claim, and
every one is in the group or the later groups of a running flush; `Claims`, claims and
claim holders match one to one; `History`, the generation of an acknowledged item is a
past one (without it an old and a new acknowledgement of one message could
not be told apart); `Closing`, a closed node has neither. The proof goes in two
stages. First, what `Report` does if the sets it is given are `Sound`: claims stay
with their owners (`ReportClaims`) and every answer is the only one (`ReportAnswers`).
Second, `NodeStep`: a step of one node whose new record `Fits` keeps `IInv`. Each
handler then only has to show that its record fits; `ProceedStep` and `FlushStep` do so once
for the four callers of a flush.

**`ImapEmailInProofs`**, for any UIDs, windows, batches, chunks and limits.

* `Inductive`, `TypeCorrect`: `IInv` and `TypeOK`, for any nodes.
* `OneInductive`, `InflightHolds`, `PurgeSpares`: `InflightBounded` and
  `PurgeSparesInflight` for one node (`OneNode`). With two the limit may be exceeded,
  which is the finding of `in_inflight`.
* `CursorsInductive`, `OverflowKept`, `FailedKept`, `CloseKept`: the action properties
  `OverflowHeld`, `FailedCandidateAhead` and `CloseSetsBack`, for one node in a mailbox from which only its own expunge takes
  messages (`Undisturbed`: no effect is "absent"). Others may deliver, flag and recreate the
  mailbox. Any other removal moves messages under the cursor as an own expunge
  does (section 7), so that nothing is promised there.

`Sound` says of a node at each `await` what its locals are: the candidates are distinct
and no more than the capacity, the position is one of them, and the messages marked since
the cycle counted the active ones (`late`) are earlier candidates. `Room` adds, for
one node, that the active messages and those the cycle may still send (`Rest`) stay within
`MaxInflight`; ACKs and expiries only make room. `Ranks` counts the chosen ones: the
code takes a candidate if fewer than so many wanted ones precede it, and an injective numbering
turns that into a bound of the set. The synchronous part of each handler has a lemma of its
own (`...Fits`), since a reply often runs through several of them; the handlers then
only `Keep` what they do not touch.

`TrackInv` follows the two cursors through a cycle that has expunged nothing. While
windows remain to be read, only a New-UID window can have left messages over, and the New-UID
cursor is held at or before them (`Scanning`). After the last window one of the two cursors is
held at or before each of them, and every candidate has noted a cursor at or before itself
(`Tracked`); that of the candidate in work is the one a retry goes back to (`Retries`). A window's FETCH leaves over only messages behind the ones it takes
(`WindowShows`, `SmallestFirst`), and each synchronous part leads the node where the invariant
holds (`...Leads`). A delivery only appends, so that no message gets a smaller
sequence number (`OrderGrows`, `SameFollows`); an own expunge ends the promise (`SpentFollows`).
`CloseKept` adds `UnfetchedInv`, before the first candidate nothing is noted for a close;
each synchronous part keeps it (`...Unfetched`).

**`ParseStreamProofs`**, for messages of any number of parts of any length and any limits.

* `InvariantHolds`: `IInv` with `TypeOK`.
* `ResultsRight`, `Released`: `ResultRight` and `StreamsReleased`.

`StreamInv` relates the streams to the promise (one attachment is drained at a time; a
settled promise has untracked the pipe, a close has destroyed all that is tracked), `CountInv`
says that a download does not end after its limit was crossed and that whatever raises an
error is a reason to reject, and `PartInv` that of each part what MailParser has taken is kept,
waits in its stream, or is an object that nobody has read yet. The folds that sum the sizes are
used only by what one part adds to them.

**`AckPlanProofs`**: `PlansFaithful`, that is `PlanFaithful` for flag lists of any length and
any sets of names that `FlagAssumption` allows (no system flag is also a forbidden or an
unsendable name). `DedupeFlags` keeps the first of each name at its place among
those kept: the proof is that this numbering has no gaps, so that the result is a sequence in
which every name occurs once.

**`UidRangeProofs`**, for any lists of integers, any chunk size and any limits.

* `Inductive`, `RangesCorrect`: the loop invariant and `RangesExact`. The finished chunks
  and the closed ranges stand exactly for the UIDs taken (`Exact`), the open range ends
  at the last of them (`Position`), and neighbouring ranges leave a gap (`Gaps`); the sorted
  list being strictly increasing, extending, splitting and finishing each keep it.
* `ChunksInductive`, `ChunksCorrect`: `ChunksDeletable`. Each finished chunk is a stretch
  of the sorted list, of exactly as many UIDs as the limit allows, and the one in work is what was
  taken since.

**`ConnectionCheckProofs`**, for any nodes.

* `TypeCorrect`, `AtMostOneResult`, `ResultsTrue`, `NothingIsLeft`: `TypeOK`, `OneResult`,
  `ResultTrue`, `NothingLeft`.
* `StatusesStay`: the action property `StatusStays`.

`LifeInv` describes each check for itself: which of its client, timer and listeners are
still alive. `CallInv` says what the delivery on the stack stands for: a final status means that
its check has ended so, "checking" that it has begun, and nobody is to be called twice. `SubInv` says who is subscribed to what, `HearInv` what each subscriber has
heard and that it is the result of the check it was subscribed to. The last two are what makes a
listener that closes a node, or the account, in the middle of a delivery harmless.

**Only model-checked.** The prover has no means for liveness under fairness, ENABLED, and
results of recursive definitions by induction over data: `EveryAckSettles`,
`EventuallySent`, `CycleEnds`, `Answered`, `ParseSettles` stay with TLC, and so does
`PassedOnlyWhenRead`, whose argument depends on the sizes of the run.

## 7. Where code and documentation disagree

* `in_interrupted`. `noteCandidateRollback` (`nodes/imap-email-in.js:1229`)
  overwrites the retry cursor of the sequence window with the null of a New-UID
  candidate. If `fetchOne` fails with a transient error there, `newUidCursor`
  moves back, but `scanCursor` stays behind the backlog window of the same cycle,
  whose candidates were not fetched; the design document
  (`docs/design-decisions-imap-email.md:836`) says that cursors do not pass them.
  They come back when the cursor has wrapped (`EventuallySent` holds).
* `in_overflow`. After an expunge the cursor returns to the window of
  the last candidate (line 1522), not to the first window of the cycle. Messages
  expunged in an earlier window have moved the unselected candidates of an
  overflowing window in front of it; the document (line 820) says the cursor is
  held for them. They, too, come back after a wrap. The same renumbering lets a
  candidate whose fetch fails after an expunge in its cycle fall behind the cursor.
  `FailedCandidateAhead` and `OverflowHeld` (`in_live`) therefore speak of the cycles that
  expunged nothing; the instance has nobody else who removes messages, since that renumbers
  them as well.
* `in_inflight`. The capacity is computed at the start of a cycle (line 834). Two
  input nodes of one queue that both start below `maxInflight` exceed it, which
  `README.md:153` and line 840 of the document call a maximum. With one input node the
  limit holds, for every mailbox and limit (`InflightHolds`).

An observation that contradicts no document: when a parse fails in the middle of an
attachment, that attachment's stream stays in `activeStreams` until the node closes.
`StreamsReleased` allows exactly this.

## 8. Not modelled

* The conversion of headers to fields, the parsing of search criteria and options
  (`headersToMailFields`, `parseNumber`, flag maps): pure, without state, and used only to
  fill messages and constants.
* The HMAC and field checks of tokens: a rejected token changes no state.
* The ImapFlow options the account node composes, texts of status and errors, the
  result message of an ACK, diagnostics: no control of the delivery depends on them.
* Editor pages and their HTTP route, tests, examples, packaging.

Hazards without a property are listed in `PROJECT.json` with the reason.
