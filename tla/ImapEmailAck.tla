---------------------------- MODULE ImapEmailAck ----------------------------
(***************************************************************************)
(* nodes/imap-email-ack.js: several "imap-email ack" nodes that share one  *)
(* in-flight registry.  A node queues the ACKs it receives, flushes them   *)
(* in batches, claims each one's token, groups them by action plan, runs   *)
(* the IMAP action chunk by chunk and settles every ACK exactly once, also *)
(* when Node-RED closes the node in the middle.                            *)
(*                                                                         *)
(* JavaScript runs a handler to completion, so an action is the code from  *)
(* one await to the next.  The registry appears as InflightRegistry leaves *)
(* it to the flow: per message a current generation and its claim bit.     *)
(***************************************************************************)
EXTENDS Integers, Sequences, FiniteSets

CONSTANTS
  Nodes,              \* ACK nodes of the flow
  Uids,               \* message UIDs of one mailbox, numbers
  Items,              \* ACK messages the flow will send, of any node
  Plans,              \* action plans
  LocalPlans,         \* plans that need no IMAP command ("flag" without changes)
  BatchSize,          \* batchSize of each node
  MaxBatchesPerFlush, \* maxBatchesPerFlush
  MaxUidPerCommand,   \* maxUidPerCommand
  MaxGeneration       \* bound of the model: emissions per message

ASSUME UidAssumption == Uids \subseteq Nat \ {0}
ASSUME PlanAssumption == LocalPlans \subseteq Plans
ASSUME LimitAssumption ==
  /\ BatchSize \in [Nodes -> Nat \ {0}] /\ MaxBatchesPerFlush \in Nat \ {0}
  /\ MaxUidPerCommand \in Nat \ {0} /\ MaxGeneration \in Nat

VARIABLES
  entry,     \* registry: uid -> current generation (0: none) and its claim bit
  issued,    \* uid -> generations emitted so far
  item,      \* ACK items: where they are and what became of them
  node       \* ACK nodes

vars == <<entry, issued, item, node>>

Entry == [gen : 0..MaxGeneration, claimed : BOOLEAN]
NoEntry == [gen |-> 0, claimed |-> FALSE]

\* node, uid, gen, plan are fixed from the start: what the flow is going to send.
\* status: not sent yet, in node.pending, in node.inflightItems, settled;
\* claimed: item._imapEmailAckClaimed;  result: what the flow was told;
\* outputs: how often it was told.
Item == [status : {"unsent", "pending", "inflight", "settled"}, node : Nodes,
         uid : Uids, gen : 0..MaxGeneration, plan : Plans, claimed : BOOLEAN,
         result : {"none", "ok", "error", "stale"}, outputs : Nat]

\* close: "finalized" stands for closeFinalized and closeAbortError, which finishCloseNow
\* sets together;  at: the await the flush stands at, "idle" when ~running;
\* batch: what the flush took from pending;  todo: unprocessed items of the current group;
\* later: items of the groups after it.
Node == [pending : Seq(Items), timer : BOOLEAN,
         close : {"open", "closing", "finalized"},
         at : {"idle", "connect", "lock", "action", "logout"},
         batch : Seq(Items), todo : SUBSET Items, later : SUBSET Items]

IdleNode == [pending |-> <<>>, timer |-> FALSE, close |-> "open", at |-> "idle",
             batch |-> <<>>, todo |-> {}, later |-> {}]

Min2(a, b) == IF a < b THEN a ELSE b
Elements(s) == {s[i] : i \in 1..Len(s)}
Running(n) == node[n].at # "idle"
Unsettled(i) == item[i].status \in {"pending", "inflight"}
Settled(i) == item[i].status = "settled"
InflightItems(n) == {i \in Items : item[i].node = n /\ item[i].status = "inflight"}

-----------------------------------------------------------------------------
(* What one run of the event loop does to the items and the registry: the  *)
(* items `claims` claim their token, `completes` are reported by           *)
(* completeItems, `fails` by failItems, failItemsForClose or               *)
(* failPreflightItem.  completes and fails are disjoint.                   *)

\* claimAckToken: current generation, not claimed, and first of its token in the batch.
Claimable(batch, p) ==
  LET i == batch[p]
  IN  /\ entry[item[i].uid].gen = item[i].gen /\ ~entry[item[i].uid].claimed
      /\ ~\E q \in 1..(p - 1) : item[batch[q]].uid = item[i].uid /\ item[batch[q]].gen = item[i].gen

\* completeAckToken succeeds.
Completable(i, claims) ==
  LET e == entry[item[i].uid]
  IN  e.gen = item[i].gen /\ (e.claimed \/ i \in claims)

\* Mutant of Told: a late reply completes an item the close has settled already.
Told_Again(i, claims, completes, fails) ==
  IF i \in completes
    THEN [item[i] EXCEPT !.status = "settled", !.claimed = FALSE, !.outputs = @ + 1,
            !.result = IF Completable(i, claims) THEN "ok" ELSE "stale"]
  ELSE IF i \in fails
    THEN IF Settled(i) THEN [item[i] EXCEPT !.claimed = FALSE]
         ELSE [item[i] EXCEPT !.status = "settled", !.claimed = FALSE,
                 !.outputs = @ + 1, !.result = "error"]
  ELSE IF i \in claims THEN [item[i] EXCEPT !.status = "inflight", !.claimed = TRUE]
  ELSE item[i]

\* markItemSettled lets an item be told its result once, whatever is called later.
Told(i, claims, completes, fails) ==
  IF Settled(i)
    THEN IF i \in fails THEN [item[i] EXCEPT !.claimed = FALSE] ELSE item[i]
  ELSE IF i \in completes
    THEN [item[i] EXCEPT !.status = "settled", !.claimed = FALSE, !.outputs = @ + 1,
            !.result = IF Completable(i, claims) THEN "ok" ELSE "stale"]
  ELSE IF i \in fails
    THEN [item[i] EXCEPT !.status = "settled", !.claimed = FALSE, !.outputs = @ + 1,
            !.result = "error"]
  ELSE IF i \in claims THEN [item[i] EXCEPT !.status = "inflight", !.claimed = TRUE]
  ELSE item[i]

Concerns(i, u) == item[i].uid = u /\ item[i].gen = entry[u].gen

\* Mutant of EntryAfter: a failed item does not give its claim back.
EntryAfter_Leak(u, claims, completes, fails) ==
  IF \E i \in completes : ~Settled(i) /\ Concerns(i, u) /\ Completable(i, claims)
    THEN NoEntry
  ELSE IF \E i \in claims : Concerns(i, u) THEN [entry[u] EXCEPT !.claimed = TRUE]
  ELSE entry[u]

\* Mutant of EntryAfter: failItems completes the token instead of releasing it.
EntryAfter_Drop(u, claims, completes, fails) ==
  IF \E i \in completes : ~Settled(i) /\ Concerns(i, u) /\ Completable(i, claims)
    THEN NoEntry
  ELSE IF \E i \in fails : item[i].claimed /\ Concerns(i, u) THEN NoEntry
  ELSE IF \E i \in claims : Concerns(i, u) THEN [entry[u] EXCEPT !.claimed = TRUE]
  ELSE entry[u]

\* Mutant of EntryAfter: completeItems releases the token instead of completing it.
EntryAfter_Release(u, claims, completes, fails) ==
  IF \E i \in completes \union fails : (item[i].claimed \/ i \in claims) /\ Concerns(i, u)
    THEN [entry[u] EXCEPT !.claimed = FALSE]
  ELSE IF \E i \in claims : Concerns(i, u) THEN [entry[u] EXCEPT !.claimed = TRUE]
  ELSE entry[u]

\* completeAckToken, releaseItemClaim (only of an item that holds a claim), claimAckToken.
EntryAfter(u, claims, completes, fails) ==
  IF \E i \in completes : ~Settled(i) /\ Concerns(i, u) /\ Completable(i, claims)
    THEN NoEntry
  ELSE IF \E i \in fails : item[i].claimed /\ Concerns(i, u)
    THEN [entry[u] EXCEPT !.claimed = FALSE]
  ELSE IF \E i \in claims : Concerns(i, u) THEN [entry[u] EXCEPT !.claimed = TRUE]
  ELSE entry[u]

\* node' holds the queues already: an item that has just come in may be left in one.
Report(claims, completes, fails) ==
  /\ item' = [i \in Items |->
       IF item[i].status = "unsent" /\ i \in Elements(node'[item[i].node].pending)
         THEN [item[i] EXCEPT !.status = "pending"]
         ELSE Told(i, claims, completes, fails)]
  /\ entry' = [u \in Uids |-> EntryAfter(u, claims, completes, fails)]

-----------------------------------------------------------------------------
(* The parts of flush().                                                   *)

Position(i, batch) == CHOOSE p \in 1..Len(batch) : batch[p] = i
Before(i, j, batch) == Position(i, batch) < Position(j, batch)

\* groupItems: one group per plan, in the order of first appearance.
GroupOf(i, S) == {j \in S : item[j].plan = item[i].plan}
NextGroup(S, batch) == GroupOf(CHOOSE i \in S : \A j \in S : ~Before(j, i, batch), S)

IsLocal(i) == item[i].plan \in LocalPlans

\* Groups without IMAP commands need no await: they are settled on the way to the next one.
LeadingLocal(S, batch) ==
  {i \in S : IsLocal(i) /\ \E first \in GroupOf(i, S) :
                            \A j \in S : ~IsLocal(j) => Before(first, j, batch)}

\* chunkUids: the items with the smallest UIDs of those left.
NextChunk(todo) ==
  {i \in todo : Cardinality({u \in {item[j].uid : j \in todo} : u < item[i].uid}) < MaxUidPerCommand}

\* Mutant of Rearmed: ACKs that arrived during the flush wait for the next input.
Rearmed_Never(here) == here.timer

\* scheduleFlush(1) in flush's finally.
Rearmed(here) == here.timer \/ (here.pending # <<>> /\ here.close = "open")

\* Mutant of FailedAtClose: only node.pending is failed, not node.inflightItems.
FailedAtClose_Pending(n, here) == Elements(here.pending)

\* finishCloseNow
FailedAtClose(n, here) == Elements(here.pending) \union InflightItems(n)

\* The flush goes on with the groups of `left` (the current group is done): `here` is the
\* node, `claims` and `fails` what this run of the event loop did before.  At the end of
\* the flush, pending ACKs are scheduled again, or failed if the node is closing.
Proceed(n, here, left, claims, fails) ==
  LET leading   == LeadingLocal(left, here.batch)
      rest      == left \ leading
      aborted   == here.close = "finalized"
      completes == IF aborted THEN {} ELSE leading
      failed    == IF aborted THEN fails \union leading ELSE fails
      idle      == [here EXCEPT !.at = "idle", !.batch = <<>>, !.todo = {}, !.later = {}]
  IN  \/ /\ rest # {}
         /\ LET group == NextGroup(rest, here.batch)
            IN  node' = [node EXCEPT ![n] = [here EXCEPT
                  !.at = "connect", !.todo = group, !.later = rest \ group]]
         /\ Report(claims, completes, failed)
      \/ /\ rest = {} /\ here.close # "closing"
         /\ node' = [node EXCEPT ![n] = [idle EXCEPT !.timer = Rearmed(here)]]
         /\ Report(claims, completes, failed)
      \* completeCloseIfReady, finishCloseNow
      \/ /\ rest = {} /\ here.close = "closing"
         /\ node' = [node EXCEPT ![n] = [idle EXCEPT !.pending = <<>>, !.close = "finalized"]]
         /\ Report(claims, completes,
              failed \union (FailedAtClose(n, here) \ completes))

\* flush() on the node as the caller leaves it.
Flush(n, here) ==
  LET batch    == SubSeq(here.pending, 1, Min2(BatchSize[n] * MaxBatchesPerFlush, Len(here.pending)))
      claims   == {batch[p] : p \in {q \in 1..Len(batch) : Claimable(batch, q)}}
      rejected == Elements(batch) \ claims
      taken    == [here EXCEPT !.pending = SubSeq(@, Len(batch) + 1, Len(@)), !.batch = batch]
  IN  Proceed(n, taken, claims, claims, rejected)

\* Mutant of ChunkMayStart: node.closeAbortError is not looked at before a chunk.
ChunkMayStart_Always(n) == TRUE

ChunkMayStart(n) == node[n].close # "finalized"

\* The next chunk of the current group, the abort of a closed node, or the group's end.
\* Items of the group that are settled already are not affected by failing the group.
NextStage(n, todo, completes, fails) ==
  IF todo # {} /\ ChunkMayStart(n)
    THEN /\ node' = [node EXCEPT ![n].at = "action", ![n].todo = todo]
         /\ Report({}, completes, fails)
    ELSE /\ node' = [node EXCEPT ![n].at = "logout", ![n].todo = {}]
         /\ Report({}, completes, fails \union todo)

-----------------------------------------------------------------------------
Init ==
  /\ entry = [u \in Uids |-> NoEntry]
  /\ issued = [u \in Uids |-> 0]
  /\ item \in [Items -> [status : {"unsent"}, node : Nodes, uid : Uids,
                        gen : 1..MaxGeneration, plan : Plans, claimed : {FALSE},
                        result : {"none"}, outputs : {0}]]
  /\ node = [n \in Nodes |-> IdleNode]

\* An input node marks and emits the message (InflightRegistry!MarkAccepted).
Emit(u) ==
  /\ ~entry[u].claimed /\ issued[u] < MaxGeneration
  /\ issued' = [issued EXCEPT ![u] = @ + 1]
  /\ entry' = [entry EXCEPT ![u] = [gen |-> issued[u] + 1, claimed |-> FALSE]]
  /\ UNCHANGED <<item, node>>

\* An input node removes or prunes the entry.
Forget(u) ==
  /\ entry[u].gen # 0 /\ ~entry[u].claimed
  /\ entry' = [entry EXCEPT ![u] = NoEntry]
  /\ UNCHANGED <<issued, item, node>>

\* on("input") with a valid token, current or stale, sent once or again.
Input(i) ==
  LET n    == item[i].node
      full == [node[n] EXCEPT !.pending = Append(@, i)]
  IN  /\ item[i].status = "unsent" /\ item[i].gen <= issued[item[i].uid]
      /\ node[n].close # "finalized"
      /\ UNCHANGED issued
      /\ \/ /\ Len(full.pending) >= BatchSize[n] /\ ~Running(n)
            /\ Flush(n, [full EXCEPT !.timer = FALSE])
         \/ /\ Len(full.pending) >= BatchSize[n] /\ Running(n)
            /\ node' = [node EXCEPT ![n] = [full EXCEPT !.timer = FALSE]]
            /\ Report({}, {}, {})
         \/ /\ Len(full.pending) < BatchSize[n]
            /\ node' = [node EXCEPT ![n] = [full EXCEPT !.timer = @ \/ full.close = "open"]]
            /\ Report({}, {}, {})

TimerFires(n) ==
  /\ node[n].timer
  /\ UNCHANGED issued
  /\ \/ /\ ~Running(n) /\ node[n].pending # <<>>
        /\ Flush(n, [node[n] EXCEPT !.timer = FALSE])
     \/ /\ Running(n) \/ node[n].pending = <<>>
        /\ node' = [node EXCEPT ![n].timer = FALSE]
        /\ UNCHANGED <<entry, item>>

\* client.connect() resolves or rejects (or createClient threw).
ConnectReply(n) ==
  /\ node[n].at = "connect"
  /\ UNCHANGED issued
  /\ \/ /\ node' = [node EXCEPT ![n].at = "lock"]
        /\ UNCHANGED <<entry, item>>
     \/ /\ node' = [node EXCEPT ![n].at = "logout", ![n].todo = {}]
        /\ Report({}, {}, node[n].todo)

\* getMailboxLock: the mailbox is selected, or rejected, or has another UIDVALIDITY.
LockReply(n) ==
  /\ node[n].at = "lock"
  /\ UNCHANGED issued
  /\ \/ NextStage(n, node[n].todo, {}, {})
     \/ /\ node' = [node EXCEPT ![n].at = "logout", ![n].todo = {}]
        /\ Report({}, {}, node[n].todo)

\* executeAckActionRange resolves, rejects, or rejects with a transient or partial error,
\* after which the remaining chunks are failed without being sent.
ActionReply(n) ==
  LET todo  == node[n].todo
      chunk == NextChunk(todo)
  IN  /\ node[n].at = "action"
      /\ UNCHANGED issued
      /\ \/ NextStage(n, todo \ chunk, chunk, {})
         \/ NextStage(n, todo \ chunk, {}, chunk)
         \/ NextStage(n, {}, {}, todo)

\* safeLogout is over: the next group or the end of the flush.
LogoutReply(n) ==
  /\ node[n].at = "logout"
  /\ UNCHANGED issued
  /\ Proceed(n, node[n], node[n].later, {}, {})

\* on("close"): flush what is pending, unless a flush is running, which then ends it.
Close(n) ==
  LET here == [node[n] EXCEPT !.timer = FALSE, !.close = "closing"]
  IN  /\ node[n].close = "open"
      /\ UNCHANGED issued
      /\ \/ /\ ~Running(n) /\ here.pending # <<>>
            /\ Flush(n, here)
         \/ /\ ~Running(n) /\ here.pending = <<>>
            /\ node' = [node EXCEPT ![n] = [here EXCEPT !.close = "finalized"]]
            /\ UNCHANGED <<entry, item>>
         \/ /\ Running(n)
            /\ node' = [node EXCEPT ![n] = here]
            /\ UNCHANGED <<entry, item>>

\* The close deadline: clients are closed, everything unsettled is failed, done() is called;
\* the flush is still suspended in its await and comes back later.
Deadline(n) ==
  /\ node[n].close = "closing"
  /\ node' = [node EXCEPT ![n].close = "finalized", ![n].pending = <<>>]
  /\ Report({}, {}, FailedAtClose(n, node[n]))
  /\ UNCHANGED issued

Reply(n) == ConnectReply(n) \/ LockReply(n) \/ ActionReply(n) \/ LogoutReply(n)

Next ==
  \/ \E u \in Uids : Emit(u) \/ Forget(u)
  \/ \E i \in Items : Input(i)
  \/ \E n \in Nodes :
       TimerFires(n) \/ ConnectReply(n) \/ LockReply(n) \/ ActionReply(n)
         \/ LogoutReply(n) \/ Close(n) \/ Deadline(n)

Spec == Init /\ [][Next]_vars

\* Timers fire, the close deadline among them.  While a node is open every IMAP command
\* ends, at the latest by ImapFlow's socket timeout; of a closing node nothing is assumed.
LiveSpec ==
  /\ Spec
  /\ \A n \in Nodes :
       /\ WF_vars(TimerFires(n)) /\ WF_vars(Deadline(n))
       /\ WF_vars(node[n].close = "open" /\ Reply(n))

-----------------------------------------------------------------------------
(* Correctness.                                                            *)

\* The state has the shape the code gives it; a flush that stands at an action has a chunk
\* to send, and one that is not running has nothing.
TypeOK ==
  /\ entry \in [Uids -> Entry]
  /\ issued \in [Uids -> 0..MaxGeneration]
  /\ item \in [Items -> Item]
  /\ node \in [Nodes -> Node]
  /\ \A n \in Nodes :
       /\ node[n].at = "action" => node[n].todo # {}
       /\ node[n].at = "idle" => node[n].batch = <<>> /\ node[n].todo = {} /\ node[n].later = {}

\* A claim in the registry belongs to exactly one unsettled item of a running flush, with
\* the entry's own generation: no failure, late reply or close leaks a claim (the message
\* would never be emitted again) and no item works without one.
ClaimsOwned ==
  /\ \A u \in Uids : entry[u].claimed =>
       \E i \in Items : item[i].claimed /\ Concerns(i, u)
  /\ \A i \in Items : item[i].claimed =>
       /\ item[i].status = "inflight" /\ Running(item[i].node)
       /\ Concerns(i, item[i].uid) /\ entry[item[i].uid].claimed
       /\ \A j \in Items : item[j].claimed /\ item[j].uid = item[i].uid => i = j

\* Every ACK is answered once: output 1 or output 2 and done() exactly when it is settled
\* (markItemSettled), whichever of flush, close and late replies got there first; and an
\* action that was carried out never ends as "no longer current".
OneOutput ==
  \A i \in Items :
    /\ item[i].outputs = (IF Settled(i) THEN 1 ELSE 0)
    /\ Settled(i) <=> item[i].result \in {"ok", "error"}

\* A message generation is acknowledged at most once, however often and through however
\* many nodes the flow sends its token.
AcknowledgedOnce ==
  \A i, j \in Items :
    item[i].result = "ok" /\ item[j].result = "ok"
      /\ item[i].uid = item[j].uid /\ item[i].gen = item[j].gen => i = j

\* An open node with queued ACKs has a timer or a running flush, which re-arms it.
NothingForgotten ==
  \A n \in Nodes :
    node[n].close = "open" /\ node[n].pending # <<>> => node[n].timer \/ Running(n)

\* done() of the close handler is called only when every ACK the node took is settled.
CloseComplete ==
  \A n \in Nodes : node[n].close = "finalized" =>
    node[n].pending = <<>> /\ \A i \in Items : item[i].node = n => ~Unsettled(i)

\* A claimed entry goes away only because its ACK is reported successful in that step:
\* a failed, aborted or lost action leaves it in flight for a retry.
EntryKeptUntilOk ==
  [][\A u \in Uids : entry[u].claimed /\ entry'[u].gen # entry[u].gen =>
       \E i \in Items : Concerns(i, u) /\ ~Settled(i) /\ item'[i].result = "ok"]_vars

\* A node that is done closing sends no further IMAP action: the flush that comes back
\* from an await after finishCloseNow stops before the next chunk.
NoActionAfterClose ==
  [][\A n \in Nodes : node[n].close = "finalized" /\ node'[n].at = "action" =>
       node[n].at = "action" /\ node'[n].todo = node[n].todo]_vars

\* Under LiveSpec every ACK a node takes is answered, also when the node is closed while the
\* flush hangs in a command that is never answered.
EveryAckSettles == \A i \in Items : Unsettled(i) ~> Settled(i)
=============================================================================
