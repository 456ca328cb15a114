---------------------------- MODULE ImapEmailIn -----------------------------
(***************************************************************************)
(* nodes/imap-email-in.js: "imap-email in" nodes that read one mailbox.  A *)
(* trigger starts one fetch cycle: read bounded windows of the mailbox,    *)
(* expunge what is flagged \Deleted, fetch and send the candidates, move   *)
(* the cursors.  ACKs, other clients, lost connections and Node-RED's      *)
(* close interleave with it.                                               *)
(*                                                                         *)
(* An action is the code from one await to the next.  A window's FETCH is  *)
(* one action, client.download and the parser are one, and deleteUidRange  *)
(* is one per chunk (AckActions has its steps).  The registry is the set   *)
(* of messages that are actively in flight; InflightRegistry has its       *)
(* entries, tokens and guards.  The server always reports UIDNEXT.         *)
(***************************************************************************)
EXTENDS Integers, Sequences, FiniteSets

CONSTANTS
  Nodes,              \* input nodes on one account and mailbox
  BatchSize, FrontWindowSize, MaxInflight, MaxUidPerCommand,
  ExpungeLimit,       \* expungeDeletedFrontLimit, 0: no expunge (or no UIDPLUS)
  SingleWindow,       \* scanTimeLimitMs = 0
  MayClose,           \* nodes that Node-RED closes in this instance
  Effects,            \* what ACKs and other clients do to a message
  \* bounds of the model
  MaxUid, MaxValidity, MaxErrors, MaxChanges

ASSUME LimitAssumption ==
  /\ {BatchSize, FrontWindowSize, MaxInflight, MaxUidPerCommand} \subseteq Nat \ {0}
  /\ ExpungeLimit \in Nat /\ SingleWindow \in BOOLEAN /\ MayClose \subseteq Nodes
ASSUME EffectAssumption == Effects \subseteq {"absent", "unwanted", "deleted"}
ASSUME BoundAssumption ==
  MaxUid \in Nat /\ MaxValidity \in Nat \ {0} /\ MaxErrors \in Nat /\ MaxChanges \in Nat

VARIABLES
  mailbox,   \* server: UIDVALIDITY, UIDNEXT and what the node's filters say of each UID
  active,    \* registry: messages <<uidValidity, uid>> that are actively in flight
  node,      \* input nodes: cursors, close and the running cycle
  errors, changes  \* IMAP errors and outside events so far

vars == <<mailbox, active, node, errors, changes>>

Uid == 1..MaxUid
Max2(a, b) == IF a < b THEN b ELSE a
Min2(a, b) == IF a < b THEN a ELSE b
MinOf(S) == CHOOSE u \in S : \A v \in S : u <= v

\* "wanted" matches the flag selections; "deleted" is \Deleted under deletedSelection
\* "exclude"; "unwanted" is filtered out for another flag.
Mailbox == [validity : 1..MaxValidity, next : 1..(MaxUid + 1),
            state : [Uid -> {"absent", "wanted", "unwanted", "deleted"}]]

Present == {u \in Uid : mailbox.state[u] # "absent"}
SeqNo(u) == Cardinality({v \in Present : v <= u})
Is(kind) == {u \in Uid : mailbox.state[u] = kind}

\* The k smallest elements of S, in the order the server lists them.
Smallest(S, k) == {u \in S : Cardinality({v \in S : v < u}) < k}

\* scan, validity, newUid: scanCursor, scanUidValidity, newUidCursor (0: null).
\* at: the await the cycle stands at; how: how the last cycle's work ended.
\* cands: candidates with their candidateRetryCursors; over: unselected candidates.
\* purge: UIDs expungeDeletedUids still has to delete; late: deletedSeenDuringFetch.
IdleNode == [scan |-> 1, validity |-> 0, newUid |-> 0, close |-> "open",
             at |-> "idle", limit |-> 0, session |-> 0, exists |-> 0, next |-> 0,
             kind |-> "cursor", first |-> 0, last |-> 0, newEnd |-> 0, seen |-> 0,
             cands |-> <<>>, over |-> {}, deleted |-> {}, purge |-> {}, late |-> {},
             expunged |-> 0, after |-> 0, retryScan |-> 0, retryNew |-> 0,
             fresh |-> FALSE, startScan |-> 0, startNew |-> 0, closeScan |-> 0,
             closeNew |-> 0, pos |-> 0, stale |-> FALSE, how |-> "none"]

Running(n) == node[n].at # "idle"
InFlight(s, u) == <<s.session, u>> \in active
Known(s) == s.over \union {s.cands[i].uid : i \in 1..Len(s.cands)}
Full(s) == Len(s.cands) >= s.limit

-----------------------------------------------------------------------------
(* The synchronous parts of runFetchCycle, as functions of the node `s`.   *)

\* Mutant of WithValidity: the cursors of the old mailbox are kept.
WithValidity_Kept(s) == [s EXCEPT !.validity = s.session]

\* ensureScanUidValidity
WithValidity(s) ==
  IF s.validity \in {0, s.session} THEN [s EXCEPT !.validity = s.session]
  ELSE [s EXCEPT !.validity = s.session, !.scan = 1, !.newUid = 0]

\* Mutant of CursorWindow: a cursor beyond the end of the mailbox is not reset.
CursorWindow_Beyond(s, kind, size) ==
  [s EXCEPT !.at = "window", !.kind = kind, !.first = s.scan,
     !.last = Min2(s.exists, s.scan + size - 1), !.retryScan = IF @ = 0 THEN s.scan ELSE @]

\* prepareScanWindow and the start of readCursorWindow
CursorWindow(s, kind, size) ==
  LET start == IF s.scan > s.exists THEN 1 ELSE s.scan
  IN  [s EXCEPT !.at = "window", !.kind = kind, !.scan = start, !.first = start,
         !.last = Min2(s.exists, start + size - 1),
         !.retryScan = IF @ = 0 THEN start ELSE @]

\* One chunk of readNewUidWindow.
NewUidChunk(s, start, end) ==
  [s EXCEPT !.at = "window", !.kind = "new", !.first = start, !.newEnd = end,
     !.last = Min2(end, start + MaxUidPerCommand - 1)]

\* splitPriorityWindowSizes
NewWindowSize == Max2(1, (FrontWindowSize + 1) \div 2)
BacklogWindowSize == Max2(1, FrontWindowSize - NewWindowSize)

\* Mutant of NoteCandidateRollback: the candidate's retry cursors are not noted.
NoteCandidateRollback_Never(s, i) == [s EXCEPT !.at = "fetch", !.pos = i]

\* noteCandidateRollback for candidate i, whose fetchOne is sent next.
NoteCandidateRollback(s, i) ==
  LET c == s.cands[i]
  IN  [s EXCEPT !.at = "fetch", !.pos = i, !.retryScan = c.scan, !.retryNew = c.new,
         !.closeScan = IF c.scan # 0 THEN c.scan ELSE @,
         !.closeNew = IF c.new # 0 THEN c.new ELSE @]

\* The cursors after the candidate loop: moved back to the retry cursors if the cycle
\* was interrupted or messages were expunged.
EndCycle(s, how) ==
  LET back == s.retryScan # 0 /\ (how = "interrupted" \/ s.expunged > 0)
  IN  [s EXCEPT !.at = "logout", !.how = how,
         !.scan = IF back THEN s.retryScan ELSE s.after,
         !.newUid = IF how = "interrupted" /\ s.retryNew # 0 THEN s.retryNew
                    ELSE IF back /\ s.fresh THEN 0 ELSE @,
         !.validity = s.session]

\* Mutant of Purgeable: what is in flight is expunged, too.
Purgeable_All(s, S) == S

\* expungeDeletedUids leaves out what is in flight when it starts.
Purgeable(s, S) == {u \in S : ~InFlight(s, u)}

\* What follows candidate i - 1: the next one, the expunge of what was seen flagged, the end.
NextCandidate(s, i) ==
  IF i <= Len(s.cands) THEN NoteCandidateRollback(s, i)
  ELSE IF Purgeable(s, s.late) # {}
    THEN [s EXCEPT !.at = "expunge", !.pos = i, !.purge = Purgeable(s, s.late)]
  ELSE EndCycle(s, "done")

\* The windows are read: expunge, then the candidates.
ReadingDone(s) ==
  IF Purgeable(s, s.deleted) # {}
    THEN [s EXCEPT !.at = "expunge", !.purge = Purgeable(s, s.deleted)]
  ELSE NextCandidate(s, 1)

\* Mutant of FirstWindow: without new UIDs nothing is read.
FirstWindow_NewOnly(s) ==
  IF s.newUid = 0 THEN CursorWindow(s, "cursor", FrontWindowSize)
  ELSE IF s.newUid < s.next
    THEN NewUidChunk(s, s.newUid, Min2(s.next - 1, s.newUid + NewWindowSize - 1))
  ELSE ReadingDone(s)

\* readAdaptiveWindows up to its first FETCH.
FirstWindow(s) ==
  LET known == [s EXCEPT !.newUid = Min2(@, s.next)]
  IN  IF s.newUid = 0 THEN CursorWindow(s, "cursor", FrontWindowSize)
      ELSE IF known.newUid < s.next
        THEN NewUidChunk(known, known.newUid,
               Min2(s.next - 1, known.newUid + NewWindowSize - 1))
      ELSE CursorWindow(known, "backlog", BacklogWindowSize)

\* readCandidateWindow: what the FETCH of the window shows.
WindowUids(s) ==
  IF s.kind = "new" THEN {u \in Present : u \in s.first..s.last}
  ELSE {u \in Present : SeqNo(u) \in s.first..s.last}

ReadCandidateWindow(s) ==
  LET inWindow == WindowUids(s)
      eligible == {u \in inWindow \ Known(s) : u \in Is("wanted") /\ ~InFlight(s, u)}
      chosen   == Smallest(eligible, s.limit - Len(s.cands))
      entry(u) == [uid |-> u, scan |-> IF s.kind = "new" THEN 0 ELSE s.first,
                   new |-> IF s.kind = "new" THEN u ELSE 0]
      nth(i)   == CHOOSE u \in chosen : Cardinality({v \in chosen : v <= u}) = i
  IN  [s EXCEPT
         !.cands = @ \o [i \in 1..Cardinality(chosen) |-> entry(nth(i))],
         !.over = @ \union (eligible \ chosen),
         !.deleted = @ \union Smallest((inWindow \intersect Is("deleted")) \ @,
                                       ExpungeLimit - Cardinality(@)),
         !.seen = IF s.kind = "new" THEN @ + Cardinality(inWindow) ELSE @]

\* Mutant of MoveScanCursor: the cursor leaves an overflowing window.
MoveScanCursor_Always(s, overflow) ==
  LET next == IF s.last >= s.exists THEN 1 ELSE s.last + 1
  IN  [s EXCEPT !.scan = next, !.after = next]

\* The rest of readCursorWindow: hold the cursor at an overflowing window.
MoveScanCursor(s, overflow) ==
  LET next == IF s.last >= s.exists THEN 1 ELSE s.last + 1
      scan == IF overflow THEN s.first ELSE next
  IN  [s EXCEPT !.scan = scan, !.after = scan]

\* The rest of readNewUidWindow, and the backlog window unless the new UIDs cover the mailbox.
AfterNewUids(s, missed) ==
  LET newUid  == IF missed # {} THEN MinOf(missed) ELSE s.last + 1
      covered == missed = {} /\ s.last + 1 >= s.next /\ s.seen >= s.exists
      here    == [s EXCEPT !.newUid = newUid]
  IN  IF covered /\ s.scan > s.exists
        THEN ReadingDone([here EXCEPT !.scan = 1, !.after = 1])
      ELSE IF Full(s) \/ covered THEN ReadingDone(here)
      ELSE CursorWindow(here, "backlog", BacklogWindowSize)

\* Mutant of AfterWindow: the cursor-window phase goes on at the end of the mailbox.
AfterWindow_Wrapped(s, missed, timeout) ==
  LET moved == MoveScanCursor(s, missed # {})
  IN  CASE s.kind = "backlog" -> ReadingDone(moved)
        [] s.kind = "new" -> AfterNewUids(s, missed)
        [] s.kind = "cursor" ->
             IF timeout \/ Full(s) THEN ReadingDone(moved)
             ELSE CursorWindow(moved, "cursor", FrontWindowSize)

\* What the cycle does after the window `s` read (missed: its unselected candidates);
\* the scan time limit may stop the cursor-window phase (timeout).
AfterWindow(s, missed, timeout) ==
  LET moved == MoveScanCursor(s, missed # {})
  IN  CASE s.kind = "backlog" -> ReadingDone(moved)
        [] s.kind = "new" ->
             IF missed = {} /\ s.last < s.newEnd /\ ~Full(s)
               THEN NewUidChunk(s, s.last + 1, s.newEnd) ELSE AfterNewUids(s, missed)
        [] s.kind = "cursor" ->
             IF missed # {} THEN ReadingDone(moved)
             ELSE IF s.last >= s.exists
               THEN ReadingDone([moved EXCEPT !.newUid = s.next, !.fresh = TRUE])
             ELSE IF timeout \/ Full(s) THEN ReadingDone(moved)
             ELSE CursorWindow(moved, "cursor", FrontWindowSize)

\* runFetchCycle's finally once the logout is over; done() of a close that waits for it.
Finished(s) ==
  [IdleNode EXCEPT !.scan = s.scan, !.validity = s.validity, !.newUid = s.newUid,
     !.close = IF s.close = "closing" THEN "finalized" ELSE s.close]

\* The outer catch: the cursors stay where they are.
Thrown(s) == [s EXCEPT !.at = "logout", !.how = "thrown"]

\* The outer catch of a closing node: applyCloseRollback; no logout.
CloseAbort(s) ==
  Finished([s EXCEPT !.scan = IF s.closeScan # 0 THEN s.closeScan ELSE s.startScan,
                     !.newUid = IF s.closeNew # 0 THEN s.closeNew ELSE s.startNew])

-----------------------------------------------------------------------------
Init ==
  /\ mailbox \in [validity : {1}, next : 1..(MaxUid + 1),
                  state : [Uid -> {"absent", "wanted", "unwanted", "deleted"}]]
  /\ \A u \in Uid : mailbox.state[u] # "absent" => u < mailbox.next
  /\ active = {}
  /\ node = [n \in Nodes |-> IdleNode]
  /\ errors = 0 /\ changes = 0

\* A step of the cycle of node n that leaves server and registry alone.
Step(n, s) ==
  /\ node' = [node EXCEPT ![n] = s]
  /\ UNCHANGED <<mailbox, active, errors, changes>>

\* An IMAP command fails.
Fails == errors < MaxErrors /\ errors' = errors + 1 /\ UNCHANGED changes
Succeeds == UNCHANGED <<errors, changes>>

Closing(n) == node[n].close # "open"

\* Mutant of CandidateLimit: the batch size alone.
CandidateLimit_Batch(free) == BatchSize

\* candidateLimit
CandidateLimit(free) == Min2(BatchSize, free)

\* on("input"): no cycle is running and the registry has room for a message.
Trigger(n) ==
  LET free == MaxInflight - Cardinality(active)
  IN  /\ ~Running(n) /\ ~Closing(n) /\ free > 0
      /\ Step(n, [node[n] EXCEPT !.at = "connect", !.limit = CandidateLimit(free),
                    !.startScan = node[n].scan, !.startNew = node[n].newUid])

\* client.connect()
ConnectReply(n) ==
  /\ node[n].at = "connect" /\ ~Closing(n)
  /\ \/ Step(n, [node[n] EXCEPT !.at = "lock"])
     \/ /\ Fails /\ node' = [node EXCEPT ![n] = Thrown(node[n])]
        /\ UNCHANGED <<mailbox, active>>

\* The mailbox is selected (its state is the session's from here on): an empty one ends
\* the cycle, otherwise the first window is read.
Selected(s) ==
  LET here == [s EXCEPT !.session = mailbox.validity, !.next = mailbox.next,
                        !.exists = Cardinality(Present), !.after = s.scan]
  IN  IF here.exists = 0
        THEN [here EXCEPT !.at = "logout", !.how = "done", !.scan = 1,
                          !.validity = here.session, !.newUid = here.next]
      ELSE FirstWindow(WithValidity(here))

\* client.getMailboxLock()
LockReply(n) ==
  /\ node[n].at = "lock" /\ ~Closing(n)
  /\ \/ Step(n, Selected(node[n]))
     \/ /\ Fails /\ node' = [node EXCEPT ![n] = Thrown(node[n])]
        /\ UNCHANGED <<mailbox, active>>

\* The FETCH of a window has been streamed, or failed.
WindowReply(n) ==
  LET read   == ReadCandidateWindow(node[n])
      missed == read.over \ node[n].over
  IN  /\ node[n].at = "window" /\ ~Closing(n)
      /\ \/ \E timeout \in {SingleWindow, TRUE} : Step(n, AfterWindow(read, missed, timeout))
         \/ /\ Fails /\ node' = [node EXCEPT ![n] = Thrown(node[n])]
            /\ UNCHANGED <<mailbox, active>>

\* deleteUidRange for the next chunk of expungeDeletedUids: confirmed; refused before
\* anything was deleted; or failed on the way, which ends the cycle.
Deleted(S) == mailbox' = [mailbox EXCEPT !.state =
                            [u \in Uid |-> IF u \in S THEN "absent" ELSE @[u]]]

AfterChunk(s, chunk) ==
  LET left == [s EXCEPT !.purge = @ \ chunk]
  IN  IF left.purge # {} THEN left
      ELSE IF s.pos = 0 THEN NextCandidate(left, 1) ELSE EndCycle(left, "done")

ExpungeReply(n) ==
  LET s     == node[n]
      chunk == Smallest(s.purge, MaxUidPerCommand)
  IN  /\ s.at = "expunge" /\ ~Closing(n)
      /\ UNCHANGED active
      /\ \/ /\ Deleted(chunk) /\ Succeeds
            /\ node' = [node EXCEPT ![n] =
                          AfterChunk([s EXCEPT !.expunged = @ + Cardinality(chunk)], chunk)]
         \/ /\ Fails /\ UNCHANGED mailbox
            /\ node' = [node EXCEPT ![n] = AfterChunk(s, chunk)]
         \/ /\ Fails /\ \E S \in SUBSET chunk : Deleted(S)
            /\ node' = [node EXCEPT ![n] = Thrown(s)]

\* rememberDeletedDuringFetch
RememberDeleted(s, u) ==
  IF s.expunged + Cardinality(s.late) >= ExpungeLimit THEN s
  ELSE [s EXCEPT !.late = @ \union {u}]

\* client.fetchOne(): the message with its flags of now (and its ACK token is built);
\* gone; or an error, which ends the candidate loop if it is transient and the cycle if not.
FetchReply(n) ==
  LET s == node[n]
      u == s.cands[s.pos].uid
  IN  /\ s.at = "fetch" /\ ~Closing(n)
      /\ \/ /\ u \in Is("wanted")
            /\ Step(n, [s EXCEPT !.at = "content", !.stale = FALSE])
         \/ /\ u \in Is("deleted")
            /\ Step(n, NextCandidate(RememberDeleted(s, u), s.pos + 1))
         \/ /\ u \in Is("unwanted") \union Is("absent")
            /\ Step(n, NextCandidate(s, s.pos + 1))
         \/ /\ Fails /\ UNCHANGED <<mailbox, active>>
            /\ \E next \in {EndCycle(s, "interrupted"), Thrown(s)} :
                 node' = [node EXCEPT ![n] = next]

\* markInflightForFetch: suppressed while the message is in flight, or when an ACK has
\* completed it since the token was built.
MarkInflight(s, u) ==
  IF s.stale THEN active ELSE active \union {<<s.session, u>>}

\* client.download() and parseMailStream(): the message, or what is wrong with it (too
\* large, no source, not parseable), is sent; a transient error also ends the loop.
ContentReply(n) ==
  LET s == node[n]
  IN  /\ s.at = "content" /\ ~Closing(n)
      /\ active' = MarkInflight(s, s.cands[s.pos].uid)
      /\ UNCHANGED mailbox
      /\ \/ /\ Succeeds
            /\ node' = [node EXCEPT ![n] = NextCandidate(s, s.pos + 1)]
         \/ /\ Fails
            /\ node' = [node EXCEPT ![n] = EndCycle(s, "interrupted")]

\* safeLogout; also what is pending when a closing node's client was closed.
LogoutReply(n) ==
  /\ node[n].at = "logout"
  /\ Step(n, Finished(node[n]))

\* An await of a closing node ends, with whatever result.  In the candidate loop the code
\* breaks out of it, elsewhere the close error is thrown.  A DELETE on the wire may have
\* been carried out.
AbortedReply(n) ==
  LET s     == node[n]
      chunk == Smallest(s.purge, MaxUidPerCommand)
  IN  /\ Closing(n) /\ s.at \notin {"idle", "logout"}
      /\ node' = [node EXCEPT ![n] =
           IF s.at \in {"fetch", "content"} THEN Finished(EndCycle(s, "interrupted"))
           ELSE CloseAbort(s)]
      /\ \E S \in SUBSET (IF s.at = "expunge" THEN chunk ELSE {}) : Deleted(S)
      /\ UNCHANGED <<active, errors, changes>>

\* on("close"): abortActiveWork closes the client; done() waits for a running cycle.
Close(n) ==
  /\ n \in MayClose /\ ~Closing(n)
  /\ Step(n, [node[n] EXCEPT !.close = IF Running(n) THEN "closing" ELSE "finalized"])

\* The close deadline: done() is called although the cycle still hangs.
Deadline(n) ==
  /\ node[n].close = "closing"
  /\ Step(n, [node[n] EXCEPT !.close = "finalized"])

-----------------------------------------------------------------------------
(* The environment.                                                        *)

Outside == changes < MaxChanges /\ changes' = changes + 1 /\ UNCHANGED errors

\* The server delivers a message.
Deliver ==
  /\ mailbox.next <= MaxUid
  /\ \E kind \in {"wanted", "unwanted"} :
       mailbox' = [mailbox EXCEPT !.next = @ + 1, !.state[mailbox.next] = kind]
  /\ UNCHANGED <<active, node, errors, changes>>

\* An ACK node completes a message in flight: the action takes effect if the message is
\* still there, and tokens for it built before are no longer good for a mark.
Ack(m) ==
  /\ m \in active
  /\ active' = active \ {m}
  /\ node' = [n \in Nodes |->
       IF node[n].at = "content" /\ m = <<node[n].session, node[n].cands[node[n].pos].uid>>
         THEN [node[n] EXCEPT !.stale = TRUE] ELSE node[n]]
  /\ IF m[1] = mailbox.validity /\ m[2] \in Present
       THEN \E kind \in Effects : mailbox' = [mailbox EXCEPT !.state[m[2]] = kind]
       ELSE UNCHANGED mailbox
  /\ UNCHANGED <<errors, changes>>

\* retryAfterMs passes without an ACK.
Expire(m) ==
  /\ m \in active /\ Outside
  /\ active' = active \ {m}
  /\ UNCHANGED <<mailbox, node>>

\* Another client flags or removes a message.
OtherClient(u) ==
  /\ u \in Present /\ Outside
  /\ \E kind \in Effects : mailbox' = [mailbox EXCEPT !.state[u] = kind]
  /\ UNCHANGED <<active, node>>

\* The mailbox is recreated while no session has it selected.
Recreate ==
  /\ mailbox.validity < MaxValidity
  /\ \A n \in Nodes : node[n].at \in {"idle", "connect", "lock", "logout"}
  /\ \E next \in 1..(MaxUid + 1) :
       mailbox' = [validity |-> mailbox.validity + 1, next |-> next,
                   state |-> [u \in Uid |-> IF u < next THEN "wanted" ELSE "absent"]]
  /\ UNCHANGED <<active, node, errors, changes>>

Reply(n) ==
  ConnectReply(n) \/ LockReply(n) \/ WindowReply(n) \/ ExpungeReply(n) \/ FetchReply(n)
    \/ ContentReply(n) \/ LogoutReply(n) \/ AbortedReply(n)

Messages == (1..MaxValidity) \X Uid

Next ==
  \/ \E n \in Nodes :
       \/ Trigger(n) \/ ConnectReply(n) \/ LockReply(n) \/ WindowReply(n) \/ ExpungeReply(n)
       \/ FetchReply(n) \/ ContentReply(n) \/ LogoutReply(n) \/ AbortedReply(n)
       \/ Close(n) \/ Deadline(n)
  \/ \E m \in Messages : Ack(m) \/ Expire(m)
  \/ \E u \in Uid : OtherClient(u)
  \/ Deliver \/ Recreate

Spec == Init /\ [][Next]_vars

\* The flow goes on triggering the node and ACKs what it gets, timers fire, and while a
\* node is open every IMAP command ends; of a closing node nothing is assumed.
LiveSpec ==
  /\ Spec
  /\ \A n \in Nodes :
       /\ WF_vars(Trigger(n)) /\ WF_vars(Deadline(n))
       /\ WF_vars(~Closing(n) /\ Reply(n))
  /\ WF_vars(\E m \in Messages : Ack(m))

-----------------------------------------------------------------------------
(* Correctness.                                                            *)

\* The state has the shape the code gives it; the cursors are always usable positions and
\* a cycle at a window or candidate has one.
TypeOK ==
  /\ mailbox \in Mailbox
  /\ active \subseteq Messages
  /\ errors \in 0..MaxErrors /\ changes \in 0..MaxChanges
  /\ \A n \in Nodes :
       /\ node[n].scan \in 1..(MaxUid + 1) /\ node[n].newUid \in 0..(MaxUid + 1)
       /\ node[n].validity \in 0..MaxValidity
       /\ node[n].close \in {"open", "closing", "finalized"}
       /\ node[n].at = "window" => node[n].first \in 1..node[n].last
       /\ node[n].at = "expunge" => node[n].purge # {}
       /\ node[n].at \in {"fetch", "content"} => node[n].pos \in 1..Len(node[n].cands)
       /\ Len(node[n].cands) <= node[n].limit

\* maxInflight: the node's candidates never add up to more messages in flight than the
\* node allows, however ACKs, expiries and failures fall between the count and the marks.
InflightBounded == Cardinality(active) <= MaxInflight

\* The scan cursor has not passed the message: the next cycles read it before they wrap
\* (a cursor beyond the end of the mailbox starts over).
BeforeScan(s, u) == SeqNo(u) >= s.scan \/ s.scan > Cardinality(Present)

\* The cursor that found the candidate has not passed it.
Ahead(s, c) ==
  c.uid \in Present => IF c.new # 0 THEN s.newUid \in 1..c.uid ELSE BeforeScan(s, c.uid)

EndsAs(n, how) == node[n].how = "none" /\ node'[n].how = how

\* A candidate whose fetch is interrupted by a lost connection is found again: the cursor
\* that found it is moved back.  A cycle that expunged messages has renumbered the mailbox
\* under that cursor.
FailedCandidateAhead ==
  [][\A n \in Nodes : EndsAs(n, "interrupted") /\ node'[n].expunged = 0 =>
       Ahead(node[n], node[n].cands[node[n].pos])']_vars

\* A close that cuts a cycle off takes its reading back: before the first candidate the
\* cursors are those of the cycle's start again, whatever windows were read; at a candidate
\* the one in work is found again (unless the cycle renumbered the mailbox).
CloseSetsBack ==
  [][\A n \in Nodes :
       LET s == node[n]
       IN  s.close = "closing" /\ s.at \notin {"idle", "logout"} /\ node'[n].at = "idle" =>
             /\ s.pos = 0 => /\ node'[n].scan = s.startScan
                            /\ node'[n].newUid = s.startNew
             /\ s.at \in {"fetch", "content"} /\ s.expunged = 0 =>
                  Ahead(node'[n], s.cands[s.pos])]_vars

\* Both cursors, which count in this mailbox, have passed the message.
Behind(s, u) ==
  s.validity = mailbox.validity /\ ~BeforeScan(s, u) /\ s.newUid \notin 1..u

\* The windows leave no message out: while they are read, both cursors pass a wanted message
\* that is not in flight only after a window has shown it to this cycle, also when the
\* mailbox was recreated and its UIDs and sequence numbers start anew.
PassedOnlyWhenRead ==
  [][\A n \in Nodes, u \in Uid :
       /\ node[n].at \in {"lock", "window"} /\ ~Closing(n) /\ UNCHANGED mailbox
       /\ u \in Is("wanted") /\ <<mailbox.validity, u>> \notin active
       /\ ~Behind(node[n], u) /\ Behind(node[n], u)'
       => u \in Known(node[n])']_vars

\* The candidates that did not fit into the batch are not passed by both cursors of s.
Held(s) ==
  \A u \in s.over \intersect Present : BeforeScan(s, u) \/ s.newUid \in 1..u

\* After a cycle that expunged nothing.
OverflowHeld ==
  [][\A n \in Nodes, how \in {"done", "interrupted"} :
       EndsAs(n, how) /\ node'[n].expunged = 0 => Held(node[n])']_vars

\* After every cycle.
OverflowAhead ==
  [][\A n \in Nodes, how \in {"done", "interrupted"} : EndsAs(n, how) => Held(node[n])']_vars

\* After a lost connection all candidates that were not fetched any more are found again.
InterruptedAhead ==
  [][\A n \in Nodes : EndsAs(n, "interrupted") =>
       (\A i \in node[n].pos..Len(node[n].cands) : Ahead(node[n], node[n].cands[i]))']_vars

\* The expunge of flagged messages never touches one that is in flight: it could be taken
\* away under a flow that is still working on it.
PurgeSparesInflight ==
  \A n \in Nodes : node[n].at = "expunge" => \A u \in node[n].purge : ~InFlight(node[n], u)

\* Under LiveSpec every message the filters want is sent, however the windows move, as long
\* as it is still wanted and a node is open.
EventuallySent ==
  \A v \in 1..MaxValidity, u \in Uid :
    mailbox.validity = v /\ u \in Is("wanted")
      ~> \/ <<v, u>> \in active \/ mailbox.validity # v \/ u \notin Is("wanted")
         \/ \A n \in Nodes : node[n].close # "open"

\* Under LiveSpec every cycle ends, reading windows does not go round for ever; unless the
\* node is closed under it.
CycleEnds == \A n \in Nodes : Running(n) ~> ~Running(n) \/ Closing(n)
=============================================================================
