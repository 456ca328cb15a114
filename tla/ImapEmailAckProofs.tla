-------------------------- MODULE ImapEmailAckProofs --------------------------
(* Theorems about ImapEmailAck, for any number of nodes, messages and ACKs. *)
EXTENDS ImapEmailAck, SequenceTheorems, TLAPS

-----------------------------------------------------------------------------
(* The inductive invariant.                                                *)

InQueue(i, n) == \E p \in 1..Len(node[n].pending) : node[n].pending[p] = i

\* node.pending holds exactly the pending ACKs of the node, each once.
Queues ==
  /\ \A n \in Nodes : \A p, q \in 1..Len(node[n].pending) :
       /\ item[node[n].pending[p]].node = n
       /\ item[node[n].pending[p]].status = "pending"
       /\ node[n].pending[p] = node[n].pending[q] => p = q
  /\ \A i \in Items : item[i].status = "pending" => InQueue(i, item[i].node)

InWork(i, n) == i \in node[n].todo \union node[n].later

\* The ACKs in flight are those with a claim, and a running flush will come to each.
Work ==
  /\ \A i \in Items : item[i].claimed <=> item[i].status = "inflight"
  /\ \A i \in Items : item[i].status = "inflight" => InWork(i, item[i].node)
  /\ \A n \in Nodes, i \in Items : InWork(i, n) =>
       item[i].node = n /\ item[i].status \in {"inflight", "settled"}

\* What a node may still do is over when it is closed.
Closing ==
  \A n \in Nodes :
    /\ node[n].at = "logout" => node[n].todo = {}
    /\ node[n].timer => node[n].close = "open"
    /\ node[n].close = "open" /\ node[n].pending # <<>> => node[n].timer \/ node[n].at # "idle"
    /\ node[n].close = "finalized" =>
         node[n].pending = <<>> /\ \A i \in Items : item[i].node = n => item[i].status # "inflight"

Claims ==
  /\ \A u \in Uids : entry[u].claimed =>
       \E i \in Items : item[i].claimed /\ Concerns(i, u)
  /\ \A i \in Items : item[i].claimed => Concerns(i, item[i].uid) /\ entry[item[i].uid].claimed
  /\ \A i, j \in Items : item[i].claimed /\ item[j].claimed /\ item[i].uid = item[j].uid => i = j

\* An acknowledged generation is a past one.
History ==
  /\ \A u \in Uids : entry[u].gen <= issued[u]
  /\ \A i \in Items : item[i].gen # 0
  /\ \A i \in Items : item[i].status # "unsent" => item[i].gen <= issued[item[i].uid]
  /\ \A i \in Items : item[i].result = "ok" =>
       item[i].gen <= issued[item[i].uid] /\ item[i].gen # entry[item[i].uid].gen

\* What every step respects.
EntryKept ==
  \A u \in Uids : entry[u].claimed /\ entry'[u].gen # entry[u].gen =>
    \E i \in Items : Concerns(i, u) /\ ~Settled(i) /\ item'[i].result = "ok"

NoLateAction ==
  \A n \in Nodes : node[n].close = "finalized" /\ node'[n].at = "action" =>
    node[n].at = "action" /\ node'[n].todo = node[n].todo

IInv == TypeOK /\ Queues /\ Work /\ Closing /\ Claims /\ OneOutput /\ History /\ AcknowledgedOnce

-----------------------------------------------------------------------------
(* What a run of the event loop does to the items and entries.             *)

\* ACKs that come in and stay in a queue.
Queued == {i \in Items : item[i].status = "unsent" /\ i \in Elements(node'[item[i].node].pending)}

\* The sets a run of the event loop hands to Report.
Sound(C, D, F) ==
  /\ C \subseteq Items /\ D \subseteq Items /\ F \subseteq Items
  /\ D \intersect F = {} /\ C \intersect F = {} /\ Queued \intersect (C \union D \union F) = {}
  /\ \A i \in C : /\ item[i].status \in {"unsent", "pending"} /\ item[i].gen <= issued[item[i].uid]
                  /\ Concerns(i, item[i].uid) /\ ~entry[item[i].uid].claimed
  /\ \A i, j \in C : item[i].uid = item[j].uid => i = j
  /\ \A i \in F \union Queued : item[i].gen <= issued[item[i].uid]
  /\ \A i \in D : i \in C \/ item[i].claimed \/ Settled(i)

SettledItem(r, result) ==
  [status |-> "settled", node |-> r.node, uid |-> r.uid, gen |-> r.gen, plan |-> r.plan,
   claimed |-> FALSE, result |-> result, outputs |-> r.outputs + 1]

LEMMA SettledItemType ==
  ASSUME NEW r \in Item, NEW v \in {"ok", "error"}
  PROVE  SettledItem(r, v) \in Item
  BY DEF Item, SettledItem

LEMMA SettledItemValue ==
  ASSUME NEW r \in Item, NEW v \in {"ok", "error"}, NEW s,
         s = [r EXCEPT !.status = "settled", !.claimed = FALSE, !.outputs = @ + 1, !.result = v]
  PROVE  s = SettledItem(r, v)
<1>1. s = [status |-> "settled", node |-> r.node, uid |-> r.uid, gen |-> r.gen, plan |-> r.plan,
           claimed |-> FALSE, result |-> v, outputs |-> r.outputs + 1]
  BY DEF Item
<1> QED
  BY <1>1 DEF SettledItem

LEMMA CompletedOk ==
  ASSUME TypeOK, Work, Claims, NEW C, NEW D, NEW F, Sound(C, D, F), NEW i \in D, ~Settled(i)
  PROVE  Completable(i, C) /\ Concerns(i, item[i].uid)
<1>1. i \in Items /\ item[i].uid \in Uids
  BY DEF Sound, TypeOK, Item
<1>2. CASE i \in C
  BY <1>1, <1>2 DEF Sound, Completable, Concerns
<1>3. CASE item[i].claimed
  BY <1>1, <1>3 DEF Claims, Completable, Concerns
<1> QED
  BY <1>2, <1>3 DEF Sound

\* The items after Report, field by field.
LEMMA ReportItems ==
  ASSUME TypeOK, Work, Claims, NEW C, NEW D, NEW F, Sound(C, D, F), Report(C, D, F)
  PROVE  /\ item' \in [Items -> Item]
         /\ \A i \in Items :
              /\ item'[i].node = item[i].node /\ item'[i].uid = item[i].uid
              /\ item'[i].gen = item[i].gen /\ item'[i].plan = item[i].plan
              /\ item'[i].status = IF i \in Queued THEN "pending"
                                   ELSE IF Settled(i) \/ i \in D \union F THEN "settled"
                                   ELSE IF i \in C THEN "inflight" ELSE item[i].status
              /\ (item'[i].claimed <=> (i \in C /\ i \notin D) \/ (item[i].claimed /\ i \notin D \union F))
              /\ item'[i].outputs = IF ~Settled(i) /\ i \in D \union F THEN item[i].outputs + 1
                                    ELSE item[i].outputs
              /\ item'[i].result = IF ~Settled(i) /\ i \in D THEN "ok"
                                   ELSE IF ~Settled(i) /\ i \in F THEN "error" ELSE item[i].result
<1> SUFFICES ASSUME NEW i \in Items
    PROVE  /\ item'[i] \in Item
           /\ item'[i].node = item[i].node /\ item'[i].uid = item[i].uid
           /\ item'[i].gen = item[i].gen /\ item'[i].plan = item[i].plan
           /\ item'[i].status = IF i \in Queued THEN "pending"
                                ELSE IF Settled(i) \/ i \in D \union F THEN "settled"
                                ELSE IF i \in C THEN "inflight" ELSE item[i].status
           /\ (item'[i].claimed <=> (i \in C /\ i \notin D) \/ (item[i].claimed /\ i \notin D \union F))
           /\ item'[i].outputs = IF ~Settled(i) /\ i \in D \union F THEN item[i].outputs + 1
                                 ELSE item[i].outputs
           /\ item'[i].result = IF ~Settled(i) /\ i \in D THEN "ok"
                                ELSE IF ~Settled(i) /\ i \in F THEN "error" ELSE item[i].result
  BY DEF Report
<1>1. item[i] \in Item
  BY DEF TypeOK
<1>2. item'[i] = IF i \in Queued THEN [item[i] EXCEPT !.status = "pending"] ELSE Told(i, C, D, F)
  BY DEF Report, Queued
<1>3. ~Settled(i) /\ i \in D => Completable(i, C)
  BY CompletedOk
<1>4. /\ i \in Queued => i \notin C \union D \union F
      /\ i \in C => i \notin F /\ ~Settled(i)
      /\ i \in D => i \notin F
      /\ item[i].claimed => item[i].status = "inflight"
  BY DEF Sound, Settled, Work
<1>5. CASE i \in Queued
  BY <1>1, <1>2, <1>4, <1>5 DEF Item, Queued, Settled
<1>6. CASE i \notin Queued /\ Settled(i)
  BY <1>1, <1>2, <1>4, <1>6 DEF Item, Told, Settled
<1>7. CASE i \notin Queued /\ ~Settled(i) /\ i \in D
  <2>1. item'[i] = [item[i] EXCEPT !.status = "settled", !.claimed = FALSE, !.outputs = @ + 1, !.result = "ok"]
    BY <1>2, <1>3, <1>7 DEF Told
  <2>2. item'[i] = SettledItem(item[i], "ok")
    BY <1>1, <2>1, SettledItemValue
  <2>3. item'[i] \in Item
    BY <1>1, <2>2, SettledItemType
  <2> QED
    BY <1>4, <1>7, <2>2, <2>3 DEF SettledItem
<1>8. CASE i \notin Queued /\ ~Settled(i) /\ i \notin D /\ i \in F
  <2>1. item'[i] = [item[i] EXCEPT !.status = "settled", !.claimed = FALSE, !.outputs = @ + 1, !.result = "error"]
    BY <1>2, <1>8 DEF Told
  <2>2. item'[i] = SettledItem(item[i], "error")
    BY <1>1, <2>1, SettledItemValue
  <2>3. item'[i] \in Item
    BY <1>1, <2>2, SettledItemType
  <2> QED
    BY <1>4, <1>8, <2>2, <2>3 DEF SettledItem
<1>9. CASE i \notin Queued /\ ~Settled(i) /\ i \notin D /\ i \notin F
  BY <1>1, <1>2, <1>4, <1>9 DEF Item, Told
<1> QED
  BY <1>5, <1>6, <1>7, <1>8, <1>9

\* The entry of a message after Report: gone if one of its items completed, released if one failed,
\* claimed if one claimed it.
LEMMA ReportEntries ==
  ASSUME TypeOK, Work, Claims, NEW C, NEW D, NEW F, Sound(C, D, F), Report(C, D, F)
  PROVE  /\ entry' \in [Uids -> Entry]
         /\ \A u \in Uids :
              \/ /\ entry'[u] = NoEntry
                 /\ \E i \in D : ~Settled(i) /\ Concerns(i, u)
              \/ /\ entry'[u].gen = entry[u].gen /\ ~entry'[u].claimed
                 /\ ~\E i \in D : ~Settled(i) /\ Concerns(i, u)
                 /\ \E i \in F : item[i].claimed /\ Concerns(i, u)
              \/ /\ entry'[u].gen = entry[u].gen /\ entry'[u].claimed
                 /\ ~\E i \in D : ~Settled(i) /\ Concerns(i, u)
                 /\ ~\E i \in F : item[i].claimed /\ Concerns(i, u)
                 /\ \E i \in C : Concerns(i, u)
              \/ /\ entry'[u] = entry[u]
                 /\ ~\E i \in D : ~Settled(i) /\ Concerns(i, u)
                 /\ ~\E i \in F : item[i].claimed /\ Concerns(i, u)
                 /\ ~\E i \in C : Concerns(i, u)
<1> SUFFICES ASSUME NEW u \in Uids
    PROVE  /\ entry'[u] \in Entry
           /\ \/ /\ entry'[u] = NoEntry
                 /\ \E i \in D : ~Settled(i) /\ Concerns(i, u)
              \/ /\ entry'[u].gen = entry[u].gen /\ ~entry'[u].claimed
                 /\ ~\E i \in D : ~Settled(i) /\ Concerns(i, u)
                 /\ \E i \in F : item[i].claimed /\ Concerns(i, u)
              \/ /\ entry'[u].gen = entry[u].gen /\ entry'[u].claimed
                 /\ ~\E i \in D : ~Settled(i) /\ Concerns(i, u)
                 /\ ~\E i \in F : item[i].claimed /\ Concerns(i, u)
                 /\ \E i \in C : Concerns(i, u)
              \/ /\ entry'[u] = entry[u]
                 /\ ~\E i \in D : ~Settled(i) /\ Concerns(i, u)
                 /\ ~\E i \in F : item[i].claimed /\ Concerns(i, u)
                 /\ ~\E i \in C : Concerns(i, u)
  BY DEF Report
<1>0. NoEntry \in Entry
  BY LimitAssumption DEF Entry, NoEntry
<1>1. entry[u] \in Entry /\ entry'[u] = EntryAfter(u, C, D, F)
  BY DEF TypeOK, Report
<1>2. \A i \in D : ~Settled(i) => Completable(i, C)
  BY CompletedOk
<1>3. CASE \E i \in D : ~Settled(i) /\ Concerns(i, u)
  BY <1>0, <1>1, <1>2, <1>3 DEF EntryAfter
<1>4. CASE /\ ~\E i \in D : ~Settled(i) /\ Concerns(i, u)
           /\ \E i \in F : item[i].claimed /\ Concerns(i, u)
  BY <1>1, <1>4 DEF EntryAfter, Entry
<1>5. CASE /\ ~\E i \in D : ~Settled(i) /\ Concerns(i, u)
           /\ ~\E i \in F : item[i].claimed /\ Concerns(i, u)
  <2>1. entry'[u] = IF \E i \in C : Concerns(i, u) THEN [entry[u] EXCEPT !.claimed = TRUE] ELSE entry[u]
    BY <1>1, <1>5 DEF EntryAfter
  <2> QED
    BY <1>1, <1>5, <2>1 DEF Entry
<1> QED
  BY <1>3, <1>4, <1>5

\* A run of the event loop keeps claims with their owners.
LEMMA ReportClaims ==
  ASSUME TypeOK, Work, Claims, NEW C, NEW D, NEW F, Sound(C, D, F), Report(C, D, F)
  PROVE  Claims'
<1> DEFINE After(u) ==
      \/ /\ entry'[u] = NoEntry
         /\ \E i \in D : ~Settled(i) /\ Concerns(i, u)
      \/ /\ entry'[u].gen = entry[u].gen /\ ~entry'[u].claimed
         /\ ~\E i \in D : ~Settled(i) /\ Concerns(i, u)
         /\ \E i \in F : item[i].claimed /\ Concerns(i, u)
      \/ /\ entry'[u].gen = entry[u].gen /\ entry'[u].claimed
         /\ ~\E i \in D : ~Settled(i) /\ Concerns(i, u)
         /\ ~\E i \in F : item[i].claimed /\ Concerns(i, u)
         /\ \E i \in C : Concerns(i, u)
      \/ /\ entry'[u] = entry[u]
         /\ ~\E i \in D : ~Settled(i) /\ Concerns(i, u)
         /\ ~\E i \in F : item[i].claimed /\ Concerns(i, u)
         /\ ~\E i \in C : Concerns(i, u)
<1>1. \A u \in Uids : After(u)
  BY ReportEntries
<1>0. \A i \in Items : item[i].uid \in Uids
  BY DEF TypeOK, Item
<1>2. \A i \in Items : /\ item'[i].uid = item[i].uid /\ item'[i].gen = item[i].gen
                       /\ (item'[i].claimed <=> (i \in C /\ i \notin D) \/ (item[i].claimed /\ i \notin D \union F))
  BY ReportItems
<1>3. /\ C \subseteq Items /\ D \subseteq Items /\ F \subseteq Items
      /\ \A i \in C : ~Settled(i) /\ Concerns(i, item[i].uid) /\ ~entry[item[i].uid].claimed
      /\ \A i \in D : i \in C \/ item[i].claimed \/ Settled(i)
      /\ \A i \in Items : item[i].claimed => ~Settled(i)
  BY DEF Sound, Settled, Work
<1>4. ~NoEntry.claimed
  BY DEF NoEntry
<1>5. ASSUME NEW u \in Uids, entry'[u].claimed
      PROVE  \E i \in Items : item'[i].claimed /\ Concerns(i, u)'
  <2>1. CASE \E i \in C : Concerns(i, u)
    <3>1. PICK i \in C : Concerns(i, u)
      BY <2>1
    <3>2. i \notin D /\ entry'[u].gen = entry[u].gen
      BY <1>1, <1>3, <1>4, <1>5, <3>1
    <3>3. item'[i].claimed /\ Concerns(i, u)'
      BY <1>2, <1>3, <3>1, <3>2 DEF Concerns
    <3> QED
      BY <1>3, <3>3
  <2>2. CASE ~\E i \in C : Concerns(i, u)
    <3>1. /\ entry'[u] = entry[u]
          /\ ~\E i \in D : ~Settled(i) /\ Concerns(i, u)
          /\ ~\E i \in F : item[i].claimed /\ Concerns(i, u)
      BY <1>1, <1>4, <1>5, <2>2
    <3>2. PICK i \in Items : item[i].claimed /\ Concerns(i, u)
      BY <1>5, <3>1 DEF Claims
    <3>3. item'[i].claimed /\ Concerns(i, u)'
      BY <1>2, <1>3, <3>1, <3>2 DEF Concerns
    <3> QED
      BY <3>3
  <2> QED
    BY <2>1, <2>2
<1>6. ASSUME NEW i \in Items, item'[i].claimed
      PROVE  Concerns(i, item[i].uid) /\ entry'[item[i].uid].gen = entry[item[i].uid].gen /\ entry'[item[i].uid].claimed
  <2> DEFINE u == item[i].uid
  <2>1. u \in Uids /\ After(u)
    BY <1>0, <1>1
  <2>2. CASE i \in C /\ i \notin D
    <3>1. Concerns(i, u) /\ ~entry[u].claimed
      BY <1>3, <2>2
    <3>2. ~\E j \in D : ~Settled(j) /\ Concerns(j, u)
      BY <1>3, <2>2, <3>1 DEF Concerns, Claims, Sound
    <3>3. ~\E j \in F : item[j].claimed /\ Concerns(j, u)
      BY <1>3, <3>1 DEF Concerns, Claims
    <3> QED
      BY <2>1, <2>2, <3>1, <3>2, <3>3
  <2>3. CASE item[i].claimed /\ i \notin D \union F
    <3>1. Concerns(i, u) /\ entry[u].claimed
      BY <2>3 DEF Claims
    <3>2. ~\E j \in D : ~Settled(j) /\ Concerns(j, u)
      BY <1>3, <2>3, <3>1 DEF Concerns, Claims
    <3>3. ~\E j \in F : item[j].claimed /\ Concerns(j, u)
      BY <1>3, <2>3, <3>1 DEF Concerns, Claims
    <3> QED
      BY <2>1, <3>1, <3>2, <3>3
  <2> QED
    BY <1>2, <1>6, <2>2, <2>3
<1>7. ASSUME NEW i \in Items, NEW j \in Items, item'[i].claimed, item'[j].claimed, item[i].uid = item[j].uid
      PROVE  i = j
  <2>1. i \in C \/ item[i].claimed
    BY <1>2, <1>7
  <2>2. j \in C \/ item[j].claimed
    BY <1>2, <1>7
  <2> QED
    BY <1>3, <1>7, <2>1, <2>2 DEF Claims, Sound
<1>8. ASSUME NEW i \in Items, item'[i].claimed
      PROVE  Concerns(i, item[i].uid)' /\ entry'[item'[i].uid].claimed
  <2>1. item'[i].uid = item[i].uid /\ item'[i].gen = item[i].gen
    BY <1>2
  <2>2. item[i].gen = entry[item[i].uid].gen /\ entry'[item[i].uid].gen = entry[item[i].uid].gen
    BY <1>6, <1>8 DEF Concerns
  <2>3. entry'[item[i].uid].claimed
    BY <1>6, <1>8
  <2> QED
    BY <2>1, <2>2, <2>3 DEF Concerns
<1>9. \A i, j \in Items : item'[i].claimed /\ item'[j].claimed /\ item'[i].uid = item'[j].uid => i = j
  BY <1>2, <1>7
<1> QED
  BY <1>5, <1>8, <1>9 DEF Claims

\* It answers an ACK once, and acknowledges a generation that is then a past one.
LEMMA ReportAnswers ==
  ASSUME TypeOK, Work, Claims, OneOutput, History, AcknowledgedOnce, UNCHANGED issued,
         NEW C, NEW D, NEW F, Sound(C, D, F), Report(C, D, F)
  PROVE  OneOutput' /\ History' /\ AcknowledgedOnce'
<1>0. \A i \in Items : item[i].uid \in Uids
  BY DEF TypeOK, Item
<1>1. \A i \in Items :
        /\ item'[i].uid = item[i].uid /\ item'[i].gen = item[i].gen
        /\ item'[i].status = IF i \in Queued THEN "pending"
                             ELSE IF Settled(i) \/ i \in D \union F THEN "settled"
                             ELSE IF i \in C THEN "inflight" ELSE item[i].status
        /\ item'[i].outputs = IF ~Settled(i) /\ i \in D \union F THEN item[i].outputs + 1
                              ELSE item[i].outputs
        /\ item'[i].result = IF ~Settled(i) /\ i \in D THEN "ok"
                             ELSE IF ~Settled(i) /\ i \in F THEN "error" ELSE item[i].result
  BY ReportItems
<1>2. \A i \in Queued : ~Settled(i) /\ i \notin C \union D \union F
  BY DEF Sound, Queued, Settled
<1>3. \A i \in D : ~Settled(i) => Concerns(i, item[i].uid)
  BY CompletedOk
<1>4. OneOutput'
  <2>1. \A i \in Items : /\ Settled(i)' <=> Settled(i) \/ i \in D \union F
    BY <1>1, <1>2 DEF Settled, Sound
  <2>2. \A i \in Items : item'[i].outputs = (IF Settled(i)' THEN 1 ELSE 0)
    BY <1>1, <2>1 DEF OneOutput
  <2>3. \A i \in Items : Settled(i)' <=> item'[i].result \in {"ok", "error"}
    BY <1>1, <2>1 DEF OneOutput
  <2> QED
    BY <2>2, <2>3 DEF OneOutput
<1>5. \A u \in Uids : entry'[u].gen = entry[u].gen \/ entry'[u].gen = 0
  BY ReportEntries DEF NoEntry
<1>6. \A i \in D : ~Settled(i) => entry'[item[i].uid].gen = 0
  <2> SUFFICES ASSUME NEW i \in D, ~Settled(i)
               PROVE  entry'[item[i].uid].gen = 0
    OBVIOUS
  <2>1. item[i].uid \in Uids
    BY <1>0 DEF Sound
  <2>2. entry'[item[i].uid] = NoEntry
    BY <1>3, <2>1, ReportEntries
  <2> QED
    BY <2>2 DEF NoEntry
<1>7. History'
  <2>1. \A u \in Uids : entry'[u].gen <= issued'[u]
    <3>1. \A u \in Uids : issued[u] \in Nat
      <4>1. issued \in [Uids -> 0..MaxGeneration] /\ MaxGeneration \in Nat
        BY LimitAssumption DEF TypeOK
      <4> QED
        BY <4>1
    <3>2. issued' = issued /\ \A u \in Uids : entry[u].gen <= issued[u]
      BY DEF History
    <3> QED
      BY <1>5, <3>1, <3>2
  <2>2. \A i \in Items : item'[i].gen # 0
    BY <1>1 DEF History
  <2>3. \A i \in Items : item'[i].status # "unsent" => item'[i].gen <= issued'[item'[i].uid]
    BY <1>1 DEF History, Sound, Work, Settled
  <2>4. \A i \in Items : item'[i].result = "ok" =>
          item'[i].gen <= issued'[item'[i].uid] /\ item'[i].gen # entry'[item'[i].uid].gen
    <3> SUFFICES ASSUME NEW i \in Items, item'[i].result = "ok"
                 PROVE  item[i].gen <= issued[item[i].uid] /\ item[i].gen # entry'[item[i].uid].gen
      BY <1>1
    <3>1. CASE ~Settled(i) /\ i \in D
      <4>1. item[i].gen = entry[item[i].uid].gen
        BY <1>3, <3>1 DEF Concerns
      <4> QED
        BY <1>0, <1>1, <1>6, <3>1, <4>1 DEF History
    <3>2. CASE ~(~Settled(i) /\ i \in D)
      <4>1. item[i].result = "ok"
        BY <1>1, <3>2
      <4> QED
        BY <1>0, <1>1, <1>5, <4>1 DEF History
    <3> QED
      BY <3>1, <3>2
  <2> QED
    BY <2>1, <2>2, <2>3, <2>4 DEF History
<1>8. AcknowledgedOnce'
  <2> SUFFICES ASSUME NEW i \in Items, NEW j \in Items, item'[i].result = "ok", item'[j].result = "ok",
                      item[i].uid = item[j].uid, item[i].gen = item[j].gen
               PROVE  i = j
    BY <1>1 DEF AcknowledgedOnce
  <2>1. (i \in D /\ ~Settled(i)) \/ item[i].result = "ok"
    BY <1>1
  <2>2. (j \in D /\ ~Settled(j)) \/ item[j].result = "ok"
    BY <1>1
  <2>3. CASE item[i].result = "ok" /\ item[j].result = "ok"
    BY <2>3 DEF AcknowledgedOnce
  <2>4. CASE i \in D /\ ~Settled(i) /\ j \in D /\ ~Settled(j)
    BY <2>4 DEF Sound, Claims
  <2>5. CASE i \in D /\ ~Settled(i) /\ item[j].result = "ok"
    BY <1>3, <2>5 DEF Concerns, History
  <2>6. CASE j \in D /\ ~Settled(j) /\ item[i].result = "ok"
    BY <1>3, <2>6 DEF Concerns, History
  <2> QED
    BY <2>1, <2>2, <2>3, <2>4, <2>5, <2>6
<1> QED
  BY <1>4, <1>7, <1>8

-----------------------------------------------------------------------------
(* A step of one node.                                                     *)

\* The sets node n hands to Report: only its own ACKs, all of issued generations.
FitsSets(n, C, D, F) ==
  /\ C \subseteq Items /\ D \subseteq Items /\ F \subseteq Items
  /\ D \intersect F = {} /\ C \intersect F = {}
  /\ \A i \in C \union D \union F : item[i].node = n /\ item[i].gen <= issued[item[i].uid]
  /\ \A i \in C : /\ item[i].status \in {"unsent", "pending"}
                  /\ Concerns(i, item[i].uid) /\ ~entry[item[i].uid].claimed
  /\ \A i, j \in C : item[i].uid = item[j].uid => i = j
  /\ \A i \in D : i \in C \/ item[i].claimed \/ Settled(i)

\* queue holds what is still to be flushed.
FitsQueue(n, queue, C, D, F) ==
  /\ queue \in Seq(Items)
  /\ \A p \in 1..Len(queue) :
       /\ queue[p] \notin C \union D \union F
       /\ item[queue[p]].node = n /\ item[queue[p]].status \in {"unsent", "pending"}
       /\ item[queue[p]].gen <= issued[item[queue[p]].uid]
  /\ \A p, q \in 1..Len(queue) : queue[p] = queue[q] => p = q
  /\ \A i \in Items : item[i].node = n /\ item[i].status = "pending" /\ i \notin C \union D \union F =>
       \E p \in 1..Len(queue) : queue[p] = i

\* work holds what is in flight and nothing that never was.
FitsWork(n, work, C, D, F) ==
  /\ work \subseteq Items
  /\ \A i \in Items : i \notin D \union F =>
       (i \in C \/ (item[i].node = n /\ item[i].status = "inflight") => i \in work)
  /\ \A i \in work : item[i].node = n /\ (i \in C \union D \union F \/ item[i].status \in {"inflight", "settled"})

FitsNode(n, h, C, D, F) ==
  /\ h \in Node
  /\ h.at = "action" => h.todo # {}
  /\ h.at = "idle" => h.batch = <<>> /\ h.todo = {} /\ h.later = {}
  /\ h.at = "logout" => h.todo = {}
  /\ h.timer => h.close = "open"
  /\ h.close = "open" /\ h.pending # <<>> => h.timer \/ h.at # "idle"
  /\ node[n].close = "finalized" /\ h.at = "action" => node[n].at = "action" /\ h.todo = node[n].todo
  /\ h.close = "finalized" =>
       /\ h.pending = <<>> /\ C \subseteq D
       /\ \A i \in Items : item[i].node = n /\ item[i].status = "inflight" => i \in D \union F

Fits(n, h, C, D, F) ==
  /\ FitsSets(n, C, D, F) /\ FitsQueue(n, h.pending, C, D, F)
  /\ FitsWork(n, h.todo \union h.later, C, D, F) /\ FitsNode(n, h, C, D, F)

LEMMA NodeAfter ==
  ASSUME TypeOK, NEW n \in Nodes, NEW h, node' = [node EXCEPT ![n] = h]
  PROVE  node'[n] = h /\ \A m \in Nodes : m # n => node'[m] = node[m]
<1>1. node \in [Nodes -> Node]
  BY DEF TypeOK
<1> QED
  BY <1>1

\* Only node n takes in ACKs.
LEMMA QueuedHere ==
  ASSUME TypeOK, Queues, NEW n \in Nodes, NEW h, node' = [node EXCEPT ![n] = h], NEW i \in Items
  PROVE  i \in Queued <=> /\ item[i].status = "unsent" /\ item[i].node = n
                          /\ \E p \in 1..Len(h.pending) : h.pending[p] = i
<1>1. item[i].node \in Nodes
  BY DEF TypeOK, Item
<1>2. CASE item[i].node = n
  <2>1. node'[item[i].node] = h
    BY <1>2, NodeAfter
  <2> QED
    BY <1>2, <2>1 DEF Queued, Elements
<1>3. CASE item[i].node # n
  <2>1. node'[item[i].node] = node[item[i].node]
    BY <1>1, <1>3, NodeAfter
  <2>2. i \in Queued => \E p \in 1..Len(node[item[i].node].pending) : node[item[i].node].pending[p] = i
    BY <2>1 DEF Queued, Elements
  <2>3. i \notin Queued
    BY <1>1, <2>2 DEF Queues, Queued
  <2> QED
    BY <1>3, <2>3
<1> QED
  BY <1>2, <1>3

LEMMA FitsSound ==
  ASSUME TypeOK, Queues, NEW n \in Nodes, NEW h, node' = [node EXCEPT ![n] = h],
         NEW C, NEW D, NEW F, FitsSets(n, C, D, F), FitsQueue(n, h.pending, C, D, F)
  PROVE  Sound(C, D, F)
<1>1. \A i \in Queued : i \in Items
  BY DEF Queued
<1>2. ASSUME NEW i \in Queued
      PROVE  i \notin C \union D \union F /\ item[i].gen <= issued[item[i].uid]
  <2>1. PICK p \in 1..Len(h.pending) : h.pending[p] = i
    BY <1>1, QueuedHere
  <2> QED
    BY <2>1 DEF FitsQueue
<1> QED
  BY <1>1, <1>2 DEF FitsSets, Sound

\* Such a step keeps the invariant and respects both.
LEMMA NodeStep ==
  ASSUME IInv, UNCHANGED issued, NEW n \in Nodes, NEW h, node' = [node EXCEPT ![n] = h],
         NEW C, NEW D, NEW F, Fits(n, h, C, D, F), Report(C, D, F)
  PROVE  IInv' /\ EntryKept /\ NoLateAction
<1>1. TypeOK /\ Queues /\ Work /\ Closing /\ Claims /\ OneOutput /\ History /\ AcknowledgedOnce
  BY DEF IInv
<1>2. /\ FitsSets(n, C, D, F) /\ FitsQueue(n, h.pending, C, D, F)
      /\ FitsWork(n, h.todo \union h.later, C, D, F) /\ FitsNode(n, h, C, D, F)
  BY DEF Fits
<1>3. Sound(C, D, F)
  BY <1>1, <1>2, FitsSound
<1>4. node'[n] = h /\ \A m \in Nodes : m # n => node'[m] = node[m]
  BY <1>1, NodeAfter
<1>5. \A i \in Items : i \in Queued <=> /\ item[i].status = "unsent" /\ item[i].node = n
                                        /\ \E p \in 1..Len(h.pending) : h.pending[p] = i
  BY <1>1, QueuedHere
<1>6. \A i \in Items :
        /\ item'[i].node = item[i].node
        /\ item'[i].status = IF i \in Queued THEN "pending"
                             ELSE IF Settled(i) \/ i \in D \union F THEN "settled"
                             ELSE IF i \in C THEN "inflight" ELSE item[i].status
        /\ (item'[i].claimed <=> (i \in C /\ i \notin D) \/ (item[i].claimed /\ i \notin D \union F))
  BY <1>1, <1>3, ReportItems
<1>7. \A i \in Items : item[i].node \in Nodes /\ item[i].status \in {"unsent", "pending", "inflight", "settled"}
  BY <1>1 DEF TypeOK, Item
<1>8. \A i \in Items : item[i].node # n =>
        item'[i].status = item[i].status /\ i \notin C \union D \union F \union Queued
  BY <1>1, <1>2, <1>5, <1>6 DEF FitsSets, Settled
<1>9. TypeOK'
  <2>1. entry' \in [Uids -> Entry]
    BY <1>1, <1>3, ReportEntries
  <2>2. item' \in [Items -> Item]
    BY <1>1, <1>3, ReportItems
  <2>3. issued' \in [Uids -> 0..MaxGeneration]
    BY <1>1 DEF TypeOK
  <2>4. node \in [Nodes -> Node] /\ h \in Node
    BY <1>1, <1>2 DEF TypeOK, FitsNode
  <2>5. node' \in [Nodes -> Node]
    BY <2>4
  <2>6. \A m \in Nodes : /\ node'[m].at = "action" => node'[m].todo # {}
                         /\ node'[m].at = "idle" => node'[m].batch = <<>> /\ node'[m].todo = {} /\ node'[m].later = {}
    BY <1>1, <1>2, <1>4 DEF TypeOK, FitsNode
  <2> QED
    BY <2>1, <2>2, <2>3, <2>5, <2>6 DEF TypeOK
<1>10. Queues'
  <2>1. ASSUME NEW m \in Nodes, NEW p \in 1..Len(node'[m].pending), NEW q \in 1..Len(node'[m].pending)
        PROVE  /\ item'[node'[m].pending[p]].node = m
               /\ item'[node'[m].pending[p]].status = "pending"
               /\ node'[m].pending[p] = node'[m].pending[q] => p = q
    <3>1. CASE m = n
      <4>1. node'[m].pending = h.pending /\ h.pending \in Seq(Items)
        BY <1>2, <1>4, <3>1 DEF FitsQueue
      <4>2. h.pending[p] \in Items
        BY <4>1
      <4>3. /\ h.pending[p] \notin C \union D \union F /\ item[h.pending[p]].node = n
            /\ item[h.pending[p]].status \in {"unsent", "pending"}
            /\ h.pending[p] = h.pending[q] => p = q
        BY <1>2, <4>1 DEF FitsQueue
      <4>4. item[h.pending[p]].status = "unsent" => h.pending[p] \in Queued
        BY <1>5, <4>1, <4>2, <4>3
      <4>5. item'[h.pending[p]].status = "pending"
        BY <1>6, <4>2, <4>3, <4>4 DEF Settled
      <4> QED
        BY <1>6, <3>1, <4>1, <4>2, <4>3, <4>5
    <3>2. CASE m # n
      <4>1. node'[m].pending = node[m].pending /\ node[m].pending \in Seq(Items)
        BY <1>1, <1>4, <3>2 DEF TypeOK, Node
      <4>2. node[m].pending[p] \in Items
        BY <4>1
      <4>3. /\ item[node[m].pending[p]].node = m /\ item[node[m].pending[p]].status = "pending"
            /\ node[m].pending[p] = node[m].pending[q] => p = q
        BY <1>1, <4>1 DEF Queues
      <4> QED
        BY <1>6, <1>8, <3>2, <4>1, <4>2, <4>3
    <3> QED
      BY <3>1, <3>2
  <2>2. ASSUME NEW i \in Items, item'[i].status = "pending"
        PROVE  \E p \in 1..Len(node'[item[i].node].pending) : node'[item[i].node].pending[p] = i
    <3>1. CASE item[i].node = n
      <4>1. i \in Queued \/ (item[i].status = "pending" /\ i \notin C \union D \union F)
        BY <1>6, <2>2 DEF Settled
      <4>2. \E p \in 1..Len(h.pending) : h.pending[p] = i
        BY <1>2, <1>5, <3>1, <4>1 DEF FitsQueue
      <4> QED
        BY <1>4, <3>1, <4>2
    <3>2. CASE item[i].node # n
      BY <1>1, <1>4, <1>7, <1>8, <2>2, <3>2 DEF Queues, InQueue
    <3> QED
      BY <3>1, <3>2
  <2> QED
    BY <1>6, <2>1, <2>2 DEF Queues, InQueue
<1>11. Work'
  <2>1. ASSUME NEW i \in Items
        PROVE  item'[i].claimed <=> item'[i].status = "inflight"
    BY <1>1, <1>3, <1>6 DEF Work, Sound, Settled, Queued
  <2>2. ASSUME NEW i \in Items, item'[i].status = "inflight"
        PROVE  i \in node'[item[i].node].todo \union node'[item[i].node].later
    <3>1. CASE item[i].node = n
      BY <1>2, <1>4, <1>6, <2>2, <3>1 DEF FitsWork
    <3>2. CASE item[i].node # n
      BY <1>1, <1>4, <1>7, <1>8, <2>2, <3>2 DEF Work, InWork
    <3> QED
      BY <3>1, <3>2
  <2>3. ASSUME NEW m \in Nodes, NEW i \in Items, i \in node'[m].todo \union node'[m].later
        PROVE  item'[i].node = m /\ item'[i].status \in {"inflight", "settled"}
    <3>1. CASE m = n
      <4>1. item[i].node = n /\ (i \in C \union D \union F \/ item[i].status \in {"inflight", "settled"})
        BY <1>2, <1>4, <2>3, <3>1 DEF FitsWork
      <4>2. i \notin Queued
        BY <1>3, <4>1 DEF Sound, Queued
      <4> QED
        BY <1>6, <3>1, <4>1, <4>2 DEF Settled
    <3>2. CASE m # n
      BY <1>1, <1>4, <1>6, <1>8, <2>3, <3>2 DEF Work, InWork
    <3> QED
      BY <3>1, <3>2
  <2> QED
    BY <1>6, <2>1, <2>2, <2>3 DEF Work, InWork
<1>12. Closing'
  <2> SUFFICES ASSUME NEW m \in Nodes
      PROVE  /\ node'[m].at = "logout" => node'[m].todo = {}
             /\ node'[m].timer => node'[m].close = "open"
             /\ node'[m].close = "open" /\ node'[m].pending # <<>> => node'[m].timer \/ node'[m].at # "idle"
             /\ node'[m].close = "finalized" =>
                  node'[m].pending = <<>> /\ \A i \in Items : item'[i].node = m => item'[i].status # "inflight"
    BY DEF Closing
  <2>1. CASE m = n
    <3>1. h.close = "finalized" => \A i \in Items : item[i].node = n => item'[i].status # "inflight"
      BY <1>2, <1>6 DEF FitsNode
    <3> QED
      BY <1>2, <1>4, <1>6, <2>1, <3>1 DEF FitsNode
  <2>2. CASE m # n
    BY <1>1, <1>4, <1>6, <1>8, <2>2 DEF Closing
  <2> QED
    BY <2>1, <2>2
<1>13. Claims'
  BY <1>1, <1>3, ReportClaims
<1>14. OneOutput' /\ History' /\ AcknowledgedOnce'
  BY <1>1, <1>3, ReportAnswers
<1>15. ASSUME NEW u \in Uids, entry[u].claimed, entry'[u].gen # entry[u].gen
       PROVE  \E i \in Items : Concerns(i, u) /\ ~Settled(i) /\ item'[i].result = "ok"
  <2>1. \E i \in D : ~Settled(i) /\ Concerns(i, u)
    BY <1>1, <1>3, <1>15, ReportEntries
  <2>2. \A i \in D : i \in Items /\ (~Settled(i) => item'[i].result = "ok")
    BY <1>1, <1>3, ReportItems DEF Sound
  <2> QED
    BY <2>1, <2>2
<1>16. NoLateAction
  BY <1>2, <1>4 DEF FitsNode, NoLateAction
<1> QED
  BY <1>9, <1>10, <1>11, <1>12, <1>13, <1>14, <1>15, <1>16 DEF IInv, EntryKept

\* What a step finds at its node.
LEMMA NodeFacts ==
  ASSUME IInv, NEW n \in Nodes
  PROVE  /\ FitsSets(n, {}, {}, {}) /\ FitsQueue(n, node[n].pending, {}, {}, {})
         /\ FitsWork(n, node[n].todo \union node[n].later, {}, {}, {}) /\ FitsNode(n, node[n], {}, {}, {})
         /\ \A i \in Items : item[i].status = "inflight" <=> item[i].claimed
         /\ \A i \in node[n].todo \union node[n].later :
              item[i].claimed \/ Settled(i)
<1>1. TypeOK /\ Queues /\ Work /\ Closing /\ History
  BY DEF IInv
<1>2. node[n] \in Node
  BY <1>1 DEF TypeOK
<1>3. node[n].pending \in Seq(Items) /\ node[n].todo \subseteq Items /\ node[n].later \subseteq Items
  BY <1>2 DEF Node
<1>4. \A p \in 1..Len(node[n].pending) : node[n].pending[p] \in Items
  BY <1>3
<1>5. FitsSets(n, {}, {}, {})
  BY DEF FitsSets
<1>6. FitsQueue(n, node[n].pending, {}, {}, {})
  <2>1. \A p \in 1..Len(node[n].pending) :
          /\ item[node[n].pending[p]].node = n /\ item[node[n].pending[p]].status \in {"unsent", "pending"}
          /\ item[node[n].pending[p]].gen <= issued[item[node[n].pending[p]].uid]
    BY <1>1, <1>4 DEF Queues, History
  <2>2. \A p, q \in 1..Len(node[n].pending) : node[n].pending[p] = node[n].pending[q] => p = q
    BY <1>1 DEF Queues
  <2>3. \A i \in Items : item[i].node = n /\ item[i].status = "pending" =>
          \E p \in 1..Len(node[n].pending) : node[n].pending[p] = i
    BY <1>1 DEF Queues, InQueue
  <2> QED
    BY <1>3, <2>1, <2>2, <2>3 DEF FitsQueue
<1>7. FitsWork(n, node[n].todo \union node[n].later, {}, {}, {})
  BY <1>1, <1>3 DEF Work, InWork, FitsWork
<1>8. FitsNode(n, node[n], {}, {}, {})
  <2>1. /\ node[n].at = "action" => node[n].todo # {}
        /\ node[n].at = "idle" => node[n].batch = <<>> /\ node[n].todo = {} /\ node[n].later = {}
    BY <1>1 DEF TypeOK
  <2>2. node[n].close = "finalized" =>
          node[n].pending = <<>> /\ \A i \in Items : item[i].node = n => item[i].status # "inflight"
    BY <1>1 DEF Closing
  <2>3. /\ node[n].at = "logout" => node[n].todo = {}
        /\ node[n].timer => node[n].close = "open"
        /\ node[n].close = "open" /\ node[n].pending # <<>> => node[n].timer \/ node[n].at # "idle"
    BY <1>1 DEF Closing
  <2> QED
    BY <1>2, <2>1, <2>2, <2>3 DEF FitsNode
<1>9. \A i \in Items : item[i].status = "inflight" <=> item[i].claimed
  BY <1>1 DEF Work
<1>10. \A i \in node[n].todo \union node[n].later : item[i].claimed \/ Settled(i)
  BY <1>1, <1>3, <1>9 DEF Work, InWork, Settled
<1> QED
  BY <1>5, <1>6, <1>7, <1>8, <1>9, <1>10

\* A step that reports nothing.
LEMMA NoReport ==
  ASSUME IInv, entry' = entry, item' = item, NEW n \in Nodes, NEW h,
         node' = [node EXCEPT ![n] = h], h.pending = node[n].pending
  PROVE  Report({}, {}, {})
<1>1. TypeOK /\ Queues
  BY DEF IInv
<1>2. ASSUME NEW i \in Items, i \in Queued
      PROVE  FALSE
  <2>1. \A m \in Nodes : node'[m].pending = node[m].pending
    BY <1>1, NodeAfter
  <2>2. item[i].node \in Nodes
    BY <1>1 DEF TypeOK, Item
  <2>3. item[i].status = "unsent" /\ \E p \in 1..Len(node[item[i].node].pending) : node[item[i].node].pending[p] = i
    BY <1>2, <2>1, <2>2 DEF Queued, Elements
  <2> QED
    BY <1>1, <2>2, <2>3 DEF Queues
<1>3. item \in [Items -> Item] /\ entry \in [Uids -> Entry]
  BY <1>1 DEF TypeOK
<1>4. \A i \in Items : Told(i, {}, {}, {}) = item[i]
  BY DEF Told
<1>5. \A u \in Uids : EntryAfter(u, {}, {}, {}) = entry[u]
  BY DEF EntryAfter
<1> QED
  BY <1>2, <1>3, <1>4, <1>5 DEF Report, Queued

\* A chunk, or the group, is reported and the flush stays in the group or leaves it.
LEMMA WorkStep ==
  ASSUME IInv, UNCHANGED issued, NEW n \in Nodes, NEW D, NEW F, NEW a \in {"lock", "action", "logout"},
         D \intersect F = {}, D \union F \subseteq node[n].todo,
         a = "action" => node[n].close # "finalized" /\ node[n].todo \ (D \union F) # {},
         a = "logout" => node[n].todo \ (D \union F) = {},
         node' = [node EXCEPT ![n] = [node[n] EXCEPT !.at = a, !.todo = node[n].todo \ (D \union F)]],
         Report({}, D, F)
  PROVE  IInv' /\ EntryKept /\ NoLateAction
<1> DEFINE h == [node[n] EXCEPT !.at = a, !.todo = node[n].todo \ (D \union F)]
<1>1. /\ FitsSets(n, {}, {}, {}) /\ FitsQueue(n, node[n].pending, {}, {}, {})
      /\ FitsWork(n, node[n].todo \union node[n].later, {}, {}, {}) /\ FitsNode(n, node[n], {}, {}, {})
      /\ \A i \in Items : item[i].status = "inflight" <=> item[i].claimed
      /\ \A i \in node[n].todo \union node[n].later : item[i].claimed \/ Settled(i)
  BY NodeFacts
<1>2. node[n] \in Node
  BY <1>1 DEF FitsNode
<1>3. /\ h \in Node /\ h.at = a /\ h.todo = node[n].todo \ (D \union F) /\ h.later = node[n].later
      /\ h.pending = node[n].pending /\ h.timer = node[n].timer /\ h.close = node[n].close
  BY <1>2 DEF Node
<1>4. node[n].todo \subseteq Items
  BY <1>2 DEF Node
<1>5. \A i \in D \union F : i \in Items /\ item[i].node = n /\ item[i].status \in {"inflight", "settled"}
                          /\ (item[i].claimed \/ Settled(i))
  BY <1>1, <1>4 DEF FitsWork
<1>6. \A i \in D \union F : item[i].gen <= issued[item[i].uid]
  BY <1>5 DEF IInv, History
<1>7. FitsSets(n, {}, D, F)
  BY <1>5, <1>6 DEF FitsSets
<1>8. FitsQueue(n, h.pending, {}, D, F)
  BY <1>1, <1>3, <1>5 DEF FitsQueue
<1>9. FitsWork(n, h.todo \union h.later, {}, D, F)
  BY <1>1, <1>3 DEF FitsWork
<1>10. FitsNode(n, h, {}, D, F)
  BY <1>1, <1>3 DEF FitsNode
<1>11. node' = [node EXCEPT ![n] = h]
  OBVIOUS
<1>12. Fits(n, h, {}, D, F)
  BY <1>7, <1>8, <1>9, <1>10 DEF Fits
<1> HIDE DEF h
<1> QED
  BY <1>11, <1>12, NodeStep

\* What Proceed is called with: claims claimed and fails failed by this run, left to be done.
Ready(n, here, left, C, F) ==
  /\ here \in Node
  /\ FitsSets(n, C, {}, F) /\ \A i \in F : item[i].status \in {"unsent", "pending"}
  /\ FitsQueue(n, here.pending, C, {}, F)
  /\ left \subseteq Items /\ C \subseteq left
  /\ \A i \in left : item[i].node = n /\ (i \in C \/ item[i].claimed \/ Settled(i))
  /\ \A i \in Items : item[i].node = n /\ item[i].status = "inflight" => i \in left
  /\ here.timer => here.close = "open"
  /\ here.close = "finalized" =>
       /\ here.pending = <<>> /\ C = {}
       /\ \A i \in Items : item[i].node = n => item[i].status # "inflight"

\* The local groups L are settled on the way: completed, or failed if the node is closed.
LEMMA LocalSettled ==
  ASSUME IInv, NEW n \in Nodes, NEW here, NEW left, NEW C, NEW G, Ready(n, here, left, C, G),
         NEW L \in SUBSET left, NEW D, NEW F,
         IF here.close = "finalized" THEN D = {} /\ F = G \union L ELSE D = L /\ F = G
  PROVE  /\ FitsSets(n, C, D, F) /\ FitsQueue(n, here.pending, C, D, F)
         /\ FitsWork(n, left \ L, C, D, F)
         /\ here.close = "finalized" => C = {}
<1>1. \A i \in Items : item[i].status = "inflight" <=> item[i].claimed
  BY NodeFacts
<1>2. \A i \in L : i \in Items /\ item[i].node = n /\ (i \in C \/ item[i].claimed \/ Settled(i))
  BY DEF Ready
<1>3. \A i \in C : item[i].gen <= issued[item[i].uid]
  BY DEF Ready, FitsSets
<1>4. \A i \in L : item[i].gen <= issued[item[i].uid]
  BY <1>1, <1>2, <1>3 DEF IInv, History, Settled
<1>5. \A i \in L : i \in C \/ item[i].status \in {"inflight", "settled"}
  BY <1>1, <1>2 DEF Settled
<1>6. L \intersect G = {}
  BY <1>5 DEF Ready, FitsSets
<1>7. D \union F = L \union G /\ D \intersect F = {} /\ D \subseteq L
  BY <1>6
<1>8. FitsSets(n, C, D, F)
  <2>1. C \intersect F = {}
    BY <1>5 DEF Ready, FitsSets
  <2>2. \A i \in C \union D \union F : i \in Items /\ item[i].node = n /\ item[i].gen <= issued[item[i].uid]
    BY <1>2, <1>4, <1>7 DEF Ready, FitsSets
  <2>3. \A i \in D : i \in C \/ item[i].claimed \/ Settled(i)
    BY <1>2, <1>7
  <2>4. /\ \A i \in C : /\ item[i].status \in {"unsent", "pending"}
                        /\ Concerns(i, item[i].uid) /\ ~entry[item[i].uid].claimed
        /\ \A i, j \in C : item[i].uid = item[j].uid => i = j
    BY DEF Ready, FitsSets
  <2> QED
    BY <1>7, <2>1, <2>2, <2>3, <2>4 DEF FitsSets
<1>9. FitsQueue(n, here.pending, C, D, F)
  <2>1. FitsQueue(n, here.pending, C, {}, G)
    BY DEF Ready
  <2>2. \A p \in 1..Len(here.pending) : here.pending[p] \notin L
    BY <1>5, <2>1 DEF FitsQueue
  <2> QED
    BY <1>7, <2>1, <2>2 DEF FitsQueue
<1>10. FitsWork(n, left \ L, C, D, F)
  <2>1. /\ left \subseteq Items /\ C \subseteq left
        /\ \A i \in left : item[i].node = n /\ (i \in C \/ item[i].claimed \/ Settled(i))
        /\ \A i \in Items : item[i].node = n /\ item[i].status = "inflight" => i \in left
    BY DEF Ready
  <2> QED
    BY <1>1, <1>7, <2>1 DEF FitsWork, Settled
<1> QED
  BY <1>8, <1>9, <1>10 DEF Ready

Idled(here) == [here EXCEPT !.at = "idle", !.batch = <<>>, !.todo = {}, !.later = {}]

LEMMA IdledNode ==
  ASSUME NEW here \in Node, NEW s, s = Idled(here)
  PROVE  /\ s \in Node
         /\ s.at = "idle" /\ s.todo = {} /\ s.later = {} /\ s.batch = <<>>
         /\ s.pending = here.pending /\ s.timer = here.timer /\ s.close = here.close
<1>1. s = [pending |-> here.pending, timer |-> here.timer, close |-> here.close,
           at |-> "idle", batch |-> <<>>, todo |-> {}, later |-> {}]
  BY DEF Node, Idled
<1>2. here.pending \in Seq(Items) /\ here.timer \in BOOLEAN /\ here.close \in {"open", "closing", "finalized"}
  BY DEF Node
<1>3. <<>> \in Seq(Items)
  OBVIOUS
<1> HIDE DEF Idled
<1>4. s \in Node
  BY <1>1, <1>2, <1>3 DEF Node
<1> QED
  BY <1>1, <1>4

LEMMA ClosedNode ==
  ASSUME NEW r \in Node, NEW s, s = [r EXCEPT !.pending = <<>>, !.close = "finalized"]
  PROVE  /\ s \in Node /\ s.pending = <<>> /\ s.close = "finalized"
         /\ s.at = r.at /\ s.todo = r.todo /\ s.later = r.later /\ s.batch = r.batch /\ s.timer = r.timer
<1>1. s = [pending |-> <<>>, timer |-> r.timer, close |-> "finalized",
           at |-> r.at, batch |-> r.batch, todo |-> r.todo, later |-> r.later]
  BY DEF Node
<1>2. /\ r.timer \in BOOLEAN /\ r.at \in {"idle", "connect", "lock", "action", "logout"}
      /\ r.batch \in Seq(Items) /\ r.todo \in SUBSET Items /\ r.later \in SUBSET Items
  BY DEF Node
<1>3. <<>> \in Seq(Items)
  OBVIOUS
<1>4. s \in Node
  BY <1>1, <1>2, <1>3 DEF Node
<1> QED
  BY <1>1, <1>4

LEMMA ProceedStep ==
  ASSUME IInv, UNCHANGED issued, NEW n \in Nodes, NEW here, NEW left, NEW C, NEW G,
         Ready(n, here, left, C, G), Proceed(n, here, left, C, G)
  PROVE  IInv' /\ EntryKept /\ NoLateAction
<1> DEFINE L == LeadingLocal(left, here.batch)
           rest == left \ L
           D == IF here.close = "finalized" THEN {} ELSE L
           F == IF here.close = "finalized" THEN G \union L ELSE G
           idle == Idled(here)
<1>1. L \in SUBSET left
  BY DEF LeadingLocal
<1>2. /\ FitsSets(n, C, D, F) /\ FitsQueue(n, here.pending, C, D, F)
      /\ FitsWork(n, rest, C, D, F) /\ (here.close = "finalized" => C = {})
  <2>1. IF here.close = "finalized" THEN D = {} /\ F = G \union L ELSE D = L /\ F = G
    OBVIOUS
  <2> HIDE DEF L, D, F
  <2> QED
    BY <1>1, <2>1, LocalSettled
<1>3. /\ here \in Node /\ left \subseteq Items /\ (here.timer => here.close = "open")
      /\ here.close = "finalized" =>
           here.pending = <<>> /\ \A i \in Items : item[i].node = n => item[i].status # "inflight"
  BY DEF Ready
<1>4. \/ /\ rest # {}
         /\ LET group == NextGroup(rest, here.batch)
            IN  node' = [node EXCEPT ![n] = [here EXCEPT
                  !.at = "connect", !.todo = group, !.later = rest \ group]]
         /\ Report(C, D, F)
      \/ /\ rest = {} /\ here.close # "closing"
         /\ node' = [node EXCEPT ![n] = [idle EXCEPT !.timer = Rearmed(here)]]
         /\ Report(C, D, F)
      \/ /\ rest = {} /\ here.close = "closing"
         /\ node' = [node EXCEPT ![n] = [idle EXCEPT !.pending = <<>>, !.close = "finalized"]]
         /\ Report(C, D, F \union (FailedAtClose(n, here) \ D))
  BY DEF Proceed, Idled
<1> HIDE DEF L, D, F
<1>5. CASE /\ rest # {}
           /\ LET group == NextGroup(rest, here.batch)
              IN  node' = [node EXCEPT ![n] = [here EXCEPT
                    !.at = "connect", !.todo = group, !.later = rest \ group]]
           /\ Report(C, D, F)
  <2> DEFINE group == NextGroup(rest, here.batch)
             h == [here EXCEPT !.at = "connect", !.todo = group, !.later = rest \ group]
  <2>1. group \subseteq rest
    BY DEF NextGroup, GroupOf
  <2> HIDE DEF group
  <2>2. rest \subseteq Items
    BY <1>1, <1>3
  <2>3. /\ h \in Node /\ h.at = "connect" /\ h.todo = group /\ h.later = rest \ group
        /\ h.pending = here.pending /\ h.timer = here.timer /\ h.close = here.close
    BY <1>3, <2>1, <2>2 DEF Node
  <2>4. node' = [node EXCEPT ![n] = h]
    BY <1>5 DEF group
  <2> HIDE DEF h, rest
  <2>5. h.todo \union h.later = rest
    BY <2>1, <2>3
  <2>6. FitsNode(n, h, C, D, F)
    BY <1>2, <1>3, <2>3 DEF FitsNode
  <2>7. Fits(n, h, C, D, F)
    BY <1>2, <2>3, <2>5, <2>6 DEF Fits
  <2> QED
    BY <1>5, <2>4, <2>7, NodeStep
<1>6. CASE /\ rest = {} /\ here.close # "closing"
           /\ node' = [node EXCEPT ![n] = [idle EXCEPT !.timer = Rearmed(here)]]
           /\ Report(C, D, F)
  <2> DEFINE h == [idle EXCEPT !.timer = Rearmed(here)]
  <2>1. Rearmed(here) \in BOOLEAN
    BY <1>3 DEF Rearmed, Node
  <2>2. /\ h \in Node /\ h.at = "idle" /\ h.todo = {} /\ h.later = {} /\ h.batch = <<>>
        /\ h.pending = here.pending /\ h.timer = Rearmed(here) /\ h.close = here.close
    BY <1>3, <2>1, IdledNode DEF Node
  <2>3. node' = [node EXCEPT ![n] = h]
    BY <1>6
  <2> HIDE DEF h
  <2>4. FitsNode(n, h, C, D, F)
    BY <1>2, <1>3, <2>2 DEF FitsNode, Rearmed
  <2>5. FitsWork(n, h.todo \union h.later, C, D, F)
    BY <1>2, <1>6, <2>2
  <2>6. Fits(n, h, C, D, F)
    BY <1>2, <2>2, <2>4, <2>5 DEF Fits
  <2> QED
    BY <1>6, <2>3, <2>6, NodeStep
<1>7. CASE /\ rest = {} /\ here.close = "closing"
           /\ node' = [node EXCEPT ![n] = [idle EXCEPT !.pending = <<>>, !.close = "finalized"]]
           /\ Report(C, D, F \union (FailedAtClose(n, here) \ D))
  <2> DEFINE h == [idle EXCEPT !.pending = <<>>, !.close = "finalized"]
             E == F \union (FailedAtClose(n, here) \ D)
  <2>1. /\ h \in Node /\ h.at = "idle" /\ h.todo = {} /\ h.later = {} /\ h.batch = <<>>
        /\ h.pending = <<>> /\ h.timer = here.timer /\ h.close = "finalized"
    <3>1. /\ idle \in Node /\ idle.at = "idle" /\ idle.todo = {} /\ idle.later = {}
          /\ idle.batch = <<>> /\ idle.timer = here.timer
      BY <1>3, IdledNode
    <3> HIDE DEF idle
    <3> QED
      BY <3>1, ClosedNode
  <2>2. node' = [node EXCEPT ![n] = h]
    BY <1>7
  <2>3. D = left /\ C \subseteq D
    BY <1>1, <1>7 DEF D, Ready
  <2>4. \A i \in FailedAtClose(n, here) : i \in Items /\ item[i].node = n /\ item[i].gen <= issued[item[i].uid]
    <3> SUFFICES ASSUME NEW i \in FailedAtClose(n, here)
                 PROVE  i \in Items /\ item[i].node = n /\ item[i].gen <= issued[item[i].uid]
      OBVIOUS
    <3>1. CASE i \in InflightItems(n)
      BY <3>1 DEF InflightItems, IInv, History
    <3>2. CASE i \in Elements(here.pending)
      <4>1. PICK p \in 1..Len(here.pending) : i = here.pending[p]
        BY <3>2 DEF Elements
      <4>2. here.pending \in Seq(Items)
        BY <1>2 DEF FitsQueue
      <4>3. i \in Items
        BY <4>1, <4>2
      <4> QED
        BY <1>2, <4>1, <4>3 DEF FitsQueue
    <3> QED
      BY <3>1, <3>2 DEF FailedAtClose
  <2>5. FitsSets(n, C, D, E)
    BY <1>2, <2>3, <2>4 DEF FitsSets
  <2>6. \A i \in Items : /\ item[i].node = n /\ item[i].status = "pending" /\ i \notin C \union D \union F => i \in E
                         /\ item[i].node = n /\ item[i].status = "inflight" => i \in D \union E
    BY <1>2 DEF FailedAtClose, InflightItems, Elements, FitsQueue
  <2>7. \A i \in Items : item[i].node = n /\ item[i].status = "pending" => i \in C \union D \union E
    BY <2>6
  <2> HIDE DEF h, E
  <2>8. FitsQueue(n, h.pending, C, D, E)
    <3>1. h.pending \in Seq(Items) /\ Len(h.pending) = 0
      BY <2>1
    <3> QED
      BY <2>7, <3>1 DEF FitsQueue
  <2>9. FitsWork(n, h.todo \union h.later, C, D, E)
    BY <2>1, <2>3, <2>6 DEF FitsWork
  <2>10. FitsNode(n, h, C, D, E)
    BY <1>3, <1>7, <2>1, <2>3, <2>6 DEF FitsNode
  <2>11. Fits(n, h, C, D, E)
    BY <2>5, <2>8, <2>9, <2>10 DEF Fits
  <2>12. Report(C, D, E)
    BY <1>7 DEF E
  <2> QED
    BY <2>2, <2>11, <2>12, NodeStep
<1> QED
  BY <1>4, <1>5, <1>6, <1>7

\* Taking a batch off the queue and claiming its tokens.
LEMMA FlushStep ==
  ASSUME IInv, UNCHANGED issued, NEW n \in Nodes, NEW here \in Node, node[n].at = "idle",
         here.close # "finalized", ~here.timer,
         FitsQueue(n, here.pending, {}, {}, {}), Flush(n, here)
  PROVE  IInv' /\ EntryKept /\ NoLateAction
<1> DEFINE queue == here.pending
           m == Min2(BatchSize[n] * MaxBatchesPerFlush, Len(queue))
           batch == SubSeq(queue, 1, m)
           rest == SubSeq(queue, Len(batch) + 1, Len(queue))
           C == {batch[p] : p \in {q \in 1..Len(batch) : Claimable(batch, q)}}
           G == Elements(batch) \ C
           taken == [here EXCEPT !.pending = rest, !.batch = batch]
<1>1. Proceed(n, taken, C, C, G)
  BY DEF Flush
<1>2. /\ queue \in Seq(Items)
      /\ \A p \in 1..Len(queue) :
           /\ item[queue[p]].node = n /\ item[queue[p]].status \in {"unsent", "pending"}
           /\ item[queue[p]].gen <= issued[item[queue[p]].uid]
      /\ \A p, q \in 1..Len(queue) : queue[p] = queue[q] => p = q
      /\ \A i \in Items : item[i].node = n /\ item[i].status = "pending" => \E p \in 1..Len(queue) : queue[p] = i
  BY DEF FitsQueue
<1>3. m \in 0..Len(queue)
  <2>1. Len(queue) \in Nat
    BY <1>2
  <2>2. BatchSize[n] \in Nat /\ MaxBatchesPerFlush \in Nat
    BY LimitAssumption
  <2>3. BatchSize[n] * MaxBatchesPerFlush \in Nat
    BY <2>2
  <2> QED
    BY <2>1, <2>3 DEF Min2
<1>4. \A p \in 1..Len(queue) : queue[p] \in Items
  BY <1>2
<1> HIDE DEF m, queue
<1>5. batch \in Seq(Items) /\ Len(batch) = m /\ \A p \in 1..m : batch[p] = queue[p]
  BY <1>2, <1>3, SubSeqProperties
<1> HIDE DEF batch
<1>6. /\ rest \in Seq(Items) /\ Len(rest) = Len(queue) - m
      /\ \A p \in 1..(Len(queue) - m) : rest[p] = queue[p + m]
  BY <1>2, <1>3, <1>5, SubSeqProperties
<1> HIDE DEF rest
<1>7. /\ taken \in Node /\ taken.pending = rest /\ taken.timer = here.timer /\ taken.close = here.close
  BY <1>5, <1>6 DEF Node
<1>8. \A i \in C : \E p \in 1..m : i = queue[p] /\ Claimable(batch, p)
  BY <1>5
<1>9. \A i \in G : i \notin C /\ \E p \in 1..m : i = queue[p]
  BY <1>5 DEF Elements
<1>10. \A p \in 1..m : queue[p] \in C \union G
  BY <1>5 DEF Elements
<1> HIDE DEF C, G, taken
<1>11. \A i \in C \union G : i \in Items /\ item[i].node = n /\ item[i].status \in {"unsent", "pending"}
                             /\ item[i].gen <= issued[item[i].uid]
  BY <1>2, <1>3, <1>4, <1>8, <1>9
<1>12. \A i \in C : Concerns(i, item[i].uid) /\ ~entry[item[i].uid].claimed
  BY <1>3, <1>5, <1>8 DEF Claimable, Concerns
<1>13. \A i, j \in C : item[i].uid = item[j].uid => i = j
  <2> SUFFICES ASSUME NEW i \in C, NEW j \in C, item[i].uid = item[j].uid
               PROVE  i = j
    OBVIOUS
  <2>1. PICK p \in 1..m : i = queue[p] /\ Claimable(batch, p)
    BY <1>8
  <2>2. PICK q \in 1..m : j = queue[q] /\ Claimable(batch, q)
    BY <1>8
  <2>3. item[i].gen = item[j].gen
    BY <1>12 DEF Concerns
  <2>4. ~(p < q)
    <3>1. p < q => p \in 1..(q - 1)
      BY <1>3
    <3> QED
      BY <1>5, <2>1, <2>2, <2>3, <3>1 DEF Claimable
  <2>5. ~(q < p)
    <3>1. q < p => q \in 1..(p - 1)
      BY <1>3
    <3> QED
      BY <1>5, <2>1, <2>2, <2>3, <3>1 DEF Claimable
  <2>6. p = q
    BY <1>3, <2>4, <2>5
  <2> QED
    BY <2>1, <2>2, <2>6
<1>14. FitsSets(n, C, {}, G)
  BY <1>9, <1>11, <1>12, <1>13 DEF FitsSets
<1>15. FitsQueue(n, rest, C, {}, G)
  <2>0. m \in Nat /\ Len(queue) \in Nat /\ m <= Len(queue)
    BY <1>2, <1>3
  <2>1. \A p \in 1..Len(rest) : p + m \in 1..Len(queue) /\ rest[p] = queue[p + m] /\ p + m > m
    BY <1>6, <2>0
  <2>2. \A p \in 1..Len(rest) : rest[p] \notin C \union G
    <3> SUFFICES ASSUME NEW p \in 1..Len(rest), rest[p] \in C \union G
                 PROVE  FALSE
      OBVIOUS
    <3>1. PICK q \in 1..m : rest[p] = queue[q]
      BY <1>8, <1>9
    <3>2. q \in 1..Len(queue) /\ p + m # q
      BY <2>0, <2>1
    <3> QED
      BY <1>2, <2>1, <3>1, <3>2
  <2>3. \A p, q \in 1..Len(rest) : rest[p] = rest[q] => p = q
    <3> SUFFICES ASSUME NEW p \in 1..Len(rest), NEW q \in 1..Len(rest), rest[p] = rest[q]
                 PROVE  p = q
      OBVIOUS
    <3>1. p + m = q + m
      BY <1>2, <2>1
    <3> QED
      BY <2>0, <3>1
  <2>4. ASSUME NEW i \in Items, item[i].node = n, item[i].status = "pending", i \notin C \union G
        PROVE  \E p \in 1..Len(rest) : rest[p] = i
    <3>1. PICK q \in 1..Len(queue) : queue[q] = i
      BY <1>2, <2>4
    <3>2. q > m
      BY <1>10, <2>0, <2>4, <3>1
    <3>3. q - m \in 1..Len(rest) /\ q - m + m = q
      BY <1>6, <2>0, <3>2
    <3>4. rest[q - m] = queue[q]
      BY <2>1, <3>3
    <3> QED
      BY <3>1, <3>3, <3>4
  <2>5. \A p \in 1..Len(rest) :
          /\ item[rest[p]].node = n /\ item[rest[p]].status \in {"unsent", "pending"}
          /\ item[rest[p]].gen <= issued[item[rest[p]].uid]
    BY <1>2, <2>1
  <2> QED
    BY <1>6, <2>2, <2>3, <2>4, <2>5 DEF FitsQueue
<1>16. \A i \in Items : item[i].node = n => item[i].status # "inflight"
  BY NodeFacts DEF FitsWork, FitsNode
<1>17. Ready(n, taken, C, C, G)
  BY <1>7, <1>11, <1>14, <1>15, <1>16 DEF Ready
<1> QED
  BY <1>1, <1>17, ProceedStep

LEMMA NextStageStep ==
  ASSUME IInv, UNCHANGED issued, NEW n \in Nodes, node[n].at \in {"lock", "action"},
         NEW D, NEW F, D \intersect F = {}, D \union F \subseteq node[n].todo,
         NextStage(n, node[n].todo \ (D \union F), D, F)
  PROVE  IInv' /\ EntryKept /\ NoLateAction
<1> DEFINE todo == node[n].todo \ (D \union F)
<1>1. CASE /\ todo # {} /\ ChunkMayStart(n)
           /\ node' = [node EXCEPT ![n].at = "action", ![n].todo = todo]
           /\ Report({}, D, F)
  <2>1. node' = [node EXCEPT ![n] = [node[n] EXCEPT !.at = "action", !.todo = todo]]
    BY <1>1
  <2>2. node[n].close # "finalized"
    BY <1>1 DEF ChunkMayStart
  <2> QED
    BY <1>1, <2>1, <2>2, WorkStep
<1>2. CASE /\ node' = [node EXCEPT ![n].at = "logout", ![n].todo = {}]
           /\ Report({}, D, F \union todo)
  <2> DEFINE E == F \union todo
  <2>1. D \intersect E = {} /\ D \union E \subseteq node[n].todo /\ node[n].todo \ (D \union E) = {}
    OBVIOUS
  <2>2. node' = [node EXCEPT ![n] = [node[n] EXCEPT !.at = "logout", !.todo = {}]]
    BY <1>2
  <2>3. node' = [node EXCEPT ![n] = [node[n] EXCEPT !.at = "logout", !.todo = node[n].todo \ (D \union E)]]
    BY <2>1, <2>2
  <2>4. Report({}, D, E)
    BY <1>2
  <2> HIDE DEF E
  <2> QED
    BY <2>1, <2>3, <2>4, WorkStep
<1> QED
  BY <1>1, <1>2 DEF NextStage

-----------------------------------------------------------------------------
(* The steps.                                                              *)

\* A step that only changes the node's phase.
LEMMA QuietStep ==
  ASSUME IInv, UNCHANGED issued, entry' = entry, item' = item, NEW n \in Nodes, NEW h,
         node' = [node EXCEPT ![n] = h], h.pending = node[n].pending,
         h.todo = node[n].todo, h.later = node[n].later, FitsNode(n, h, {}, {}, {})
  PROVE  IInv' /\ EntryKept /\ NoLateAction
<1>1. Report({}, {}, {})
  BY NoReport
<1>2. /\ FitsSets(n, {}, {}, {}) /\ FitsQueue(n, node[n].pending, {}, {}, {})
      /\ FitsWork(n, node[n].todo \union node[n].later, {}, {}, {})
  BY NodeFacts
<1>3. Fits(n, h, {}, {}, {})
  BY <1>2 DEF Fits
<1> QED
  BY <1>1, <1>3, NodeStep

LEMMA NewItem ==
  ASSUME NEW n \in Nodes, NEW u \in Uids, NEW g \in 0..MaxGeneration, NEW p \in Plans
  PROVE  [status |-> "unsent", node |-> n, uid |-> u, gen |-> g, plan |-> p, claimed |-> FALSE,
          result |-> "none", outputs |-> 0] \in Item
  BY DEF Item

LEMMA InitInvariant == Init => IInv
<1> SUFFICES ASSUME Init PROVE IInv
  OBVIOUS
<1>1. \A i \in Items : /\ item[i] \in Item /\ item[i].status = "unsent" /\ ~item[i].claimed
                       /\ item[i].result = "none" /\ item[i].outputs = 0 /\ item[i].gen # 0
  <2>1. item \in [Items -> [status : {"unsent"}, node : Nodes, uid : Uids, gen : 1..MaxGeneration,
                            plan : Plans, claimed : {FALSE}, result : {"none"}, outputs : {0}]]
    BY DEF Init
  <2>2. 1..MaxGeneration \subseteq 0..MaxGeneration /\ 0 \notin 1..MaxGeneration
    BY LimitAssumption
  <2> SUFFICES ASSUME NEW i \in Items
               PROVE  /\ item[i] \in Item /\ item[i].status = "unsent" /\ ~item[i].claimed
                      /\ item[i].result = "none" /\ item[i].outputs = 0 /\ item[i].gen # 0
    OBVIOUS
  <2>3. item[i] \in [status : {"unsent"}, node : Nodes, uid : Uids, gen : 1..MaxGeneration,
                     plan : Plans, claimed : {FALSE}, result : {"none"}, outputs : {0}]
    BY <2>1
  <2>4. /\ item[i].status = "unsent" /\ item[i].claimed = FALSE /\ item[i].result = "none"
        /\ item[i].outputs = 0 /\ item[i].gen \in 1..MaxGeneration
    BY <2>3
  <2>5. item[i] \in Item
    <3>1. item[i] = [status |-> "unsent", node |-> item[i].node, uid |-> item[i].uid,
                     gen |-> item[i].gen, plan |-> item[i].plan, claimed |-> FALSE,
                     result |-> "none", outputs |-> 0]
      BY <2>3
    <3>2. item[i].node \in Nodes /\ item[i].uid \in Uids /\ item[i].plan \in Plans /\ item[i].gen \in 0..MaxGeneration
      BY <2>2, <2>3
    <3> QED
      BY <3>1, <3>2, NewItem
  <2> QED
    BY <2>2, <2>4, <2>5
<1>2. \A n \in Nodes : node[n] = IdleNode
  BY DEF Init
<1>3. IdleNode \in Node
  <2>1. <<>> \in Seq(Items)
    OBVIOUS
  <2> QED
    BY <2>1 DEF IdleNode, Node
<1>4. NoEntry \in Entry /\ ~NoEntry.claimed /\ NoEntry.gen = 0
  BY LimitAssumption DEF NoEntry, Entry
<1>5. TypeOK
  <2>1. entry \in [Uids -> Entry]
    BY <1>4 DEF Init
  <2>2. issued \in [Uids -> 0..MaxGeneration]
    BY LimitAssumption DEF Init
  <2>3. item \in [Items -> Item] /\ node \in [Nodes -> Node]
    BY <1>1, <1>2, <1>3 DEF Init
  <2>4. \A n \in Nodes : node[n].at = "idle" /\ node[n].batch = <<>> /\ node[n].todo = {} /\ node[n].later = {}
    BY <1>2 DEF IdleNode
  <2> QED
    BY <2>1, <2>2, <2>3, <2>4 DEF TypeOK
<1>6. \A n \in Nodes : /\ node[n].pending = <<>> /\ node[n].todo = {} /\ node[n].later = {}
                       /\ node[n].close = "open" /\ ~node[n].timer /\ node[n].at = "idle"
  BY <1>2 DEF IdleNode
<1>7. Queues /\ Work /\ Closing
  <2>1. Len(<<>>) = 0
    OBVIOUS
  <2>2. \A n \in Nodes : 1..Len(node[n].pending) = {}
    BY <1>6, <2>1
  <2> QED
    BY <1>1, <1>6, <2>2 DEF Queues, Work, InWork, Closing
<1>8. Claims
  BY <1>1, <1>4 DEF Init, Claims
<1>9. \A u \in Uids : entry[u].gen <= issued[u]
  BY <1>4 DEF Init
<1>10. OneOutput /\ History /\ AcknowledgedOnce
  BY <1>1, <1>9 DEF OneOutput, Settled, History, AcknowledgedOnce
<1> QED
  BY <1>5, <1>7, <1>8, <1>10 DEF IInv

\* An input node only touches entries that nobody claims.
LEMMA EntryStep ==
  ASSUME IInv, NEW u \in Uids, ~entry[u].claimed, UNCHANGED <<item, node>>,
         NEW e \in Entry, ~e.claimed, entry' = [entry EXCEPT ![u] = e],
         issued' \in [Uids -> 0..MaxGeneration],
         \A v \in Uids : issued[v] <= issued'[v], e.gen <= issued'[u],
         e.gen = 0 \/ e.gen > issued[u]
  PROVE  IInv' /\ EntryKept /\ NoLateAction
<1>1. TypeOK /\ Queues /\ Work /\ Closing /\ Claims /\ OneOutput /\ History /\ AcknowledgedOnce
  BY DEF IInv
<1>2. entry \in [Uids -> Entry]
  BY <1>1 DEF TypeOK
<1>3. entry'[u] = e /\ \A v \in Uids : v # u => entry'[v] = entry[v]
  BY <1>2
<1>4. TypeOK'
  <2>1. entry' \in [Uids -> Entry]
    BY <1>2
  <2> QED
    BY <1>1, <2>1 DEF TypeOK
<1>5. Queues' /\ Work' /\ Closing' /\ OneOutput' /\ AcknowledgedOnce'
  BY <1>1 DEF Queues, InQueue, Work, InWork, Closing, OneOutput, Settled, AcknowledgedOnce
<1>6. \A i \in Items : item[i].uid \in Uids
  BY <1>1 DEF TypeOK, Item
<1>7. Claims'
  <2>1. ASSUME NEW v \in Uids, entry'[v].claimed
        PROVE  \E i \in Items : item'[i].claimed /\ Concerns(i, v)'
    <3>1. v # u
      BY <1>3, <2>1
    <3> QED
      BY <1>1, <1>3, <2>1, <3>1 DEF Claims, Concerns
  <2>2. ASSUME NEW i \in Items, item[i].claimed
        PROVE  item[i].gen = entry'[item[i].uid].gen /\ entry'[item[i].uid].claimed
    <3>1. item[i].uid # u
      BY <1>1, <2>2 DEF Claims
    <3> QED
      BY <1>1, <1>3, <1>6, <2>2, <3>1 DEF Claims, Concerns
  <2> QED
    BY <1>1, <2>1, <2>2 DEF Claims, Concerns
<1>8. \A v \in Uids : issued[v] \in Nat /\ issued'[v] \in Nat
  <2>1. issued \in [Uids -> 0..MaxGeneration] /\ MaxGeneration \in Nat
    BY <1>1, LimitAssumption DEF TypeOK
  <2> QED
    BY <2>1
<1>9. \A i \in Items : item[i].gen \in Nat
  BY <1>1, LimitAssumption DEF TypeOK, Item
<1>10. History'
  <2>1. \A v \in Uids : entry'[v].gen <= issued'[v]
    <3>1. \A v \in Uids : entry[v].gen \in Nat
      BY <1>2, LimitAssumption DEF Entry
    <3> QED
      BY <1>1, <1>3, <1>8, <3>1 DEF History
  <2>2. \A i \in Items : item[i].gen <= issued[item[i].uid] => item[i].gen <= issued'[item[i].uid]
    BY <1>6, <1>8, <1>9
  <2>3. ASSUME NEW i \in Items, item[i].result = "ok"
        PROVE  item[i].gen # entry'[item[i].uid].gen
    <3>1. item[i].gen <= issued[item[i].uid] /\ item[i].gen # entry[item[i].uid].gen /\ item[i].gen # 0
      BY <1>1, <2>3 DEF History
    <3>2. CASE item[i].uid = u
      BY <1>3, <1>8, <1>9, <3>1, <3>2
    <3>3. CASE item[i].uid # u
      BY <1>3, <1>6, <3>1, <3>3
    <3> QED
      BY <3>2, <3>3
  <2>4. /\ \A i \in Items : item[i].gen # 0
        /\ \A i \in Items : item[i].status # "unsent" => item[i].gen <= issued[item[i].uid]
        /\ \A i \in Items : item[i].result = "ok" => item[i].gen <= issued[item[i].uid]
    BY <1>1 DEF History
  <2> QED
    BY <2>1, <2>2, <2>3, <2>4 DEF History
<1>11. EntryKept
  BY <1>3 DEF EntryKept
<1>12. NoLateAction
  BY DEF NoLateAction
<1> QED
  BY <1>4, <1>5, <1>7, <1>10, <1>11, <1>12 DEF IInv

LEMMA NextInvariant == IInv /\ Next => IInv' /\ EntryKept /\ NoLateAction
<1> SUFFICES ASSUME IInv, Next PROVE IInv' /\ EntryKept /\ NoLateAction
  OBVIOUS
<1>0. TypeOK /\ Closing /\ Queues
  BY DEF IInv
<1>1. ASSUME NEW u \in Uids, Emit(u) PROVE IInv' /\ EntryKept /\ NoLateAction
  <2> DEFINE e == [gen |-> issued[u] + 1, claimed |-> FALSE]
  <2>1. issued \in [Uids -> 0..MaxGeneration] /\ MaxGeneration \in Nat
    BY <1>0, LimitAssumption DEF TypeOK
  <2>2. issued[u] + 1 \in 0..MaxGeneration /\ issued' = [issued EXCEPT ![u] = issued[u] + 1]
    BY <1>1, <2>1 DEF Emit
  <2>3. /\ issued' \in [Uids -> 0..MaxGeneration] /\ issued'[u] = issued[u] + 1
        /\ \A v \in Uids : issued[v] <= issued'[v]
    BY <2>1, <2>2
  <2>4. e \in Entry /\ ~e.claimed /\ e.gen = issued[u] + 1
    BY <2>2 DEF Entry
  <2>5. ~entry[u].claimed /\ entry' = [entry EXCEPT ![u] = e] /\ UNCHANGED <<item, node>>
    BY <1>1 DEF Emit
  <2>6. e.gen <= issued'[u] /\ e.gen > issued[u]
    BY <2>1, <2>3, <2>4
  <2> HIDE DEF e
  <2> QED
    BY <2>3, <2>4, <2>5, <2>6, EntryStep
<1>2. ASSUME NEW u \in Uids, Forget(u) PROVE IInv' /\ EntryKept /\ NoLateAction
  <2>1. issued \in [Uids -> 0..MaxGeneration] /\ MaxGeneration \in Nat
    BY <1>0, LimitAssumption DEF TypeOK
  <2>2. /\ ~entry[u].claimed /\ entry' = [entry EXCEPT ![u] = NoEntry]
        /\ UNCHANGED <<item, node>> /\ issued' = issued
    BY <1>2 DEF Forget
  <2>3. NoEntry \in Entry /\ ~NoEntry.claimed /\ NoEntry.gen = 0
    BY LimitAssumption DEF NoEntry, Entry
  <2>4. \A v \in Uids : issued[v] <= issued'[v] /\ 0 <= issued'[v]
    BY <2>1, <2>2
  <2> QED
    BY <2>1, <2>2, <2>3, <2>4, EntryStep
<1>3. ASSUME NEW i \in Items, Input(i) PROVE IInv' /\ EntryKept /\ NoLateAction
  <2> DEFINE n == item[i].node
             full == [node[n] EXCEPT !.pending = Append(@, i)]
  <2>1. n \in Nodes
    BY <1>0 DEF TypeOK, Item
  <2> HIDE DEF n
  <2>2. node[n] \in Node
    BY <1>0, <2>1 DEF TypeOK
  <2>3. /\ item[i].status = "unsent" /\ item[i].gen <= issued[item[i].uid]
        /\ node[n].close # "finalized" /\ UNCHANGED issued
        /\ \/ /\ ~Running(n)
              /\ Flush(n, [full EXCEPT !.timer = FALSE])
           \/ /\ Running(n)
              /\ node' = [node EXCEPT ![n] = [full EXCEPT !.timer = FALSE]]
              /\ Report({}, {}, {})
           \/ /\ node' = [node EXCEPT ![n] = [full EXCEPT !.timer = @ \/ full.close = "open"]]
              /\ Report({}, {}, {})
    BY <1>3 DEF Input, n
  <2>4. /\ FitsQueue(n, node[n].pending, {}, {}, {}) /\ FitsSets(n, {}, {}, {})
        /\ FitsWork(n, node[n].todo \union node[n].later, {}, {}, {}) /\ FitsNode(n, node[n], {}, {}, {})
    BY <2>1, NodeFacts
  <2> DEFINE queue == Append(node[n].pending, i)
  <2>5. FitsQueue(n, queue, {}, {}, {})
    <3>1. node[n].pending \in Seq(Items)
      BY <2>2 DEF Node
    <3>2. /\ queue \in Seq(Items) /\ Len(queue) = Len(node[n].pending) + 1 /\ Len(node[n].pending) \in Nat
          /\ queue[Len(queue)] = i
          /\ \A p \in 1..Len(queue) : p = Len(queue) \/ (p \in 1..Len(node[n].pending) /\ queue[p] = node[n].pending[p])
          /\ \A p \in 1..Len(node[n].pending) : p \in 1..Len(queue) /\ queue[p] = node[n].pending[p]
      BY <3>1
    <3> HIDE DEF queue
    <3>3. \A p \in 1..Len(node[n].pending) : node[n].pending[p] # i
      BY <1>0, <2>1, <2>3 DEF Queues
    <3>4. \A p, q \in 1..Len(queue) : queue[p] = queue[q] => p = q
      BY <2>4, <3>2, <3>3 DEF FitsQueue
    <3>5. \A p \in 1..Len(queue) :
            /\ item[queue[p]].node = n /\ item[queue[p]].status \in {"unsent", "pending"}
            /\ item[queue[p]].gen <= issued[item[queue[p]].uid]
      <4> SUFFICES ASSUME NEW p \in 1..Len(queue)
                   PROVE  /\ item[queue[p]].node = n /\ item[queue[p]].status \in {"unsent", "pending"}
                          /\ item[queue[p]].gen <= issued[item[queue[p]].uid]
        OBVIOUS
      <4>1. CASE p = Len(queue)
        BY <2>3, <3>2, <4>1 DEF n
      <4>2. CASE p \in 1..Len(node[n].pending) /\ queue[p] = node[n].pending[p]
        BY <2>4, <4>2 DEF FitsQueue
      <4> QED
        BY <3>2, <4>1, <4>2
    <3>6. \A j \in Items : item[j].node = n /\ item[j].status = "pending" => \E p \in 1..Len(queue) : queue[p] = j
      BY <2>4, <3>2 DEF FitsQueue
    <3> QED
      BY <3>2, <3>4, <3>5, <3>6 DEF FitsQueue
  <2>6. /\ full \in Node /\ full.pending = queue /\ full.close = node[n].close /\ full.at = node[n].at
        /\ full.batch = node[n].batch /\ full.todo = node[n].todo /\ full.later = node[n].later
        /\ full.timer = node[n].timer
    <3>1. queue \in Seq(Items)
      BY <2>5 DEF FitsQueue
    <3> QED
      BY <2>2, <3>1 DEF Node
  <2> HIDE DEF full, queue
  <2>7. \A t \in BOOLEAN : LET h == [full EXCEPT !.timer = t]
          IN  /\ h \in Node /\ h.pending = queue /\ h.close = node[n].close /\ h.at = node[n].at
              /\ h.batch = node[n].batch /\ h.todo = node[n].todo /\ h.later = node[n].later /\ h.timer = t
    BY <2>6 DEF Node
  <2>8. CASE ~Running(n) /\ Flush(n, [full EXCEPT !.timer = FALSE])
    <3> DEFINE h == [full EXCEPT !.timer = FALSE]
    <3>1. h \in Node /\ h.pending = queue /\ h.close # "finalized" /\ ~h.timer
      BY <2>3, <2>7
    <3>2. node[n].at = "idle" /\ Flush(n, h)
      BY <2>8 DEF Running
    <3> HIDE DEF h
    <3> QED
      BY <2>1, <2>3, <2>5, <3>1, <3>2, FlushStep
  <2>9. ASSUME NEW t \in BOOLEAN, t => full.close = "open",
               full.close = "open" => t \/ node[n].at # "idle",
               node' = [node EXCEPT ![n] = [full EXCEPT !.timer = t]], Report({}, {}, {})
        PROVE  IInv' /\ EntryKept /\ NoLateAction
    <3> DEFINE h == [full EXCEPT !.timer = t]
    <3>1. /\ h \in Node /\ h.pending = queue /\ h.close = node[n].close /\ h.at = node[n].at
          /\ h.batch = node[n].batch /\ h.todo = node[n].todo /\ h.later = node[n].later /\ h.timer = t
      BY <2>7
    <3>2. node' = [node EXCEPT ![n] = h]
      BY <2>9
    <3> HIDE DEF h
    <3>3. FitsNode(n, h, {}, {}, {})
      BY <2>3, <2>4, <2>6, <2>9, <3>1 DEF FitsNode
    <3>4. Fits(n, h, {}, {}, {})
      BY <2>4, <2>5, <3>1, <3>3 DEF Fits
    <3> QED
      BY <2>1, <2>3, <2>9, <3>2, <3>4, NodeStep
  <2>10. CASE /\ Running(n)
              /\ node' = [node EXCEPT ![n] = [full EXCEPT !.timer = FALSE]]
              /\ Report({}, {}, {})
    BY <2>9, <2>10 DEF Running
  <2>11. CASE /\ node' = [node EXCEPT ![n] = [full EXCEPT !.timer = @ \/ full.close = "open"]]
              /\ Report({}, {}, {})
    <3>1. full.timer \in BOOLEAN /\ (full.timer => full.close = "open")
      BY <2>4, <2>6 DEF FitsNode, Node
    <3>2. (full.timer \/ full.close = "open") \in BOOLEAN
      BY <3>1
    <3>3. node' = [node EXCEPT ![n] = [full EXCEPT !.timer = full.timer \/ full.close = "open"]]
      BY <2>11
    <3> QED
      BY <2>9, <2>11, <3>1, <3>2, <3>3
  <2> QED
    BY <2>3, <2>8, <2>10, <2>11
<1>4. ASSUME NEW n \in Nodes, TimerFires(n) PROVE IInv' /\ EntryKept /\ NoLateAction
  <2> DEFINE h == [node[n] EXCEPT !.timer = FALSE]
  <2>1. /\ FitsQueue(n, node[n].pending, {}, {}, {}) /\ FitsNode(n, node[n], {}, {}, {})
    BY NodeFacts
  <2>2. node[n] \in Node
    BY <2>1 DEF FitsNode
  <2>3. /\ h \in Node /\ h.pending = node[n].pending /\ h.close = node[n].close /\ h.at = node[n].at
        /\ h.batch = node[n].batch /\ h.todo = node[n].todo /\ h.later = node[n].later /\ h.timer = FALSE
    BY <2>2 DEF Node
  <2>4. UNCHANGED issued /\ node[n].close = "open"
    BY <1>4, <2>1 DEF TimerFires, FitsNode
  <2>5. CASE ~Running(n) /\ Flush(n, h)
    <3>1. node[n].at = "idle" /\ Flush(n, h)
      BY <2>5 DEF Running
    <3>2. h.close # "finalized" /\ ~h.timer
      BY <2>3, <2>4
    <3> HIDE DEF h
    <3> QED
      BY <2>1, <2>3, <2>4, <3>1, <3>2, FlushStep
  <2>6. CASE /\ Running(n) \/ node[n].pending = <<>>
             /\ node' = [node EXCEPT ![n].timer = FALSE]
             /\ UNCHANGED <<entry, item>>
    <3>1. node' = [node EXCEPT ![n] = h] /\ entry' = entry /\ item' = item
      BY <2>6
    <3> HIDE DEF h
    <3>2. FitsNode(n, h, {}, {}, {})
      BY <2>1, <2>3, <2>4, <2>6 DEF FitsNode, Running
    <3> QED
      BY <2>3, <2>4, <3>1, <3>2, QuietStep
  <2> QED
    BY <1>4, <2>5, <2>6 DEF TimerFires
<1>5. ASSUME NEW n \in Nodes, node[n].at \in {"connect", "lock"}, UNCHANGED issued,
             node' = [node EXCEPT ![n].at = "logout", ![n].todo = {}], Report({}, {}, node[n].todo)
      PROVE  IInv' /\ EntryKept /\ NoLateAction
  <2> DEFINE F == node[n].todo
  <2>1. {} \intersect F = {} /\ {} \union F \subseteq node[n].todo /\ node[n].todo \ ({} \union F) = {}
    OBVIOUS
  <2>2. node' = [node EXCEPT ![n] = [node[n] EXCEPT !.at = "logout", !.todo = {}]]
    BY <1>5
  <2>3. node' = [node EXCEPT ![n] = [node[n] EXCEPT !.at = "logout", !.todo = node[n].todo \ ({} \union F)]]
    BY <2>1, <2>2
  <2>4. Report({}, {}, F)
    BY <1>5
  <2> HIDE DEF F
  <2> QED
    BY <1>5, <2>1, <2>3, <2>4, WorkStep
<1>6. ASSUME NEW n \in Nodes, ConnectReply(n) PROVE IInv' /\ EntryKept /\ NoLateAction
  <2>1. node[n].at = "connect" /\ UNCHANGED issued
    BY <1>6 DEF ConnectReply
  <2>2. CASE node' = [node EXCEPT ![n].at = "lock"] /\ UNCHANGED <<entry, item>>
    <3> DEFINE h == [node[n] EXCEPT !.at = "lock"]
    <3>1. FitsNode(n, node[n], {}, {}, {})
      BY NodeFacts
    <3>2. node[n] \in Node
      BY <3>1 DEF FitsNode
    <3>3. /\ h \in Node /\ h.pending = node[n].pending /\ h.close = node[n].close /\ h.at = "lock"
          /\ h.batch = node[n].batch /\ h.todo = node[n].todo /\ h.later = node[n].later /\ h.timer = node[n].timer
      BY <3>2 DEF Node
    <3>4. node' = [node EXCEPT ![n] = h] /\ entry' = entry /\ item' = item
      BY <2>2
    <3> HIDE DEF h
    <3>5. FitsNode(n, h, {}, {}, {})
      BY <3>1, <3>3 DEF FitsNode
    <3> QED
      BY <2>1, <3>3, <3>4, <3>5, QuietStep
  <2>3. CASE /\ node' = [node EXCEPT ![n].at = "logout", ![n].todo = {}]
             /\ Report({}, {}, node[n].todo)
    BY <1>5, <2>1, <2>3
  <2> QED
    BY <1>6, <2>2, <2>3 DEF ConnectReply
<1>7. ASSUME NEW n \in Nodes, LockReply(n) PROVE IInv' /\ EntryKept /\ NoLateAction
  <2>1. node[n].at = "lock" /\ UNCHANGED issued
    BY <1>7 DEF LockReply
  <2>2. CASE NextStage(n, node[n].todo, {}, {})
    <3> DEFINE D == {}
    <3>1. D \intersect D = {} /\ D \union D \subseteq node[n].todo /\ node[n].todo = node[n].todo \ (D \union D)
      OBVIOUS
    <3>2. NextStage(n, node[n].todo \ (D \union D), D, D)
      BY <2>2, <3>1
    <3> HIDE DEF D
    <3> QED
      BY <2>1, <3>1, <3>2, NextStageStep
  <2>3. CASE /\ node' = [node EXCEPT ![n].at = "logout", ![n].todo = {}]
             /\ Report({}, {}, node[n].todo)
    BY <1>5, <2>1, <2>3
  <2> QED
    BY <1>7, <2>2, <2>3 DEF LockReply
<1>8. ASSUME NEW n \in Nodes, ActionReply(n) PROVE IInv' /\ EntryKept /\ NoLateAction
  <2> DEFINE todo == node[n].todo
             chunk == NextChunk(todo)
  <2>1. /\ node[n].at = "action" /\ UNCHANGED issued
        /\ \/ NextStage(n, todo \ chunk, chunk, {})
           \/ NextStage(n, todo \ chunk, {}, chunk)
           \/ NextStage(n, {}, {}, todo)
    BY <1>8 DEF ActionReply
  <2>2. chunk \subseteq todo
    BY DEF NextChunk
  <2> HIDE DEF chunk
  <2>3. ASSUME NEW D, NEW F, D \intersect F = {}, D \union F \subseteq node[n].todo,
               NextStage(n, node[n].todo \ (D \union F), D, F)
        PROVE  IInv' /\ EntryKept /\ NoLateAction
    BY <2>1, <2>3, NextStageStep
  <2>4. CASE NextStage(n, todo \ chunk, chunk, {})
    <3>1. chunk \union {} = chunk /\ chunk \intersect {} = {}
      OBVIOUS
    <3> QED
      BY <2>2, <2>3, <2>4, <3>1
  <2>5. CASE NextStage(n, todo \ chunk, {}, chunk)
    <3>1. {} \union chunk = chunk /\ {} \intersect chunk = {}
      OBVIOUS
    <3> QED
      BY <2>2, <2>3, <2>5, <3>1
  <2>6. CASE NextStage(n, {}, {}, todo)
    <3>1. {} \union todo = todo /\ {} \intersect todo = {} /\ todo \ todo = {}
      OBVIOUS
    <3> QED
      BY <2>3, <2>6, <3>1
  <2> QED
    BY <2>1, <2>4, <2>5, <2>6
<1>9. ASSUME NEW n \in Nodes, LogoutReply(n) PROVE IInv' /\ EntryKept /\ NoLateAction
  <2>1. node[n].at = "logout" /\ UNCHANGED issued /\ Proceed(n, node[n], node[n].later, {}, {})
    BY <1>9 DEF LogoutReply
  <2>2. /\ FitsSets(n, {}, {}, {}) /\ FitsQueue(n, node[n].pending, {}, {}, {})
        /\ FitsWork(n, node[n].todo \union node[n].later, {}, {}, {}) /\ FitsNode(n, node[n], {}, {}, {})
        /\ \A i \in node[n].todo \union node[n].later : item[i].claimed \/ Settled(i)
    BY NodeFacts
  <2>3. node[n].todo = {}
    BY <2>1, <2>2 DEF FitsNode
  <2>4. Ready(n, node[n], node[n].later, {}, {})
    BY <2>2, <2>3 DEF Ready, FitsWork, FitsNode
  <2> QED
    BY <2>1, <2>4, ProceedStep
<1>10. ASSUME NEW n \in Nodes, Close(n) PROVE IInv' /\ EntryKept /\ NoLateAction
  <2> DEFINE here == [node[n] EXCEPT !.timer = FALSE, !.close = "closing"]
  <2>1. /\ node[n].close = "open" /\ UNCHANGED issued
        /\ \/ /\ ~Running(n) /\ here.pending # <<>>
              /\ Flush(n, here)
           \/ /\ ~Running(n) /\ here.pending = <<>>
              /\ node' = [node EXCEPT ![n] = [here EXCEPT !.close = "finalized"]]
              /\ UNCHANGED <<entry, item>>
           \/ /\ Running(n)
              /\ node' = [node EXCEPT ![n] = here]
              /\ UNCHANGED <<entry, item>>
    BY <1>10 DEF Close
  <2>2. /\ FitsQueue(n, node[n].pending, {}, {}, {}) /\ FitsNode(n, node[n], {}, {}, {})
        /\ FitsWork(n, node[n].todo \union node[n].later, {}, {}, {})
    BY NodeFacts
  <2>3. node[n] \in Node
    BY <2>2 DEF FitsNode
  <2>4. /\ here \in Node /\ here.pending = node[n].pending /\ here.close = "closing" /\ here.at = node[n].at
        /\ here.batch = node[n].batch /\ here.todo = node[n].todo /\ here.later = node[n].later /\ here.timer = FALSE
    BY <2>3 DEF Node
  <2> HIDE DEF here
  <2>5. CASE ~Running(n) /\ Flush(n, here)
    <3>1. node[n].at = "idle" /\ here.close # "finalized" /\ ~here.timer
      BY <2>4, <2>5 DEF Running
    <3> QED
      BY <2>1, <2>2, <2>4, <2>5, <3>1, FlushStep
  <2>6. CASE /\ ~Running(n) /\ here.pending = <<>>
             /\ node' = [node EXCEPT ![n] = [here EXCEPT !.close = "finalized"]]
             /\ UNCHANGED <<entry, item>>
    <3> DEFINE h == [here EXCEPT !.close = "finalized"]
    <3>1. /\ h \in Node /\ h.pending = here.pending /\ h.close = "finalized" /\ h.at = here.at
          /\ h.batch = here.batch /\ h.todo = here.todo /\ h.later = here.later /\ h.timer = here.timer
      BY <2>4 DEF Node
    <3>2. node' = [node EXCEPT ![n] = h] /\ entry' = entry /\ item' = item
      BY <2>6
    <3> HIDE DEF h
    <3>3. node[n].at = "idle" /\ node[n].todo = {} /\ node[n].later = {}
      BY <2>2, <2>6 DEF Running, FitsNode
    <3>4. \A i \in Items : item[i].node = n => item[i].status # "inflight"
      BY <2>2, <3>3 DEF FitsWork
    <3>5. FitsNode(n, h, {}, {}, {})
      BY <2>2, <2>4, <2>6, <3>1, <3>3, <3>4 DEF FitsNode
    <3> QED
      BY <2>1, <2>4, <3>1, <3>2, <3>5, QuietStep
  <2>7. CASE /\ Running(n)
             /\ node' = [node EXCEPT ![n] = here]
             /\ UNCHANGED <<entry, item>>
    <3>1. FitsNode(n, here, {}, {}, {})
      BY <2>1, <2>2, <2>4 DEF FitsNode
    <3>2. entry' = entry /\ item' = item
      BY <2>7
    <3> QED
      BY <2>1, <2>4, <2>7, <3>1, <3>2, QuietStep
  <2> QED
    BY <2>1, <2>5, <2>6, <2>7
<1>11. ASSUME NEW n \in Nodes, Deadline(n) PROVE IInv' /\ EntryKept /\ NoLateAction
  <2> DEFINE h == [node[n] EXCEPT !.pending = <<>>, !.close = "finalized"]
             F == FailedAtClose(n, node[n])
  <2>1. /\ node[n].close = "closing" /\ UNCHANGED issued
        /\ node' = [node EXCEPT ![n] = h] /\ Report({}, {}, F)
    BY <1>11 DEF Deadline
  <2>2. /\ FitsQueue(n, node[n].pending, {}, {}, {}) /\ FitsNode(n, node[n], {}, {}, {})
        /\ FitsWork(n, node[n].todo \union node[n].later, {}, {}, {})
    BY NodeFacts
  <2>3. node[n] \in Node
    BY <2>2 DEF FitsNode
  <2>4. /\ h \in Node /\ h.pending = <<>> /\ h.close = "finalized" /\ h.at = node[n].at
        /\ h.batch = node[n].batch /\ h.todo = node[n].todo /\ h.later = node[n].later /\ h.timer = node[n].timer
    BY <2>3, ClosedNode
  <2>5. \A i \in F : i \in Items /\ item[i].node = n /\ item[i].gen <= issued[item[i].uid]
    <3> SUFFICES ASSUME NEW i \in F
                 PROVE  i \in Items /\ item[i].node = n /\ item[i].gen <= issued[item[i].uid]
      OBVIOUS
    <3>1. CASE i \in InflightItems(n)
      BY <3>1 DEF InflightItems, IInv, History
    <3>2. CASE i \in Elements(node[n].pending)
      <4>1. PICK p \in 1..Len(node[n].pending) : i = node[n].pending[p]
        BY <3>2 DEF Elements
      <4>2. node[n].pending \in Seq(Items)
        BY <2>2 DEF FitsQueue
      <4>3. i \in Items
        BY <4>1, <4>2
      <4> QED
        BY <2>2, <4>1, <4>3 DEF FitsQueue
    <3> QED
      BY <3>1, <3>2 DEF FailedAtClose
  <2>6. \A i \in Items : item[i].node = n /\ item[i].status \in {"pending", "inflight"} => i \in F
    BY <2>2 DEF FailedAtClose, InflightItems, Elements, FitsQueue
  <2> HIDE DEF h, F
  <2>7. FitsSets(n, {}, {}, F)
    BY <2>5 DEF FitsSets
  <2>8. FitsQueue(n, h.pending, {}, {}, F)
    <3>1. h.pending \in Seq(Items) /\ Len(h.pending) = 0
      BY <2>4
    <3> QED
      BY <2>6, <3>1 DEF FitsQueue
  <2>9. FitsWork(n, h.todo \union h.later, {}, {}, F)
    BY <2>2, <2>4 DEF FitsWork
  <2>10. FitsNode(n, h, {}, {}, F)
    BY <2>1, <2>2, <2>4, <2>6 DEF FitsNode
  <2>11. Fits(n, h, {}, {}, F)
    BY <2>7, <2>8, <2>9, <2>10 DEF Fits
  <2> QED
    BY <2>1, <2>11, NodeStep
<1> QED
  BY <1>1, <1>2, <1>3, <1>4, <1>6, <1>7, <1>8, <1>9, <1>10, <1>11 DEF Next

LEMMA Stuttering == IInv /\ UNCHANGED vars => IInv'
  BY DEF vars, IInv, TypeOK, Queues, InQueue, Work, InWork, Closing, Claims, Concerns, OneOutput,
         Settled, History, AcknowledgedOnce

LEMMA Invariant == Spec => []IInv
<1>1. IInv /\ [Next]_vars => IInv'
  BY NextInvariant, Stuttering
<1> QED
  BY <1>1, InitInvariant, PTL DEF Spec

-----------------------------------------------------------------------------
(* The theorems.                                                           *)

\* The state has the shape the code gives it.
THEOREM TypeCorrect == Spec => []TypeOK
<1>1. IInv => TypeOK
  BY DEF IInv
<1> QED
  BY <1>1, Invariant, PTL

\* Every claim belongs to one unsettled ACK of a running flush.
THEOREM ClaimsCorrect == Spec => []ClaimsOwned
<1>1. IInv => ClaimsOwned
  <2> SUFFICES ASSUME IInv PROVE ClaimsOwned
    OBVIOUS
  <2>1. TypeOK /\ Work /\ Claims
    BY DEF IInv
  <2>2. \A i \in Items : item[i].claimed => item[i].status = "inflight" /\ Running(item[i].node)
    BY <2>1 DEF TypeOK, Item, Work, InWork, Running
  <2> QED
    BY <2>1, <2>2 DEF Claims, ClaimsOwned
<1> QED
  BY <1>1, Invariant, PTL

\* Every ACK is answered once, exactly when it is settled.
THEOREM AnswersCorrect == Spec => []OneOutput
<1>1. IInv => OneOutput
  BY DEF IInv
<1> QED
  BY <1>1, Invariant, PTL

\* A message generation is acknowledged at most once.
THEOREM AcknowledgedCorrect == Spec => []AcknowledgedOnce
<1>1. IInv => AcknowledgedOnce
  BY DEF IInv
<1> QED
  BY <1>1, Invariant, PTL

\* An open node with queued ACKs has a timer or a running flush.
THEOREM QueueServed == Spec => []NothingForgotten
<1>1. IInv => NothingForgotten
  BY DEF IInv, Closing, NothingForgotten, Running
<1> QED
  BY <1>1, Invariant, PTL

\* A node that is closed has settled every ACK it took.
THEOREM CloseCorrect == Spec => []CloseComplete
<1>1. IInv => CloseComplete
  <2> SUFFICES ASSUME IInv, NEW n \in Nodes, node[n].close = "finalized"
               PROVE  node[n].pending = <<>> /\ \A i \in Items : item[i].node = n => ~Unsettled(i)
    BY DEF CloseComplete
  <2>1. node[n].pending = <<>> /\ \A i \in Items : item[i].node = n => item[i].status # "inflight"
    BY DEF IInv, Closing
  <2>2. \A i \in Items : item[i].node = n => item[i].status # "pending"
    <3>1. Len(node[n].pending) = 0
      BY <2>1
    <3> QED
      BY <3>1 DEF IInv, Queues, InQueue
  <2> QED
    BY <2>1, <2>2 DEF Unsettled
<1> QED
  BY <1>1, Invariant, PTL

\* A claimed entry goes away only in the step that reports its ACK successful.
THEOREM EntryCorrect == Spec => EntryKeptUntilOk
<1>1. IInv /\ [Next]_vars => [EntryKept]_vars
  BY NextInvariant
<1>2. EntryKeptUntilOk <=> [][EntryKept]_vars
  BY PTL DEF EntryKeptUntilOk, EntryKept
<1> QED
  BY <1>1, <1>2, Invariant, PTL DEF Spec

\* A closed node starts no further IMAP action.
THEOREM CloseSilences == Spec => NoActionAfterClose
<1>1. IInv /\ [Next]_vars => [NoLateAction]_vars
  BY NextInvariant
<1>2. NoActionAfterClose <=> [][NoLateAction]_vars
  BY PTL DEF NoActionAfterClose, NoLateAction
<1> QED
  BY <1>1, <1>2, Invariant, PTL DEF Spec
=============================================================================
