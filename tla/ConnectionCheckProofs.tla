------------------------ MODULE ConnectionCheckProofs ------------------------
(* Theorems about ConnectionCheck for every set of nodes.                  *)
EXTENDS ConnectionCheck, TLAPS, SequenceTheorems

(* Lists of subscribers.                                                   *)

Distinct(s) == \A i, j \in 1..Len(s) : i # j => s[i] # s[j]

\* subscribers.delete
LEMMA RemoveFirstKeeps ==
  ASSUME NEW s \in Seq(Nodes), NEW n, Distinct(s)
  PROVE  /\ RemoveFirst(s, n) \in Seq(Nodes)
         /\ Distinct(RemoveFirst(s, n))
         /\ \A m : Contains(RemoveFirst(s, n), m) <=> Contains(s, m) /\ m # n
         /\ ~Contains(s, n) => RemoveFirst(s, n) = s
<1>1. Len(s) \in Nat /\ \A i \in 1..Len(s) : s[i] \in Nodes
  BY ElementOfSeq, LenProperties
<1>2. CASE ~Contains(s, n)
  <2>1. RemoveFirst(s, n) = s
    BY <1>2 DEF RemoveFirst, Contains
  <2> QED
    BY <1>2, <2>1 DEF Contains
<1>3. CASE Contains(s, n)
  <2>1. PICK p \in 1..Len(s) : s[p] = n
    BY <1>3 DEF Contains
  <2> DEFINE r == RemoveFirst(s, n)
             left == SubSeq(s, 1, p - 1)
             right == SubSeq(s, p + 1, Len(s))
             I == {i \in 1..Len(s) : s[i] = n}
  <2>2. I = {p}
    BY <2>1 DEF Distinct
  <2>3. SelectInSeq(s, LAMBDA v : v = n) = p
    <3>1. I # {}
      BY <2>2
    <3>2. SelectInSeq(s, LAMBDA v : v = n) = Min(I)
      BY <3>1 DEF SelectInSeq
    <3>3. p \in I /\ \A i \in I : p <= i
      BY <1>1, <2>2
    <3>4. Min(I) \in I
      BY <3>3 DEF Min
    <3> QED
      BY <2>2, <3>2, <3>4
  <2>4. r = RemoveAt(s, p)
    BY <1>3, <2>3 DEF RemoveFirst, Contains
  <2>5. r = left \o right
    BY <2>4 DEF RemoveAt
  <2> HIDE DEF r, I
  <2>6. /\ left \in Seq(Nodes)
        /\ Len(left) = p - 1
        /\ \A i \in 1..(p - 1) : left[i] = s[i]
    BY <1>1, <2>1, SubSeqProperties
  <2>7. /\ right \in Seq(Nodes)
        /\ Len(right) = Len(s) - p
        /\ \A i \in 1..(Len(s) - p) : right[i] = s[p + i]
    BY <1>1, <2>1, SubSeqProperties
  <2> HIDE DEF left, right
  <2>8. /\ r \in Seq(Nodes)
        /\ Len(r) = Len(left) + Len(right)
        /\ \A i \in 1..(Len(left) + Len(right)) :
             r[i] = IF i <= Len(left) THEN left[i] ELSE right[i - Len(left)]
    BY <2>5, <2>6, <2>7, ConcatProperties
  <2>9. Len(r) = Len(s) - 1
    BY <1>1, <2>1, <2>6, <2>7, <2>8
  <2> DEFINE at(i) == IF i < p THEN i ELSE i + 1
  <2>10. \A i \in 1..Len(r) : at(i) \in 1..Len(s) /\ at(i) # p /\ r[i] = s[at(i)]
    <3> SUFFICES ASSUME NEW i \in 1..Len(r)
                 PROVE  at(i) \in 1..Len(s) /\ at(i) # p /\ r[i] = s[at(i)]
      OBVIOUS
    <3>1. i \in 1..(Len(left) + Len(right))
      BY <2>8
    <3>2. CASE i < p
      BY <1>1, <2>1, <2>6, <2>8, <3>1, <3>2
    <3>3. CASE ~(i < p)
      <4>1. i - Len(left) \in 1..(Len(s) - p) /\ p + (i - Len(left)) = i + 1 /\ ~(i <= Len(left))
        BY <1>1, <2>1, <2>6, <2>9, <3>3
      <4>2. r[i] = right[i - Len(left)]
        BY <2>8, <3>1, <4>1
      <4>3. right[i - Len(left)] = s[p + (i - Len(left))]
        BY <2>7, <4>1
      <4> QED
        BY <1>1, <2>1, <2>9, <3>3, <4>1, <4>2, <4>3
    <3> QED
      BY <3>2, <3>3
  <2>11. \A i \in 1..Len(s) : i # p => \E j \in 1..Len(r) : at(j) = i
    <3> SUFFICES ASSUME NEW i \in 1..Len(s), i # p
                 PROVE  \E j \in 1..Len(r) : at(j) = i
      OBVIOUS
    <3>1. CASE i < p
      <4>1. i \in 1..Len(r) /\ at(i) = i
        BY <1>1, <2>1, <2>9, <3>1
      <4> QED
        BY <4>1
    <3>2. CASE i > p
      <4>1. i - 1 \in 1..Len(r) /\ at(i - 1) = i
        BY <1>1, <2>1, <2>9, <3>2
      <4> QED
        BY <4>1
    <3> QED
      BY <1>1, <2>1, <3>1, <3>2
  <2>12. \A i, j \in 1..Len(r) : i # j => at(i) # at(j)
    BY <1>1, <2>1, <2>9
  <2> HIDE DEF at
  <2>13. Distinct(r)
    BY <2>10, <2>12 DEF Distinct
  <2>14. \A i \in 1..Len(s) : i # p => s[i] # n
    BY <2>1 DEF Distinct
  <2>15. ASSUME NEW m
         PROVE  Contains(r, m) <=> Contains(s, m) /\ m # n
    <3>1. ASSUME Contains(r, m)
          PROVE  Contains(s, m) /\ m # n
      BY <2>10, <2>14, <3>1 DEF Contains
    <3>2. ASSUME Contains(s, m), m # n
          PROVE  Contains(r, m)
      <4>1. PICK i \in 1..Len(s) : s[i] = m
        BY <3>2 DEF Contains
      <4>2. PICK j \in 1..Len(r) : at(j) = i
        BY <2>1, <2>11, <3>2, <4>1
      <4> QED
        BY <2>10, <4>1, <4>2 DEF Contains
    <3> QED
      BY <3>1, <3>2
  <2> QED
    BY <1>3, <2>8, <2>13, <2>15 DEF r
<1> QED
  BY <1>2, <1>3

\* subscribers.add of a node that is not in the list
LEMMA AppendKeeps ==
  ASSUME NEW s \in Seq(Nodes), NEW n \in Nodes, Distinct(s), ~Contains(s, n)
  PROVE  /\ Append(s, n) \in Seq(Nodes)
         /\ Append(s, n) # <<>>
         /\ Distinct(Append(s, n))
         /\ \A m : Contains(Append(s, n), m) <=> Contains(s, m) \/ m = n
<1> DEFINE t == Append(s, n)
<1>1. /\ t \in Seq(Nodes)
      /\ Len(t) = Len(s) + 1
      /\ \A i \in 1..Len(s) : t[i] = s[i]
      /\ t[Len(t)] = n
      /\ Len(s) \in Nat
  BY AppendProperties, LenProperties
<1> HIDE DEF t
<1>2. t # <<>>
  BY <1>1, EmptySeq
<1>3. \A i \in 1..Len(t) : i \in 1..Len(s) \/ i = Len(t)
  BY <1>1
<1>4. \A i \in 1..Len(s) : s[i] # n /\ i \in 1..Len(t) /\ i # Len(t)
  BY <1>1 DEF Contains
<1>5. Distinct(t)
  BY <1>1, <1>3, <1>4 DEF Distinct
<1>6. Len(t) \in 1..Len(t)
  BY <1>1
<1>7. \A m : Contains(t, m) <=> Contains(s, m) \/ m = n
  BY <1>1, <1>3, <1>4, <1>6 DEF Contains
<1> QED
  BY <1>1, <1>2, <1>5, <1>7 DEF t

\* The subscribers a delivery has still to visit.
LEMMA TailKeeps ==
  ASSUME NEW s \in Seq(Nodes), s # <<>>, Distinct(s)
  PROVE  /\ Tail(s) \in Seq(Nodes)
         /\ Head(s) \in Nodes
         /\ Distinct(Tail(s))
         /\ Contains(s, Head(s))
         /\ \A m : Contains(Tail(s), m) <=> Contains(s, m) /\ m # Head(s)
<1>1. /\ Head(s) \in Nodes /\ Tail(s) \in Seq(Nodes)
      /\ Len(Tail(s)) = Len(s) - 1
      /\ \A i \in 1..Len(Tail(s)) : Tail(s)[i] = s[i + 1]
  BY HeadTailProperties
<1>2. Len(s) \in Nat \ {0}
  BY EmptySeq
<1>3. Head(s) = s[1] /\ 1 \in 1..Len(s)
  BY <1>2
<1> DEFINE t == Tail(s)
<1>4. \A i \in 1..Len(t) : i + 1 \in 1..Len(s) /\ i + 1 # 1 /\ t[i] = s[i + 1]
  BY <1>1, <1>2
<1>5. ASSUME NEW i \in 1..Len(s), i # 1
      PROVE  i - 1 \in 1..Len(t) /\ t[i - 1] = s[i]
  <2>1. i - 1 \in 1..Len(t) /\ (i - 1) + 1 = i
    BY <1>1, <1>2, <1>5
  <2>2. t[i - 1] = s[(i - 1) + 1]
    BY <1>1, <2>1
  <2> QED
    BY <2>1, <2>2
<1>6. \A i, j \in 1..Len(t) : i # j => i + 1 # j + 1
  BY <1>1, <1>2
<1> HIDE DEF t
<1>7. Distinct(t)
  BY <1>4, <1>6 DEF Distinct
<1>8. \A i \in 1..Len(s) : i # 1 => s[i] # s[1]
  BY <1>3 DEF Distinct
<1>9. ASSUME NEW m
      PROVE  Contains(t, m) <=> Contains(s, m) /\ m # Head(s)
  <2>1. Contains(t, m) => Contains(s, m) /\ m # Head(s)
    BY <1>3, <1>4, <1>8 DEF Contains
  <2>2. Contains(s, m) /\ m # Head(s) => Contains(t, m)
    BY <1>3, <1>5 DEF Contains
  <2> QED
    BY <2>1, <2>2
<1>10. Contains(s, Head(s))
  BY <1>3 DEF Contains
<1> QED
  BY <1>1, <1>7, <1>9, <1>10 DEF t

-----------------------------------------------------------------------------
(* The inductive invariant.                                                *)

Used(p) == probe[p].start \/ probe[p].started \/ probe[p].settled

\* What a check holds in each stage of its life; a fault of a check that still runs is the loss of
\* a connection that was never authenticated.
Healthy(p) ==
  /\ Running(p) <=> current = p
  /\ probe[p].settled => /\ ~probe[p].start /\ ~probe[p].closeCheck /\ ~probe[p].timer
                         /\ ~probe[p].listening /\ client[p].state # "open"
  /\ probe[p].start => ~probe[p].started
  /\ ~probe[p].started => /\ ~probe[p].closeCheck /\ ~probe[p].timer /\ ~probe[p].listening
                          /\ client[p].state = "none" /\ connecting[p] = "none" /\ p \notin fault
  /\ p \in fault /\ ~probe[p].settled => client[p].state = "closed" /\ ~client[p].authenticated
  /\ probe[p].closeCheck => client[p].authenticated \/ p \in fault
  /\ ~probe[p].warned => warnings[p] = 0

LifeInv ==
  /\ closed => current = NoProbe
  /\ \A p \in Nodes : Healthy(p)

\* What the delivery on the stack stands for.
CallInv ==
  call # NoCall =>
    LET p == call.probe IN
    /\ Used(p) /\ Distinct(call.todo)
    /\ call.op \in {"finish", "factory"} => probe[p].settled /\ call.status \in Final
    /\ call.op \in {"begin", "join"} => call.status = "checking"
    /\ call.op # "join" \/ call.todo # <<>> => probe[p].started
    /\ call.op = "begin" => client[p].state = "none" /\ p \notin fault
    /\ call.op = "join" => node[call.node].start = "done" /\ node[call.node].unsubscribe = NoProbe
    /\ call.status = "connected" => client[p].authenticated /\ p \notin fault
    /\ call.status = "failed" => p \in fault

Joining(p, n) == call # NoCall /\ call.op = "join" /\ call.probe = p /\ call.node = n

Finishing(p) == call # NoCall /\ call.op \in {"finish", "factory"} /\ call.probe = p

\* Who is subscribed to what: a subscription is known to its node, or is being made.
SubInv ==
  /\ \A n \in Nodes : node[n].unsubscribe # NoProbe =>
       ~node[n].closed /\ node[n].start = "done" /\ Used(node[n].unsubscribe)
  /\ \A n \in Nodes : node[n].start # "done" => ~Used(n) /\ ~probe[n].warned
  /\ \A p \in Nodes :
       /\ Distinct(probe[p].subscribers)
       /\ Running(p) => probe[p].subscribers # <<>>
       /\ ~Running(p) /\ probe[p].subscribers # <<>> => Finishing(p)
       /\ \A n \in Nodes : Subscribed(p, n) => node[n].unsubscribe = p \/ Joining(p, n)

Awaits(p, n) == call # NoCall /\ call.probe = p /\ Contains(call.todo, n)

\* What every subscriber has heard.
HearInv ==
  /\ \A n \in Nodes : heard[n] \in {<<>>, <<"checking">>, <<"checking", "connected">>, <<"checking", "failed">>}
  /\ \A n \in Nodes : node[n].start # "done" => heard[n] = <<>>
  /\ \A p \in Nodes, n \in Nodes : Subscribed(p, n) =>
       /\ ~probe[p].settled => heard[n] = IF ~probe[p].started \/ Awaits(p, n) THEN <<>> ELSE <<"checking">>
       /\ probe[p].settled /\ Awaits(p, n) => heard[n] = <<"checking">>

IInv == TypeOK /\ LifeInv /\ CallInv /\ SubInv /\ HearInv

-----------------------------------------------------------------------------
(* What the operations do to the record of one check.                      *)

ProbeRecord == [subscribers : Seq(Nodes), start : BOOLEAN, closeCheck : BOOLEAN, timer : BOOLEAN,
                listening : BOOLEAN, started : BOOLEAN, settled : BOOLEAN, warned : BOOLEAN]
ClientRecord == [state : {"none", "open", "closed"}, authenticated : BOOLEAN]
NodeRecord == [start : {"idle", "pending", "done"}, unsubscribe : Nodes \union {NoProbe},
               closed : BOOLEAN, revised : BOOLEAN, shown : Status \union {"none", "work"}]

LEMMA Types ==
  ASSUME TypeOK
  PROVE  /\ closed \in BOOLEAN
         /\ current \in Nodes \union {NoProbe}
         /\ probe \in [Nodes -> ProbeRecord]
         /\ client \in [Nodes -> ClientRecord]
         /\ connecting \in [Nodes -> {"none", "queued", "pending", "done"}]
         /\ node \in [Nodes -> NodeRecord]
         /\ heard \in [Nodes -> Seq(Status)]
         /\ fault \subseteq Nodes
         /\ warnings \in [Nodes -> 0..1]
BY DEF TypeOK, ProbeRecord, ClientRecord, NodeRecord

LEMMA StoppedRecord ==
  ASSUME NEW r \in ProbeRecord
  PROVE  /\ Stopped(r) \in ProbeRecord
         /\ Stopped(r).settled /\ ~Stopped(r).start /\ ~Stopped(r).closeCheck
         /\ ~Stopped(r).timer /\ ~Stopped(r).listening
         /\ Stopped(r).started = r.started /\ Stopped(r).warned = r.warned
         /\ Stopped(r).subscribers = r.subscribers
BY DEF Stopped, ProbeRecord

LEMMA WithSubscribers ==
  ASSUME NEW r \in ProbeRecord, NEW s \in Seq(Nodes)
  PROVE  /\ [r EXCEPT !.subscribers = s] \in ProbeRecord
         /\ [r EXCEPT !.subscribers = s].subscribers = s
         /\ [r EXCEPT !.subscribers = s].start = r.start
         /\ [r EXCEPT !.subscribers = s].closeCheck = r.closeCheck
         /\ [r EXCEPT !.subscribers = s].timer = r.timer
         /\ [r EXCEPT !.subscribers = s].listening = r.listening
         /\ [r EXCEPT !.subscribers = s].started = r.started
         /\ [r EXCEPT !.subscribers = s].settled = r.settled
         /\ [r EXCEPT !.subscribers = s].warned = r.warned
BY DEF ProbeRecord

LEMMA WarnedRecord ==
  ASSUME NEW r \in ProbeRecord
  PROVE  /\ Warned(r) \in ProbeRecord
         /\ Warned(r).warned
         /\ Warned(r).start = r.start /\ Warned(r).closeCheck = r.closeCheck
         /\ Warned(r).timer = r.timer /\ Warned(r).listening = r.listening
         /\ Warned(r).started = r.started /\ Warned(r).settled = r.settled
         /\ Warned(r).subscribers = r.subscribers
BY DEF Warned, ProbeRecord

LEMMA ClosedRecord ==
  ASSUME NEW c \in ClientRecord
  PROVE  /\ Closed(c) \in ClientRecord
         /\ Closed(c).authenticated = c.authenticated
         /\ Closed(c).state # "open"
         /\ c.state # "open" => Closed(c).state = c.state
BY DEF Closed, ClientRecord

\* Only check p and its client change.
OthersKept(p) ==
  /\ probe' \in [Nodes -> ProbeRecord] /\ client' \in [Nodes -> ClientRecord]
  /\ \A q \in Nodes : q # p => probe'[q] = probe[q] /\ client'[q] = client[q]

\* Check p ends.
Settles(p) ==
  /\ current' = IF current = p THEN NoProbe ELSE current
  /\ probe'[p].settled /\ ~probe'[p].start /\ ~probe'[p].closeCheck /\ ~probe'[p].timer
  /\ ~probe'[p].listening
  /\ probe'[p].started = probe[p].started
  /\ client'[p].state # "open" /\ client'[p].authenticated = client[p].authenticated
  /\ client[p].state # "open" => client'[p].state = client[p].state

LEMMA SettleEffect ==
  ASSUME TypeOK, NEW p \in Nodes, NEW q \in ProbeRecord, q.started = probe[p].started, Settle(p, q)
  PROVE  /\ OthersKept(p) /\ Settles(p)
         /\ probe'[p].warned = q.warned
         /\ probe'[p].subscribers = q.subscribers
<1>1. probe \in [Nodes -> ProbeRecord] /\ client \in [Nodes -> ClientRecord]
  BY Types
<1>2. Stopped(q) \in ProbeRecord /\ Closed(client[p]) \in ClientRecord
  BY <1>1, StoppedRecord, ClosedRecord
<1>3. probe' = [probe EXCEPT ![p] = Stopped(q)] /\ client' = [client EXCEPT ![p] = Closed(client[p])]
  BY DEF Settle
<1>4. probe'[p] = Stopped(q) /\ client'[p] = Closed(client[p])
  BY <1>1, <1>3
<1>5. OthersKept(p)
  BY <1>1, <1>2, <1>3 DEF OthersKept
<1>6. Settles(p)
  BY <1>1, <1>4, StoppedRecord, ClosedRecord DEF Settles, Settle
<1> QED
  BY <1>4, <1>5, <1>6, StoppedRecord

\* Check p goes on as it was, but for its subscribers and its warning.
Continues(p) ==
  /\ UNCHANGED <<client, current>>
  /\ probe'[p].started = probe[p].started /\ probe'[p].settled = probe[p].settled
  /\ probe'[p].start = probe[p].start /\ probe'[p].closeCheck = probe[p].closeCheck
  /\ probe'[p].timer = probe[p].timer /\ probe'[p].listening = probe[p].listening

\* The effect of Leave, Cancel and warnOnce: check p loses subscribers, warns, or ends without them.
Recedes(p) ==
  /\ OthersKept(p)
  /\ Distinct(probe'[p].subscribers)
  /\ \A n \in Nodes : Subscribed(p, n)' => Subscribed(p, n)
  /\ \/ Continues(p) /\ (probe[p].settled \/ probe'[p].subscribers # <<>>
                         \/ probe'[p].subscribers = probe[p].subscribers)
     \/ Settles(p) /\ ~probe[p].settled /\ probe'[p].subscribers = <<>>

LEMMA LeaveEffect ==
  ASSUME TypeOK, NEW p \in Nodes, NEW n \in Nodes, Distinct(probe[p].subscribers), Leave(p, n)
  PROVE  Recedes(p) /\ probe'[p].warned = probe[p].warned /\ ~Subscribed(p, n)'
<1> DEFINE r == RemoveFirst(probe[p].subscribers, n)
           left == [probe[p] EXCEPT !.subscribers = r]
<1>1. probe \in [Nodes -> ProbeRecord] /\ client \in [Nodes -> ClientRecord]
  BY Types
<1>2. probe[p].subscribers \in Seq(Nodes)
  BY <1>1 DEF ProbeRecord
<1>3. r \in Seq(Nodes) /\ Distinct(r)
      /\ \A m : Contains(r, m) <=> Contains(probe[p].subscribers, m) /\ m # n
  BY <1>2, RemoveFirstKeeps
<1> HIDE DEF r
<1>4. /\ left \in ProbeRecord /\ left.subscribers = r
      /\ left.start = probe[p].start /\ left.closeCheck = probe[p].closeCheck
      /\ left.timer = probe[p].timer /\ left.listening = probe[p].listening
      /\ left.started = probe[p].started /\ left.settled = probe[p].settled
      /\ left.warned = probe[p].warned
  BY <1>1, <1>3 DEF ProbeRecord
<1>5. IF left.settled \/ left.subscribers # <<>>
      THEN probe' = [probe EXCEPT ![p] = left] /\ UNCHANGED <<current, client>>
      ELSE Settle(p, left)
  BY DEF Leave, r
<1> HIDE DEF left
<1>6. CASE left.settled \/ left.subscribers # <<>>
  <2>1. probe'[p] = left /\ OthersKept(p)
    BY <1>1, <1>4, <1>5, <1>6 DEF OthersKept
  <2>2. Continues(p)
    BY <1>4, <1>5, <1>6, <2>1 DEF Continues
  <2> QED
    BY <1>3, <1>4, <1>6, <2>1, <2>2 DEF Recedes, Subscribed
<1>7. CASE ~(left.settled \/ left.subscribers # <<>>)
  <2>1. /\ OthersKept(p) /\ Settles(p)
        /\ probe'[p].warned = left.warned
        /\ probe'[p].subscribers = r
    BY <1>4, <1>5, <1>7, SettleEffect
  <2> QED
    BY <1>3, <1>4, <1>7, <2>1 DEF Recedes, Subscribed
<1> QED
  BY <1>6, <1>7

LEMMA CancelEffect ==
  ASSUME TypeOK, NEW p \in Nodes, ~probe[p].settled, Cancel(p)
  PROVE  Recedes(p) /\ probe'[p].warned = probe[p].warned
<1>1. probe[p] \in ProbeRecord
  BY Types
<1>2. <<>> \in Seq(Nodes) /\ Len(<<>>) = 0
  BY EmptySeq
<1> DEFINE q == [probe[p] EXCEPT !.subscribers = <<>>]
<1>3. q \in ProbeRecord /\ q.subscribers = <<>> /\ q.started = probe[p].started
      /\ q.warned = probe[p].warned
  BY <1>1, <1>2 DEF ProbeRecord
<1>4. Settle(p, q)
  BY DEF Cancel
<1> HIDE DEF q
<1>5. /\ OthersKept(p) /\ Settles(p)
      /\ probe'[p].warned = q.warned /\ probe'[p].subscribers = <<>>
  BY <1>3, <1>4, SettleEffect
<1>6. Distinct(probe'[p].subscribers) /\ \A n \in Nodes : ~Subscribed(p, n)'
  BY <1>2, <1>5 DEF Distinct, Subscribed, Contains
<1> QED
  BY <1>3, <1>5, <1>6 DEF Recedes

LEMMA WarnEffect ==
  ASSUME TypeOK, NEW p \in Nodes, Distinct(probe[p].subscribers),
         probe' = [probe EXCEPT ![p] = Warned(probe[p])], UNCHANGED <<current, client>>
  PROVE  Recedes(p) /\ probe'[p].warned
<1>1. probe \in [Nodes -> ProbeRecord] /\ client \in [Nodes -> ClientRecord]
  BY Types
<1>2. probe'[p] = Warned(probe[p]) /\ Warned(probe[p]) \in ProbeRecord
  BY <1>1, WarnedRecord
<1>3. OthersKept(p)
  BY <1>1, <1>2 DEF OthersKept
<1>4. Continues(p) /\ probe'[p].subscribers = probe[p].subscribers /\ probe'[p].warned
  BY <1>1, <1>2, WarnedRecord DEF Continues
<1> QED
  BY <1>3, <1>4 DEF Recedes, Subscribed

-----------------------------------------------------------------------------
(* LifeInv.                                                                *)

\* Nothing but check p and its client, connect() and counters changes.
Elsewhere(p) ==
  /\ OthersKept(p)
  /\ \A q \in Nodes : q # p => /\ connecting'[q] = connecting[q]
                               /\ q \in fault' <=> q \in fault
                               /\ warnings'[q] = warnings[q]
                               /\ current' = q <=> current = q

LEMMA OthersHealthy ==
  ASSUME LifeInv, NEW p \in Nodes, Elsewhere(p), Healthy(p)', closed' => current' = NoProbe
  PROVE  LifeInv'
<1> SUFFICES ASSUME NEW q \in Nodes, q # p
             PROVE  Healthy(q)'
  BY DEF LifeInv
<1>1. Healthy(q)
  BY DEF LifeInv
<1>2. probe'[q] = probe[q] /\ client'[q] = client[q] /\ connecting'[q] = connecting[q]
      /\ warnings'[q] = warnings[q] /\ (q \in fault' <=> q \in fault) /\ (current' = q <=> current = q)
  BY DEF Elsewhere, OthersKept
<1> QED
  BY <1>1, <1>2 DEF Healthy, Running

\* A check that ends, with its fault and its warning.
LEMMA SettleLife ==
  ASSUME LifeInv, NEW p \in Nodes, OthersKept(p), Settles(p),
         \A q \in Nodes : q # p => connecting'[q] = connecting[q] /\ (q \in fault' <=> q \in fault)
                                   /\ warnings'[q] = warnings[q],
         probe[p].started \/ UNCHANGED <<connecting, fault>>,
         ~probe'[p].warned => warnings'[p] = 0,
         closed' => closed \/ current = p
  PROVE  LifeInv'
<1>1. Healthy(p) /\ (closed => current = NoProbe)
  BY DEF LifeInv
<1>2. Elsewhere(p)
  BY NoProbeAssumption DEF Elsewhere, Settles
<1>3. closed' => current' = NoProbe
  BY <1>1 DEF Settles
<1>4. ~Running(p)' /\ current' # p
  BY NoProbeAssumption DEF Settles, Running
<1>5. Healthy(p)'
  BY <1>1, <1>4 DEF Settles, Healthy
<1> QED
  BY <1>2, <1>3, <1>5, OthersHealthy

LEMMA RecedeLife ==
  ASSUME LifeInv, NEW p \in Nodes, Recedes(p), UNCHANGED <<connecting, fault>>,
         \A q \in Nodes : q # p => warnings'[q] = warnings[q],
         ~probe'[p].warned => warnings'[p] = 0,
         closed' => closed \/ current' = NoProbe
  PROVE  LifeInv'
<1>1. Healthy(p) /\ (closed => current = NoProbe)
  BY DEF LifeInv
<1>2. Elsewhere(p)
  BY NoProbeAssumption DEF Elsewhere, Settles, Recedes, Continues
<1>3. closed' => current' = NoProbe
  BY <1>1 DEF Settles, Recedes, Continues
<1>4. CASE Continues(p)
  <2>1. Healthy(p)'
    BY <1>1, <1>4 DEF Continues, Healthy, Running
  <2> QED
    BY <1>2, <1>3, <2>1, OthersHealthy
<1>5. CASE Settles(p)
  <2>1. ~Running(p)' /\ current' # p
    BY <1>5, NoProbeAssumption DEF Settles, Running
  <2>2. Healthy(p)'
    BY <1>1, <1>5, <2>1 DEF Settles, Healthy
  <2> QED
    BY <1>2, <1>3, <2>2, OthersHealthy
<1> QED
  BY <1>4, <1>5 DEF Recedes

-----------------------------------------------------------------------------
(* The status objects, and the listeners of node.status().                 *)

Stays(n) ==
  /\ node'[n].unsubscribe = node[n].unsubscribe
  /\ node'[n].start = "done" <=> node[n].start = "done"
  /\ node'[n].closed <=> node[n].closed

Ends(n) ==
  /\ node'[n].unsubscribe = NoProbe
  /\ node[n].start = "done" => node'[n].start = "done"

\* A node that ends has left check p, the only one it was subscribed to.
NodeStep(p) ==
  /\ node' \in [Nodes -> NodeRecord]
  /\ \A n \in Nodes :
       \/ Stays(n)
       \/ Ends(n) /\ (node[n].unsubscribe = NoProbe
                      \/ (node[n].unsubscribe = p /\ ~Subscribed(p, n)'))

\* What a listener, a closed node or a closed account does to the checks and the nodes.
Effect(p) ==
  /\ Recedes(p) /\ (Used(p) \/ probe' = probe)
  /\ NodeStep(p)
  /\ warnings' \in [Nodes -> 0..1]
  /\ \A q \in Nodes : q # p => warnings'[q] = warnings[q]
  /\ ~probe'[p].warned => warnings'[p] = 0
  /\ closed' \in BOOLEAN
  /\ closed' => closed \/ current' = NoProbe

LEMMA SameRecedes ==
  ASSUME TypeOK, NEW p \in Nodes, Distinct(probe[p].subscribers), UNCHANGED <<probe, client, current>>
  PROVE  Recedes(p)
<1>1. probe \in [Nodes -> ProbeRecord] /\ client \in [Nodes -> ClientRecord]
  BY Types
<1>2. OthersKept(p) /\ Continues(p)
  BY <1>1 DEF OthersKept, Continues
<1> QED
  BY <1>2 DEF Recedes, Subscribed

\* The same nodes with another text shown.
Alike(s) == /\ s \in [Nodes -> NodeRecord]
            /\ \A n \in Nodes : s[n].unsubscribe = node[n].unsubscribe /\ s[n].start = node[n].start
                                /\ s[n].closed = node[n].closed

LEMMA StatusSetEffect ==
  ASSUME TypeOK, NEW s, Alike(s), NEW m \in Nodes
  PROVE  Alike(StatusSet(s, m))
<1>1. s \in [Nodes -> NodeRecord]
  BY DEF Alike
<1> DEFINE r == [s[m] EXCEPT !.revised = TRUE, !.shown = IF s[m].closed THEN @ ELSE "work"]
<1>2. r \in NodeRecord /\ r.unsubscribe = s[m].unsubscribe /\ r.start = s[m].start
      /\ r.closed = s[m].closed
  BY <1>1 DEF NodeRecord
<1>3. StatusSet(s, m) = [s EXCEPT ![m] = r]
  BY <1>1 DEF StatusSet, NodeRecord
<1> HIDE DEF r
<1> QED
  BY <1>1, <1>2, <1>3 DEF Alike

LEMMA AlikeStep ==
  ASSUME NEW s, Alike(s), node' = s, NEW p
  PROVE  NodeStep(p)
BY DEF Alike, NodeStep, Stays

\* The status object of a node that is closed.
Ended(r) == [r EXCEPT !.closed = TRUE, !.revised = TRUE, !.unsubscribe = NoProbe,
                      !.start = IF @ = "pending" THEN "done" ELSE @]

LEMMA EndedRecord ==
  ASSUME NEW r \in NodeRecord
  PROVE  Ended(r) \in NodeRecord /\ Ended(r).unsubscribe = NoProbe
         /\ (r.start = "done" => Ended(r).start = "done")
BY DEF Ended, NodeRecord

LEMMA StatusCloseEffect ==
  ASSUME TypeOK, LifeInv, SubInv, NEW s, Alike(s), NEW m \in Nodes, StatusClose(s, m),
         UNCHANGED <<closed, warnings>>
  PROVE  \E p \in Nodes : Effect(p)
<1>1. /\ s \in [Nodes -> NodeRecord] /\ node \in [Nodes -> NodeRecord]
      /\ closed \in BOOLEAN /\ warnings \in [Nodes -> 0..1]
      /\ s[m].unsubscribe = node[m].unsubscribe /\ s[m].start = node[m].start
  BY Types DEF Alike
<1> DEFINE r == Ended(s[m])
<1>2. r \in NodeRecord /\ r.unsubscribe = NoProbe /\ (s[m].start = "done" => r.start = "done")
  BY <1>1, EndedRecord
<1>3. node' = [s EXCEPT ![m] = r]
  BY <1>1 DEF StatusClose, Ended, NodeRecord
<1> HIDE DEF r
<1>4. node' \in [Nodes -> NodeRecord] /\ Ends(m)
  BY <1>1, <1>2, <1>3 DEF Ends
<1>5. \A n \in Nodes : n # m => Stays(n)
  BY <1>1, <1>3 DEF Stays, Alike
<1>6. ASSUME NEW p \in Nodes, Recedes(p), Used(p) \/ probe' = probe, probe'[p].warned = probe[p].warned,
             node[m].unsubscribe = NoProbe \/ (node[m].unsubscribe = p /\ ~Subscribed(p, m)')
      PROVE  Effect(p)
  <2>1. NodeStep(p)
    BY <1>4, <1>5, <1>6 DEF NodeStep
  <2>2. ~probe[p].warned => warnings[p] = 0
    BY DEF LifeInv, Healthy
  <2> QED
    BY <1>1, <1>6, <2>1, <2>2 DEF Effect
<1>7. CASE node[m].unsubscribe = NoProbe
  <2>1. UNCHANGED <<probe, client, current>>
    BY <1>1, <1>7 DEF StatusClose
  <2>2. Distinct(probe[m].subscribers)
    BY DEF SubInv
  <2>3. Recedes(m)
    BY <2>1, <2>2, SameRecedes
  <2>4. probe' = probe /\ probe'[m].warned = probe[m].warned
    BY <2>1
  <2>5. Effect(m)
    BY <1>6, <1>7, <2>3, <2>4
  <2> QED
    BY <2>5
<1>8. CASE node[m].unsubscribe # NoProbe
  <2>1. PICK p \in Nodes : p = node[m].unsubscribe
    BY <1>1, <1>8 DEF NodeRecord
  <2>2. Leave(p, m)
    BY <1>1, <1>8, <2>1 DEF StatusClose
  <2>3. Used(p) /\ Distinct(probe[p].subscribers)
    BY <1>8, <2>1 DEF SubInv
  <2>4. Recedes(p) /\ probe'[p].warned = probe[p].warned /\ ~Subscribed(p, m)'
    BY <2>1, <2>2, <2>3, LeaveEffect
  <2> QED
    BY <1>6, <2>1, <2>3, <2>4
<1> QED
  BY <1>7, <1>8

LEMMA CheckerCloseEffect ==
  ASSUME TypeOK, LifeInv, SubInv, NEW s, Alike(s), node' = s, current # NoProbe, CheckerClose,
         UNCHANGED warnings
  PROVE  Effect(current)
<1>1. current \in Nodes /\ warnings \in [Nodes -> 0..1] /\ closed' = TRUE
  BY Types DEF CheckerClose
<1>2. Running(current) /\ (~probe[current].warned => warnings[current] = 0)
  BY <1>1 DEF LifeInv, Healthy
<1>3. Cancel(current) /\ Used(current)
  BY <1>2 DEF CheckerClose, Used, Running
<1>4. Recedes(current) /\ probe'[current].warned = probe[current].warned
  BY <1>1, <1>2, <1>3, CancelEffect DEF Running
<1>5. current' = NoProbe
  BY <1>3 DEF Cancel, Settle
<1> QED
  BY <1>1, <1>2, <1>3, <1>4, <1>5, AlikeStep DEF Effect

LEMMA ListenersEffect ==
  ASSUME TypeOK, LifeInv, SubInv, NEW s, Alike(s), NEW p \in Nodes, Used(p), Listeners(s, p)
  PROVE  \E q \in Nodes : Effect(q)
<1>1. closed \in BOOLEAN /\ warnings \in [Nodes -> 0..1] /\ current \in Nodes \union {NoProbe}
  BY Types
<1>2. Distinct(probe[p].subscribers) /\ (~probe[p].warned => warnings[p] = 0)
  BY DEF SubInv, LifeInv, Healthy
<1>3. ASSUME NEW t, Alike(t), node' = t, UNCHANGED <<probe, client, current, warnings>>,
             closed' \in BOOLEAN, closed' => closed \/ current' = NoProbe
      PROVE  Effect(p)
  <2>1. Recedes(p)
    BY <1>2, <1>3, SameRecedes
  <2>2. NodeStep(p)
    BY <1>3, AlikeStep
  <2> QED
    BY <1>1, <1>2, <1>3, <2>1, <2>2 DEF Effect
<1>4. CASE node' = s /\ UNCHANGED <<closed, current, probe, client, warnings>>
  BY <1>1, <1>3, <1>4
<1>5. CASE /\ probe' = [probe EXCEPT ![p] = Warned(@)]
           /\ warnings' = WarningsOf(p)
           /\ node' = s /\ UNCHANGED <<closed, current, client>>
  <2>1. Recedes(p) /\ probe'[p].warned
    BY <1>2, <1>5, WarnEffect
  <2>2. warnings' \in [Nodes -> 0..1] /\ \A q \in Nodes : q # p => warnings'[q] = warnings[q]
    BY <1>1, <1>2, <1>5 DEF WarningsOf
  <2> QED
    BY <1>1, <1>5, <2>1, <2>2, AlikeStep DEF Effect
<1>6. CASE \E m \in Nodes : node' = StatusSet(s, m) /\ UNCHANGED <<closed, current, probe, client, warnings>>
  <2>1. PICK m \in Nodes : node' = StatusSet(s, m) /\ UNCHANGED <<closed, current, probe, client, warnings>>
    BY <1>6
  <2>2. Alike(StatusSet(s, m))
    BY StatusSetEffect
  <2> QED
    BY <1>1, <1>3, <2>1, <2>2
<1>7. CASE \E m \in Nodes : StatusClose(s, m) /\ UNCHANGED <<closed, warnings>>
  BY <1>7, StatusCloseEffect
<1>8. CASE CheckerClose /\ node' = s /\ UNCHANGED warnings
  <2>1. CASE current = NoProbe
    BY <1>3, <1>8, <2>1 DEF CheckerClose
  <2>2. CASE current # NoProbe
    BY <1>1, <1>8, <2>2, CheckerCloseEffect
  <2> QED
    BY <2>1, <2>2
<1> QED
  BY <1>4, <1>5, <1>6, <1>7, <1>8 DEF Listeners

-----------------------------------------------------------------------------
(* The delivery on the stack.                                              *)

LEMMA CallTypes ==
  ASSUME TypeOK, call # NoCall
  PROVE  /\ call \in Calls
         /\ call.probe \in Nodes /\ call.todo \in Seq(Nodes) /\ call.status \in Status
         /\ call.op \in {"begin", "finish", "factory", "join"}
         /\ call.op = "join" => call.node \in Nodes
<1>1. call \in Calls
  BY DEF TypeOK
<1> QED
  BY <1>1 DEF Calls, Status, Final

LEMMA TodoReplaced ==
  ASSUME NEW c \in Calls, NEW t \in Seq(Nodes)
  PROVE  /\ [c EXCEPT !.todo = t] \in Calls /\ [c EXCEPT !.todo = t] # NoCall
         /\ [c EXCEPT !.todo = t].op = c.op /\ [c EXCEPT !.todo = t].probe = c.probe
         /\ [c EXCEPT !.todo = t].status = c.status /\ [c EXCEPT !.todo = t].todo = t
         /\ c.op = "join" => [c EXCEPT !.todo = t].node = c.node
<1>1. CASE c \in [op : {"begin", "finish", "factory"}, probe : Nodes, todo : Seq(Nodes), status : Status]
  BY <1>1 DEF Calls, NoCall
<1>2. CASE c \in [op : {"join"}, probe : Nodes, todo : Seq(Nodes), status : {"checking"}, node : Nodes]
  BY <1>2 DEF Calls, NoCall
<1> QED
  BY <1>1, <1>2 DEF Calls

\* The delivery turns to the next subscriber.
Advances ==
  /\ call # NoCall /\ call.todo # <<>>
  /\ call' \in Calls /\ call' # NoCall
  /\ call'.op = call.op /\ call'.probe = call.probe /\ call'.status = call.status
  /\ call.op = "join" => call'.node = call.node
  /\ Distinct(call'.todo)
  /\ \A m : Contains(call'.todo, m) <=> Contains(call.todo, m) /\ m # Head(call.todo)

LEMMA DeliveryAdvances ==
  ASSUME TypeOK, CallInv, call # NoCall, call.todo # <<>>, call' = DeliveryContinues
  PROVE  Advances /\ Head(call.todo) \in Nodes /\ Contains(call.todo, Head(call.todo))
<1>1. call \in Calls /\ call.todo \in Seq(Nodes) /\ Distinct(call.todo)
  BY CallTypes DEF CallInv
<1>2. Tail(call.todo) \in Seq(Nodes) /\ Head(call.todo) \in Nodes /\ Distinct(Tail(call.todo))
      /\ Contains(call.todo, Head(call.todo))
      /\ \A m : Contains(Tail(call.todo), m) <=> Contains(call.todo, m) /\ m # Head(call.todo)
  BY <1>1, TailKeeps
<1>3. PICK t \in Seq(Nodes) : t = Tail(call.todo)
  BY <1>2
<1>4. call' = [call EXCEPT !.todo = t]
  BY <1>3 DEF DeliveryContinues
<1>5. PICK c \in Calls : c = call
  BY <1>1
<1>6. /\ call' \in Calls /\ call' # NoCall /\ call'.todo = t
      /\ call'.op = call.op /\ call'.probe = call.probe /\ call'.status = call.status
      /\ call.op = "join" => call'.node = call.node
  BY <1>4, <1>5, TodoReplaced
<1> QED
  BY <1>2, <1>3, <1>6 DEF Advances

\* What no step but the first of a check changes of it.
Keeps(q) ==
  /\ probe'[q].started = probe[q].started
  /\ probe[q].settled => probe'[q].settled
  /\ Used(q) => Used(q)'
  /\ client'[q].authenticated = client[q].authenticated
  /\ client[q].state = "none" => client'[q].state = "none"

LEMMA RecedeKeeps ==
  ASSUME NEW p \in Nodes, Recedes(p), NEW q \in Nodes
  PROVE  Keeps(q)
BY DEF Recedes, OthersKept, Continues, Settles, Keeps, Used

LEMMA CallKept ==
  ASSUME TypeOK, CallInv, call' = call \/ Advances, UNCHANGED fault,
         \A q \in Nodes : Keeps(q),
         \A n \in Nodes : Stays(n) \/ Ends(n)
  PROVE  CallInv'
<1> SUFFICES ASSUME call' # NoCall
             PROVE  CallInv'
  BY DEF CallInv
<1>1. /\ call # NoCall /\ call'.op = call.op /\ call'.probe = call.probe /\ call'.status = call.status
      /\ call.op = "join" => call'.node = call.node
      /\ call'.todo # <<>> => call.todo # <<>>
      /\ Distinct(call'.todo)
  BY DEF Advances, CallInv
<1>2. /\ call.probe \in Nodes
      /\ call.op = "join" => call.node \in Nodes
  BY <1>1, CallTypes
<1> DEFINE p == call.probe
<1>3. Keeps(p)
  BY <1>2
<1>4. /\ Used(p)' /\ probe'[p].started = probe[p].started /\ (probe[p].settled => probe'[p].settled)
      /\ client'[p].authenticated = client[p].authenticated
      /\ client[p].state = "none" => client'[p].state = "none"
  BY <1>1, <1>3 DEF Keeps, CallInv
<1>5. call.op = "join" => node'[call.node].start = "done" /\ node'[call.node].unsubscribe = NoProbe
  BY <1>1, <1>2 DEF CallInv, Stays, Ends
<1> QED
  BY <1>1, <1>4, <1>5 DEF CallInv, Used

-----------------------------------------------------------------------------
(* The subscriptions.                                                      *)

LEMMA NobodyIn ==
  ASSUME NEW s \in Seq(Nodes)
  PROVE  s = <<>> <=> \A n \in Nodes : ~Contains(s, n)
<1>1. ASSUME s # <<>>
      PROVE  \E n \in Nodes : Contains(s, n)
  <2>1. Len(s) \in Nat \ {0}
    BY <1>1, EmptySeq, LenProperties
  <2>2. 1 \in 1..Len(s) /\ s[1] \in Nodes
    BY <2>1, ElementOfSeq
  <2> QED
    BY <2>2 DEF Contains
<1>2. s = <<>> => \A n \in Nodes : ~Contains(s, n)
  BY EmptySeq DEF Contains
<1> QED
  BY <1>1, <1>2

LEMMA SubKept ==
  ASSUME TypeOK, LifeInv, SubInv, NEW p \in Nodes, Recedes(p), Used(p) \/ probe' = probe,
         \A n \in Nodes : Stays(n) \/ Ends(n),
         \A q \in Nodes : Finishing(q) => Finishing(q)',
         \A q \in Nodes, n \in Nodes : Subscribed(q, n)' => node'[n].unsubscribe = q \/ Joining(q, n)',
         \A n \in Nodes : node'[n].unsubscribe # NoProbe => ~node'[n].closed
  PROVE  SubInv'
<1>1. /\ probe \in [Nodes -> ProbeRecord] /\ probe' \in [Nodes -> ProbeRecord]
      /\ node \in [Nodes -> NodeRecord]
  BY Types DEF Recedes, OthersKept
<1>2. \A q \in Nodes : Keeps(q)
  BY RecedeKeeps
<1>3. ASSUME NEW n \in Nodes, node'[n].unsubscribe # NoProbe
      PROVE  ~node'[n].closed /\ node'[n].start = "done" /\ Used(node[n].unsubscribe)'
             /\ node'[n].unsubscribe = node[n].unsubscribe
  <2>1. Stays(n)
    BY <1>3 DEF Ends
  <2>2. node[n].start = "done" /\ Used(node[n].unsubscribe) /\ node[n].unsubscribe \in Nodes
    BY <1>1, <1>3, <2>1 DEF SubInv, Stays, NodeRecord
  <2>3. PICK q \in Nodes : q = node[n].unsubscribe
    BY <2>2
  <2>4. Used(q)'
    BY <1>2, <2>2, <2>3 DEF Keeps
  <2>5. node'[n].unsubscribe = q
    BY <2>1, <2>3 DEF Stays
  <2> QED
    BY <1>3, <2>1, <2>2, <2>3, <2>4, <2>5 DEF Stays, Used
<1>4. ASSUME NEW n \in Nodes, node'[n].start # "done"
      PROVE  ~Used(n)' /\ ~probe'[n].warned
  <2>1. node[n].start # "done"
    BY <1>4 DEF Stays, Ends
  <2>2. ~Used(n) /\ ~probe[n].warned
    BY <2>1 DEF SubInv
  <2>3. probe'[n] = probe[n]
    BY <2>2 DEF Recedes, OthersKept
  <2> QED
    BY <2>2, <2>3 DEF Used
<1>5. ASSUME NEW q \in Nodes
      PROVE  /\ Distinct(probe'[q].subscribers)
             /\ Running(q)' => probe'[q].subscribers # <<>>
             /\ ~Running(q)' /\ probe'[q].subscribers # <<>> => Finishing(q)'
  <2>1. /\ Distinct(probe[q].subscribers)
        /\ Running(q) => probe[q].subscribers # <<>>
        /\ ~Running(q) /\ probe[q].subscribers # <<>> => Finishing(q)
    BY DEF SubInv
  <2>2. CASE probe'[q] = probe[q]
    BY <2>1, <2>2 DEF Running
  <2>3. CASE q = p
    <3>1. probe[p].subscribers \in Seq(Nodes) /\ probe'[p].subscribers \in Seq(Nodes)
      BY <1>1 DEF ProbeRecord
    <3>2. probe'[p].subscribers # <<>> => probe[p].subscribers # <<>>
      BY <3>1, NobodyIn DEF Recedes, Subscribed
    <3>3. CASE Continues(p)
      <4>1. Running(p)' <=> Running(p)
        BY <3>3 DEF Continues, Running
      <4> QED
        BY <2>1, <2>3, <3>2, <4>1 DEF Recedes, Running, Settles, Continues
    <3>4. CASE Settles(p) /\ probe'[p].subscribers = <<>>
      BY <2>3, <3>4 DEF Settles, Running, Recedes
    <3> QED
      BY <3>3, <3>4 DEF Recedes
  <2> QED
    BY <2>2, <2>3 DEF Recedes, OthersKept
<1>6. \A n \in Nodes : node'[n].unsubscribe # NoProbe =>
        ~node'[n].closed /\ node'[n].start = "done" /\ Used(node[n].unsubscribe)'
  BY <1>3
<1>7. \A q \in Nodes :
        /\ Distinct(probe'[q].subscribers)
        /\ Running(q)' => probe'[q].subscribers # <<>>
        /\ ~Running(q)' /\ probe'[q].subscribers # <<>> => Finishing(q)'
  BY <1>5
<1> QED
  BY <1>4, <1>6, <1>7 DEF SubInv

\* A node is subscribed to one check at most.
LEMMA OneSubscription ==
  ASSUME TypeOK, CallInv, SubInv, NEW p \in Nodes, NEW q \in Nodes, NEW n \in Nodes,
         Subscribed(p, n), Subscribed(q, n)
  PROVE  p = q
<1>1. /\ node[n].unsubscribe = p \/ Joining(p, n)
      /\ node[n].unsubscribe = q \/ Joining(q, n)
  BY DEF SubInv
<1>2. Joining(p, n) \/ Joining(q, n) => node[n].unsubscribe = NoProbe
  BY DEF CallInv, Joining
<1> QED
  BY <1>1, <1>2, NoProbeAssumption DEF Joining

\* A step of the listeners, of a closed node or of a closed account.
LEMMA EffectSub ==
  ASSUME TypeOK, LifeInv, CallInv, SubInv, NEW p \in Nodes, Effect(p), call' = call \/ Advances
  PROVE  SubInv'
<1>1. /\ Recedes(p) /\ (Used(p) \/ probe' = probe)
      /\ \A n \in Nodes : Stays(n) \/ Ends(n)
  BY DEF Effect, NodeStep
<1>2. \A q \in Nodes : Finishing(q) => Finishing(q)'
  BY DEF Finishing, Advances
<1>3. \A q \in Nodes, n \in Nodes : Joining(q, n) => Joining(q, n)'
  BY DEF Joining, Advances
<1>4. ASSUME NEW q \in Nodes, NEW n \in Nodes, Subscribed(q, n)'
      PROVE  node'[n].unsubscribe = q \/ Joining(q, n)'
  <2>1. Subscribed(q, n)
    BY <1>1, <1>4 DEF Recedes, OthersKept, Subscribed
  <2>2. node[n].unsubscribe = q \/ Joining(q, n)
    BY <2>1 DEF SubInv
  <2>3. CASE Joining(q, n)
    BY <1>3, <2>3
  <2>4. CASE node[n].unsubscribe = q
    <3>1. node[n].unsubscribe # NoProbe
      BY <2>4, NoProbeAssumption
    <3>2. Stays(n)
      BY <1>4, <2>4, <3>1 DEF Effect, NodeStep
    <3> QED
      BY <2>4, <3>2 DEF Stays
  <2> QED
    BY <2>2, <2>3, <2>4
<1>5. \A n \in Nodes : node'[n].unsubscribe # NoProbe => ~node'[n].closed
  BY <1>1 DEF Stays, Ends, SubInv
<1> QED
  BY <1>1, <1>2, <1>4, <1>5, SubKept

-----------------------------------------------------------------------------
(* What the subscribers have heard.                                        *)

\* Nobody subscribes, and the checks with subscribers stay in their stage.
Fewer ==
  /\ \A q \in Nodes, n \in Nodes : Subscribed(q, n)' =>
       Subscribed(q, n) /\ probe'[q].started = probe[q].started /\ probe'[q].settled = probe[q].settled
  /\ \A n \in Nodes : node'[n].start # "done" => node[n].start # "done"

LEMMA EffectFewer ==
  ASSUME TypeOK, NEW p \in Nodes, Effect(p)
  PROVE  Fewer
<1>1. Recedes(p) /\ probe' \in [Nodes -> ProbeRecord]
  BY DEF Effect, Recedes, OthersKept
<1>2. ASSUME NEW q \in Nodes, NEW n \in Nodes, Subscribed(q, n)'
      PROVE  Subscribed(q, n) /\ probe'[q].started = probe[q].started /\ probe'[q].settled = probe[q].settled
  <2>1. CASE q # p
    BY <1>1, <1>2, <2>1 DEF Recedes, OthersKept, Subscribed
  <2>2. CASE q = p
    <3>1. probe'[p].subscribers \in Seq(Nodes)
      BY <1>1 DEF ProbeRecord
    <3>2. Subscribed(p, n) /\ probe'[p].subscribers # <<>>
      BY <1>1, <1>2, <2>2, <3>1, NobodyIn DEF Recedes, Subscribed
    <3> QED
      BY <1>1, <2>2, <3>2 DEF Recedes, Continues
  <2> QED
    BY <2>1, <2>2
<1>3. \A n \in Nodes : node'[n].start # "done" => node[n].start # "done"
  BY DEF Effect, NodeStep, Stays, Ends
<1> QED
  BY <1>2, <1>3 DEF Fewer

LEMMA HearSilent ==
  ASSUME HearInv, Fewer, UNCHANGED heard,
         \A q \in Nodes, n \in Nodes : Subscribed(q, n) => (Awaits(q, n)' <=> Awaits(q, n))
  PROVE  HearInv'
<1>1. ASSUME NEW q \in Nodes, NEW n \in Nodes, Subscribed(q, n)'
      PROVE  /\ ~probe'[q].settled =>
                  heard'[n] = IF ~probe'[q].started \/ Awaits(q, n)' THEN <<>> ELSE <<"checking">>
             /\ probe'[q].settled /\ Awaits(q, n)' => heard'[n] = <<"checking">>
  <2>1. Subscribed(q, n) /\ probe'[q].started = probe[q].started /\ probe'[q].settled = probe[q].settled
    BY <1>1 DEF Fewer
  <2>2. Awaits(q, n)' <=> Awaits(q, n)
    BY <2>1
  <2> QED
    BY <2>1, <2>2 DEF HearInv
<1>2. \A n \in Nodes : node'[n].start # "done" => heard'[n] = <<>>
  BY DEF HearInv, Fewer
<1>3. \A n \in Nodes : heard'[n] \in {<<>>, <<"checking">>, <<"checking", "connected">>, <<"checking", "failed">>}
  BY DEF HearInv
<1> QED
  BY <1>1, <1>2, <1>3 DEF HearInv

LEMMA AppendToOne ==
  ASSUME NEW S, NEW a \in S, NEW b \in S
  PROVE  Append(<<a>>, b) = <<a, b>>
<1>1. <<a>> \in Seq(S) /\ Len(<<a>>) = 1 /\ <<a>>[1] = a
  OBVIOUS
<1>2. <<a, b>> \in Seq(S) /\ Len(<<a, b>>) = 2 /\ <<a, b>>[1] = a /\ <<a, b>>[2] = b
  OBVIOUS
<1> DEFINE t == Append(<<a>>, b)
<1>3. t \in Seq(S) /\ Len(t) = 2 /\ t[1] = a /\ t[2] = b
  BY <1>1, AppendProperties
<1> HIDE DEF t
<1>4. \A i \in 1..2 : i = 1 \/ i = 2
  OBVIOUS
<1>5. \A i \in 1..2 : t[i] = <<a, b>>[i]
  BY <1>2, <1>3, <1>4
<1>6. t = <<a, b>>
  BY <1>2, <1>3, <1>5, SeqEqual
<1> QED
  BY <1>6 DEF t

\* One turn of the delivery with a node that is still subscribed.
LEMMA HearNext ==
  ASSUME TypeOK, CallInv, SubInv, HearInv, Fewer, Advances, NEW n \in Nodes, n = Head(call.todo),
         Contains(call.todo, n), Subscribed(call.probe, n),
         heard' = [heard EXCEPT ![n] = Append(@, call.status)]
  PROVE  HearInv'
<1>1. PICK p \in Nodes : p = call.probe
  BY CallTypes DEF Advances
<1>2. Awaits(p, n) /\ ~Awaits(p, n)' /\ Subscribed(p, n)
  BY <1>1 DEF Awaits, Advances
<1>3. \A q \in Nodes, m \in Nodes : m # n => (Awaits(q, m)' <=> Awaits(q, m))
  BY DEF Awaits, Advances
<1>4. heard \in [Nodes -> Seq(Status)]
  BY Types
<1>5. heard'[n] = Append(heard[n], call.status) /\ \A m \in Nodes : m # n => heard'[m] = heard[m]
  BY <1>4
<1>6. probe[p].started /\ call \in Calls /\ call # NoCall
  BY <1>1, CallTypes DEF CallInv, Advances
<1>7. ASSUME ~probe[p].settled
      PROVE  heard'[n] = <<"checking">>
  <2>1. heard[n] = <<>>
    BY <1>2, <1>7 DEF HearInv
  <2>2. call.status = "checking"
    BY <1>1, <1>6, <1>7, CallTypes DEF CallInv
  <2>3. Append(<<>>, "checking") = <<"checking">>
    OBVIOUS
  <2> QED
    BY <1>5, <2>1, <2>2, <2>3
<1>8. ASSUME probe[p].settled
      PROVE  heard'[n] \in {<<"checking", "connected">>, <<"checking", "failed">>}
  <2>1. heard[n] = <<"checking">>
    BY <1>2, <1>8 DEF HearInv
  <2>2. probe[p].subscribers # <<>>
    <3>1. probe[p].subscribers \in Seq(Nodes)
      BY Types DEF ProbeRecord
    <3> QED
      BY <1>2, <3>1, NobodyIn DEF Subscribed
  <2>3. Finishing(p)
    BY <1>8, <2>2 DEF SubInv, Running
  <2>4. call.status = "connected" \/ call.status = "failed"
    BY <2>3 DEF Finishing, CallInv, Final
  <2>5. "checking" \in Status /\ "connected" \in Status /\ "failed" \in Status
    BY DEF Status, Final
  <2>6. /\ Append(<<"checking">>, "connected") = <<"checking", "connected">>
        /\ Append(<<"checking">>, "failed") = <<"checking", "failed">>
    BY <2>5, AppendToOne
  <2> QED
    BY <1>5, <2>1, <2>4, <2>6
<1>9. \A m \in Nodes :
        heard'[m] \in {<<>>, <<"checking">>, <<"checking", "connected">>, <<"checking", "failed">>}
  BY <1>5, <1>7, <1>8 DEF HearInv
<1>10. node[n].start = "done"
  BY <1>2, NoProbeAssumption DEF SubInv, CallInv, Joining
<1>11. \A m \in Nodes : node'[m].start # "done" => heard'[m] = <<>>
  BY <1>5, <1>10 DEF HearInv, Fewer
<1>12. ASSUME NEW q \in Nodes, NEW m \in Nodes, Subscribed(q, m)'
       PROVE  /\ ~probe'[q].settled =>
                   heard'[m] = IF ~probe'[q].started \/ Awaits(q, m)' THEN <<>> ELSE <<"checking">>
              /\ probe'[q].settled /\ Awaits(q, m)' => heard'[m] = <<"checking">>
  <2>1. Subscribed(q, m) /\ probe'[q].started = probe[q].started /\ probe'[q].settled = probe[q].settled
    BY <1>12 DEF Fewer
  <2>2. CASE m = n
    <3>1. q = p
      BY <1>2, <2>1, <2>2, OneSubscription
    <3> QED
      BY <1>2, <1>6, <1>7, <2>1, <2>2, <3>1
  <2>3. CASE m # n
    <3>1. (Awaits(q, m)' <=> Awaits(q, m)) /\ heard'[m] = heard[m]
      BY <1>3, <1>5, <2>3
    <3> QED
      BY <2>1, <3>1 DEF HearInv
  <2> QED
    BY <2>2, <2>3
<1> QED
  BY <1>9, <1>11, <1>12 DEF HearInv

-----------------------------------------------------------------------------
(* The end of a check.                                                     *)

\* Nothing is on the stack, or begin after its delivery.
Resting == call = NoCall \/ (call.op = "begin" /\ call.todo = <<>>)

LEMMA RestingIdle ==
  ASSUME Resting, NEW p, NEW n
  PROVE  ~Finishing(p) /\ ~Joining(p, n) /\ ~Awaits(p, n)
BY EmptySeq DEF Resting, Finishing, Joining, Awaits, Contains

\* A step that leaves every subscription and every stage alone.
LEMMA QuietKeeps ==
  ASSUME SubInv, HearInv, UNCHANGED heard, call' = call \/ (Resting /\ call' = NoCall),
         \A q \in Nodes : /\ probe'[q].subscribers = probe[q].subscribers
                          /\ probe'[q].started = probe[q].started /\ probe'[q].settled = probe[q].settled
                          /\ probe'[q].start = probe[q].start /\ probe'[q].warned = probe[q].warned,
         node' \in [Nodes -> NodeRecord], TypeOK, \A n \in Nodes : Stays(n)
  PROVE  SubInv' /\ HearInv'
<1>1. \A q \in Nodes : /\ Running(q)' <=> Running(q)
                       /\ Used(q)' <=> Used(q)
                       /\ Finishing(q)' <=> Finishing(q)
                       /\ \A n \in Nodes : /\ Subscribed(q, n)' <=> Subscribed(q, n)
                                           /\ Joining(q, n)' <=> Joining(q, n)
                                           /\ Awaits(q, n)' <=> Awaits(q, n)
  BY RestingIdle DEF Running, Used, Finishing, Subscribed, Joining, Awaits
<1>2. ASSUME NEW n \in Nodes, node'[n].unsubscribe # NoProbe
      PROVE  ~node'[n].closed /\ node'[n].start = "done" /\ Used(node[n].unsubscribe)'
  <2>1. node[n].unsubscribe # NoProbe /\ node'[n].unsubscribe = node[n].unsubscribe
    BY <1>2 DEF Stays
  <2>2. PICK q \in Nodes : q = node[n].unsubscribe
    BY <2>1, Types DEF NodeRecord
  <2>3. Used(q) /\ ~node[n].closed /\ node[n].start = "done"
    BY <2>1, <2>2 DEF SubInv
  <2>4. Used(q)'
    BY <1>1, <2>3
  <2> QED
    BY <2>1, <2>2, <2>3, <2>4 DEF Stays
<1>3. SubInv'
  <2>1. \A n \in Nodes : node'[n].start # "done" => ~Used(n)' /\ ~probe'[n].warned
    BY <1>1 DEF SubInv, Stays
  <2>2. \A q \in Nodes : Distinct(probe'[q].subscribers)
    BY DEF SubInv
  <2>3. \A q \in Nodes : /\ Running(q)' => probe'[q].subscribers # <<>>
                         /\ ~Running(q)' /\ probe'[q].subscribers # <<>> => Finishing(q)'
    BY <1>1 DEF SubInv
  <2>4. \A q \in Nodes, n \in Nodes : Subscribed(q, n)' => node'[n].unsubscribe = q \/ Joining(q, n)'
    BY <1>1 DEF SubInv, Stays
  <2> QED
    BY <1>2, <2>1, <2>2, <2>3, <2>4 DEF SubInv
<1>4. Fewer
  BY <1>1 DEF Fewer, Stays
<1>5. HearInv'
  BY <1>1, <1>4, HearSilent
<1> QED
  BY <1>3, <1>5

LEMMA FinishKeeps ==
  ASSUME IInv, Resting, NEW p \in Nodes, ~probe[p].settled, probe[p].started,
         NEW op \in {"finish", "factory"}, NEW status \in Final, FinishCall(op, p, status),
         UNCHANGED <<closed, node, heard>>,
         fault' \subseteq Nodes, connecting' \in [Nodes -> {"none", "queued", "pending", "done"}],
         \A q \in Nodes : q # p => connecting'[q] = connecting[q] /\ (q \in fault' <=> q \in fault),
         status = "connected" => client[p].authenticated /\ p \notin fault',
         status = "failed" => p \in fault'
  PROVE  IInv'
<1>1. /\ TypeOK /\ LifeInv /\ SubInv /\ HearInv
      /\ probe[p] \in ProbeRecord /\ warnings \in [Nodes -> 0..1]
      /\ closed \in BOOLEAN /\ current \in Nodes \union {NoProbe}
      /\ node \in [Nodes -> NodeRecord] /\ heard \in [Nodes -> Seq(Status)]
  BY Types DEF IInv
<1> DEFINE r == IF status = "failed" THEN Warned(probe[p]) ELSE probe[p]
<1>2. r \in ProbeRecord /\ r.started = probe[p].started /\ r.subscribers = probe[p].subscribers
      /\ (r.warned <=> status = "failed" \/ probe[p].warned)
  BY <1>1, WarnedRecord
<1>3. /\ Settle(p, r)
      /\ warnings' = IF status = "failed" THEN WarningsOf(p) ELSE warnings
      /\ call' = [op |-> op, probe |-> p, todo |-> probe[p].subscribers, status |-> status]
  BY DEF FinishCall
<1> HIDE DEF r
<1>4. /\ OthersKept(p) /\ Settles(p)
      /\ probe'[p].warned = r.warned /\ probe'[p].subscribers = probe[p].subscribers
  BY <1>1, <1>2, <1>3, SettleEffect
<1>5. /\ warnings' \in [Nodes -> 0..1] /\ \A q \in Nodes : q # p => warnings'[q] = warnings[q]
      /\ ~probe'[p].warned => warnings'[p] = 0
  BY <1>1, <1>2, <1>3, <1>4 DEF WarningsOf, LifeInv, Healthy
<1>6. LifeInv'
  BY <1>1, <1>4, <1>5, SettleLife
<1>7. /\ probe[p].subscribers \in Seq(Nodes) /\ Distinct(probe[p].subscribers)
  BY <1>1 DEF ProbeRecord, SubInv
<1>8. /\ call' \in Calls /\ call' # NoCall
      /\ call'.op = op /\ call'.probe = p /\ call'.todo = probe[p].subscribers /\ call'.status = status
  BY <1>3, <1>7 DEF Calls, NoCall, Status
<1>9. TypeOK'
  <2>1. current' \in Nodes \union {NoProbe}
    BY <1>1, <1>4 DEF Settles
  <2> QED
    BY <1>1, <1>4, <1>5, <1>8, <2>1 DEF TypeOK, OthersKept, ProbeRecord, ClientRecord, NodeRecord
<1>10. CallInv'
  <2>1. Used(p)' /\ probe'[p].started /\ probe'[p].settled
        /\ client'[p].authenticated = client[p].authenticated
    BY <1>4 DEF Used, Settles
  <2> QED
    BY <1>7, <1>8, <2>1 DEF CallInv, Used
<1>11. \A q \in Nodes, n \in Nodes : ~Finishing(q) /\ ~Joining(q, n) /\ ~Awaits(q, n)
  BY RestingIdle
<1>12. \A q \in Nodes : q # p => probe'[q] = probe[q]
  BY <1>4 DEF OthersKept
<1>13. SubInv'
  <2>1. ASSUME NEW n \in Nodes, node[n].start # "done"
        PROVE  ~Used(n)' /\ ~probe'[n].warned
    <3>1. ~Used(n) /\ ~probe[n].warned
      BY <1>1, <2>1 DEF SubInv
    <3>2. n # p
      BY <3>1 DEF Used
    <3> QED
      BY <1>12, <3>1, <3>2 DEF Used
  <2>2. ASSUME NEW n \in Nodes, node[n].unsubscribe # NoProbe
        PROVE  ~node[n].closed /\ node[n].start = "done" /\ Used(node[n].unsubscribe)'
    <3>1. PICK q \in Nodes : q = node[n].unsubscribe
      BY <1>1, <2>2 DEF NodeRecord
    <3>2. Used(q) /\ ~node[n].closed /\ node[n].start = "done"
      BY <1>1, <2>2, <3>1 DEF SubInv
    <3>3. Used(q)'
      BY <1>4, <1>12, <3>2 DEF Used, Settles
    <3> QED
      BY <3>1, <3>2, <3>3
  <2>3. \A q \in Nodes : Distinct(probe'[q].subscribers)
    BY <1>1, <1>4, <1>12 DEF SubInv
  <2>4. ASSUME NEW q \in Nodes
        PROVE  /\ Running(q)' => probe'[q].subscribers # <<>>
               /\ ~Running(q)' /\ probe'[q].subscribers # <<>> => Finishing(q)'
    <3>1. CASE q = p
      BY <1>4, <1>8, <3>1 DEF Running, Settles, Finishing
    <3>2. CASE q # p
      BY <1>1, <1>11, <1>12, <3>2 DEF Running, SubInv
    <3> QED
      BY <3>1, <3>2
  <2>5. ASSUME NEW q \in Nodes, NEW n \in Nodes, Subscribed(q, n)'
        PROVE  node[n].unsubscribe = q
    <3>1. Subscribed(q, n)
      BY <1>4, <1>12, <2>5 DEF Subscribed
    <3> QED
      BY <1>1, <1>11, <3>1 DEF SubInv
  <2> QED
    BY <2>1, <2>2, <2>3, <2>4, <2>5 DEF SubInv
<1>14. HearInv'
  <2>1. ASSUME NEW q \in Nodes, NEW n \in Nodes, Subscribed(q, n)'
        PROVE  /\ ~probe'[q].settled =>
                    heard[n] = IF ~probe'[q].started \/ Awaits(q, n)' THEN <<>> ELSE <<"checking">>
               /\ probe'[q].settled /\ Awaits(q, n)' => heard[n] = <<"checking">>
    <3>1. Subscribed(q, n)
      BY <1>4, <1>12, <2>1 DEF Subscribed
    <3>2. CASE q = p
      BY <1>1, <1>4, <1>11, <3>1, <3>2 DEF Settles, HearInv
    <3>3. CASE q # p
      <4>1. ~Awaits(q, n)'
        BY <1>8, <3>3 DEF Awaits
      <4> QED
        BY <1>1, <1>11, <1>12, <3>1, <3>3, <4>1 DEF HearInv
    <3> QED
      BY <3>2, <3>3
  <2>2. \A n \in Nodes : node[n].start # "done" => heard[n] = <<>>
    BY <1>1 DEF HearInv
  <2>3. \A n \in Nodes :
          heard[n] \in {<<>>, <<"checking">>, <<"checking", "connected">>, <<"checking", "failed">>}
    BY <1>1 DEF HearInv
  <2> QED
    BY <2>1, <2>2, <2>3 DEF HearInv
<1> QED
  BY <1>6, <1>9, <1>10, <1>13, <1>14 DEF IInv

-----------------------------------------------------------------------------
(* One lemma per operation: it keeps the invariant.                        *)

\* A listener's step, or none, while the delivery goes on; also of a closed node or account.
LEMMA EffectKeeps ==
  ASSUME IInv, NEW p \in Nodes, Effect(p), call' = call, UNCHANGED <<connecting, heard, fault>>
  PROVE  IInv'
<1>1. /\ TypeOK /\ LifeInv /\ CallInv /\ SubInv /\ HearInv
      /\ connecting \in [Nodes -> {"none", "queued", "pending", "done"}]
      /\ heard \in [Nodes -> Seq(Status)] /\ fault \subseteq Nodes
      /\ current \in Nodes \union {NoProbe}
  BY Types DEF IInv
<1>2. Recedes(p) /\ \A n \in Nodes : Stays(n) \/ Ends(n)
  BY DEF Effect, NodeStep
<1>3. TypeOK'
  <2>1. current' \in Nodes \union {NoProbe}
    BY <1>1, <1>2 DEF Recedes, Settles, Continues
  <2>2. probe' \in [Nodes -> ProbeRecord] /\ client' \in [Nodes -> ClientRecord] /\ node' \in [Nodes -> NodeRecord]
        /\ warnings' \in [Nodes -> 0..1] /\ closed' \in BOOLEAN
    BY <1>2 DEF Effect, NodeStep, Recedes, OthersKept
  <2>3. call' = NoCall \/ call' \in Calls
    BY <1>1 DEF TypeOK
  <2> QED
    BY <1>1, <2>1, <2>2, <2>3 DEF TypeOK, ProbeRecord, ClientRecord, NodeRecord
<1>4. LifeInv'
  BY <1>1, <1>2, RecedeLife DEF Effect
<1>5. CallInv'
  BY <1>1, <1>2, RecedeKeeps, CallKept
<1>6. SubInv'
  BY <1>1, EffectSub
<1>7. Fewer
  BY <1>1, EffectFewer
<1>8. \A q \in Nodes, n \in Nodes : Awaits(q, n)' <=> Awaits(q, n)
  BY DEF Awaits
<1>9. HearInv'
  BY <1>1, <1>7, <1>8, HearSilent
<1> QED
  BY <1>3, <1>4, <1>5, <1>6, <1>9 DEF IInv

\* A turn of the delivery with the effect of its listeners.
LEMMA TurnKeeps ==
  ASSUME IInv, NEW p \in Nodes, Effect(p), call # NoCall, call.todo # <<>>, call' = DeliveryContinues,
         UNCHANGED <<connecting, fault>>,
         \/ UNCHANGED heard /\ ~Subscribed(call.probe, Head(call.todo))
         \/ /\ Subscribed(call.probe, Head(call.todo))
            /\ heard' = [heard EXCEPT ![Head(call.todo)] = Append(@, call.status)]
  PROVE  IInv'
<1>1. /\ TypeOK /\ LifeInv /\ CallInv /\ SubInv /\ HearInv
      /\ connecting \in [Nodes -> {"none", "queued", "pending", "done"}]
      /\ heard \in [Nodes -> Seq(Status)] /\ fault \subseteq Nodes
      /\ current \in Nodes \union {NoProbe} /\ call.status \in Status
  BY Types, CallTypes DEF IInv
<1>2. Recedes(p) /\ \A n \in Nodes : Stays(n) \/ Ends(n)
  BY DEF Effect, NodeStep
<1>3. Advances /\ Head(call.todo) \in Nodes /\ Contains(call.todo, Head(call.todo))
  BY <1>1, DeliveryAdvances
<1>4. TypeOK'
  <2>1. current' \in Nodes \union {NoProbe}
    BY <1>1, <1>2 DEF Recedes, Settles, Continues
  <2>2. probe' \in [Nodes -> ProbeRecord] /\ client' \in [Nodes -> ClientRecord] /\ node' \in [Nodes -> NodeRecord]
        /\ warnings' \in [Nodes -> 0..1] /\ closed' \in BOOLEAN
    BY <1>2 DEF Effect, NodeStep, Recedes, OthersKept
  <2>3. call' \in Calls
    BY <1>3 DEF Advances
  <2>4. heard' \in [Nodes -> Seq(Status)]
    <3>1. \A n \in Nodes : heard[n] \in Seq(Status) /\ Append(heard[n], call.status) \in Seq(Status)
      BY <1>1, AppendProperties
    <3> QED
      BY <1>1, <3>1
  <2> QED
    BY <1>1, <2>1, <2>2, <2>3, <2>4 DEF TypeOK, ProbeRecord, ClientRecord, NodeRecord
<1>5. LifeInv'
  BY <1>1, <1>2, RecedeLife DEF Effect
<1>6. CallInv'
  BY <1>1, <1>2, <1>3, RecedeKeeps, CallKept
<1>7. SubInv'
  BY <1>1, <1>3, EffectSub
<1>8. Fewer
  BY <1>1, EffectFewer
<1>9. HearInv'
  <2>1. CASE UNCHANGED heard /\ ~Subscribed(call.probe, Head(call.todo))
    <3>1. \A q \in Nodes, n \in Nodes : Subscribed(q, n) => (Awaits(q, n)' <=> Awaits(q, n))
      BY <1>3, <2>1 DEF Awaits, Advances
    <3> QED
      BY <1>1, <1>8, <2>1, <3>1, HearSilent
  <2>2. CASE /\ Subscribed(call.probe, Head(call.todo))
             /\ heard' = [heard EXCEPT ![Head(call.todo)] = Append(@, call.status)]
    <3>1. PICK n \in Nodes : n = Head(call.todo)
      BY <1>3
    <3>2. heard' = [heard EXCEPT ![n] = Append(@, call.status)]
      BY <2>2, <3>1
    <3> QED
      BY <1>1, <1>3, <1>8, <2>2, <3>1, <3>2, HearNext
  <2> QED
    BY <2>1, <2>2
<1> QED
  BY <1>4, <1>5, <1>6, <1>7, <1>9 DEF IInv

LEMMA AlikeNow ==
  ASSUME TypeOK
  PROVE  Alike(node)
BY Types DEF Alike

LEMMA NothingEffect ==
  ASSUME TypeOK, LifeInv, SubInv, NEW p \in Nodes, UNCHANGED <<closed, current, probe, client, node, warnings>>
  PROVE  Effect(p)
<1>1. closed \in BOOLEAN /\ warnings \in [Nodes -> 0..1]
  BY Types
<1>2. Distinct(probe[p].subscribers) /\ (~probe[p].warned => warnings[p] = 0)
  BY DEF SubInv, LifeInv, Healthy
<1>3. Recedes(p)
  BY <1>2, SameRecedes
<1>4. NodeStep(p)
  BY AlikeNow, AlikeStep
<1> QED
  BY <1>1, <1>2, <1>3, <1>4 DEF Effect

LEMMA DeliverKeeps ==
  ASSUME IInv, Deliver
  PROVE  IInv'
<1>1. TypeOK /\ LifeInv /\ CallInv /\ SubInv
  BY DEF IInv
<1>2. call # NoCall /\ call.todo # <<>> /\ call' = DeliveryContinues /\ UNCHANGED <<connecting, fault>>
  BY DEF Deliver, Idle
<1>3. call.probe \in Nodes /\ Head(call.todo) \in Nodes /\ call.status \in Status
  BY <1>1, <1>2, CallTypes, DeliveryAdvances
<1>4. PICK p \in Nodes, n \in Nodes : p = call.probe /\ n = Head(call.todo)
  BY <1>3
<1>5. Used(p)
  BY <1>1, <1>2, <1>4 DEF CallInv
<1>6. CASE ~Subscribed(p, n)
  <2>1. UNCHANGED <<closed, current, probe, client, node, heard, warnings>>
    BY <1>4, <1>6 DEF Deliver
  <2>2. Effect(p)
    BY <1>1, <2>1, NothingEffect
  <2> QED
    BY <1>2, <1>4, <1>6, <2>1, <2>2, TurnKeeps
<1>7. CASE Subscribed(p, n)
  <2>1. heard' = [heard EXCEPT ![n] = Append(@, call.status)]
    BY <1>4, <1>7 DEF Deliver
  <2>2. CASE node[n].closed \/ node[n].revised
    <3>1. Effect(p)
      BY <1>1, <1>4, <1>7, <2>2, NothingEffect DEF Deliver
    <3> QED
      BY <1>2, <1>4, <1>7, <2>1, <3>1, TurnKeeps
  <2>3. CASE ~(node[n].closed \/ node[n].revised)
    <3>1. PICK s : s = [node EXCEPT ![n].shown = call.status]
      OBVIOUS
    <3>2. Listeners(s, p)
      BY <1>4, <1>7, <2>3, <3>1 DEF Deliver
    <3>3. Alike(s)
      <4>1. node \in [Nodes -> NodeRecord]
        BY <1>1, Types
      <4>2. call.status \in Status \union {"none", "work"}
        BY <1>3
      <4> QED
        BY <3>1, <4>1, <4>2 DEF Alike, NodeRecord
    <3>4. PICK q \in Nodes : Effect(q)
      BY <1>1, <1>5, <3>2, <3>3, ListenersEffect
    <3> QED
      BY <1>2, <1>4, <1>7, <2>1, <3>4, TurnKeeps
  <2> QED
    BY <2>2, <2>3
<1> QED
  BY <1>6, <1>7

LEMMA CloseKeeps ==
  ASSUME IInv, NEW n \in Nodes, Close(n)
  PROVE  IInv'
<1>1. TypeOK /\ LifeInv /\ SubInv
  BY DEF IInv
<1>2. \E p \in Nodes : Effect(p)
  BY <1>1, AlikeNow, StatusCloseEffect DEF Close
<1> QED
  BY <1>2, EffectKeeps DEF Close

\* A quiet step between two callbacks, or at the end of one.
LEMMA QuietInv ==
  ASSUME IInv, Resting, UNCHANGED heard, call' = NoCall, TypeOK', LifeInv',
         \A q \in Nodes : /\ probe'[q].subscribers = probe[q].subscribers
                          /\ probe'[q].started = probe[q].started /\ probe'[q].settled = probe[q].settled
                          /\ probe'[q].start = probe[q].start /\ probe'[q].warned = probe[q].warned,
         \A n \in Nodes : Stays(n)
  PROVE  IInv'
<1>1. node' \in [Nodes -> NodeRecord]
  BY DEF TypeOK, NodeRecord
<1>2. TypeOK /\ SubInv /\ HearInv
  BY DEF IInv
<1>3. SubInv' /\ HearInv'
  <2>1. call' = call \/ (Resting /\ call' = NoCall)
    OBVIOUS
  <2> QED
    BY <1>1, <1>2, <2>1, QuietKeeps
<1> QED
  BY <1>3 DEF IInv, CallInv

LEMMA CloseAccountKeeps ==
  ASSUME IInv, CloseAccount
  PROVE  IInv'
<1>1. TypeOK /\ LifeInv /\ SubInv /\ current \in Nodes \union {NoProbe}
  BY Types DEF IInv
<1>2. CASE current # NoProbe
  <2>1. Effect(current)
    BY <1>1, <1>2, AlikeNow, CheckerCloseEffect DEF CloseAccount
  <2>2. PICK p \in Nodes : p = current
    BY <1>1, <1>2
  <2>3. Effect(p)
    BY <2>1, <2>2
  <2> QED
    BY <2>3, EffectKeeps DEF CloseAccount
<1>3. CASE current = NoProbe
  <2>1. /\ UNCHANGED <<current, probe, client, connecting, call, node, heard, fault, warnings>>
        /\ closed' = TRUE
    BY <1>3 DEF CloseAccount, CheckerClose
  <2>2. TypeOK'
    BY <1>1, <2>1 DEF TypeOK
  <2>3. LifeInv'
    BY <1>1, <1>3, <2>1 DEF LifeInv, Healthy, Running
  <2> QED
    BY <2>1, <2>2, <2>3, QuietInv DEF CloseAccount, Stays, Idle, Resting
<1> QED
  BY <1>2, <1>3

LEMMA TimeoutKeeps ==
  ASSUME IInv, NEW p \in Nodes, Timeout(p)
  PROVE  IInv'
<1>1. LifeInv /\ fault \subseteq Nodes /\ connecting \in [Nodes -> {"none", "queued", "pending", "done"}]
  BY Types DEF IInv
<1>2. ~probe[p].settled /\ probe[p].started /\ Resting
  BY <1>1 DEF Timeout, Macrotask, Idle, Resting, LifeInv, Healthy
<1>3. FinishCall("finish", p, "failed") /\ fault' = fault \union {p}
      /\ UNCHANGED <<connecting, closed, node, heard>>
  BY DEF Timeout, Finish
<1> QED
  BY <1>1, <1>2, <1>3, FinishKeeps DEF Final

LEMMA SetKeeps ==
  ASSUME IInv, NEW n \in Nodes, Set(n)
  PROVE  IInv'
<1>1. TypeOK /\ LifeInv
  BY DEF IInv
<1>2. Alike(StatusSet(node, n))
  BY <1>1, AlikeNow, StatusSetEffect
<1>3. /\ Idle /\ node' = StatusSet(node, n)
      /\ UNCHANGED <<connecting, closed, current, probe, client, call, heard, fault, warnings>>
  BY DEF Set
<1>4. node' \in [Nodes -> NodeRecord] /\ \A m \in Nodes : Stays(m)
  BY <1>2, <1>3 DEF Alike, Stays
<1>5. TypeOK'
  BY <1>1, <1>3, <1>4 DEF TypeOK, NodeRecord
<1>6. LifeInv'
  BY <1>1, <1>3 DEF LifeInv, Healthy, Running
<1> QED
  BY <1>3, <1>4, <1>5, <1>6, QuietInv DEF Idle, Resting

LEMMA StartKeeps ==
  ASSUME IInv, NEW n \in Nodes, Start(n)
  PROVE  IInv'
<1>1. TypeOK /\ LifeInv /\ node \in [Nodes -> NodeRecord]
  BY Types DEF IInv
<1>2. /\ Idle /\ node[n].start = "idle" /\ node' = [node EXCEPT ![n].start = "pending"]
      /\ UNCHANGED <<connecting, closed, current, probe, client, call, heard, fault, warnings>>
  BY DEF Start
<1>3. node' \in [Nodes -> NodeRecord] /\ \A m \in Nodes : Stays(m)
  BY <1>1, <1>2 DEF NodeRecord, Stays
<1>4. TypeOK'
  BY <1>1, <1>2, <1>3 DEF TypeOK, NodeRecord
<1>5. LifeInv'
  BY <1>1, <1>2 DEF LifeInv, Healthy, Running
<1> QED
  BY <1>2, <1>3, <1>4, <1>5, QuietInv DEF Idle, Resting

LEMMA ConnectKeeps ==
  ASSUME IInv, NEW p \in Nodes, Connect(p)
  PROVE  IInv'
<1>1. TypeOK /\ LifeInv /\ connecting \in [Nodes -> {"none", "queued", "pending", "done"}]
  BY Types DEF IInv
<1>2. /\ Idle /\ connecting[p] = "queued"
      /\ connecting' = [connecting EXCEPT ![p] = IF probe[p].settled THEN "done" ELSE "pending"]
      /\ UNCHANGED <<closed, current, probe, client, call, node, heard, fault, warnings>>
  BY DEF Connect
<1>3. TypeOK'
  BY <1>1, <1>2 DEF TypeOK
<1>4. Elsewhere(p)
  BY <1>1, <1>2, Types DEF Elsewhere, OthersKept
<1>5. Healthy(p)'
  BY <1>1, <1>2 DEF LifeInv, Healthy, Running
<1>6. LifeInv'
  BY <1>1, <1>2, <1>4, <1>5, OthersHealthy DEF LifeInv
<1> QED
  BY <1>2, <1>3, <1>6, QuietInv DEF Stays, Idle, Resting

LEMMA AuthenticateKeeps ==
  ASSUME IInv, NEW p \in Nodes, Authenticate(p)
  PROVE  IInv'
<1>1. TypeOK /\ LifeInv /\ client \in [Nodes -> ClientRecord]
  BY Types DEF IInv
<1>2. /\ Idle /\ client[p].state = "open"
      /\ client' = [client EXCEPT ![p].authenticated = TRUE]
      /\ UNCHANGED <<connecting, closed, current, probe, call, node, heard, fault, warnings>>
  BY DEF Authenticate, Macrotask
<1>3. /\ client' \in [Nodes -> ClientRecord]
      /\ client'[p].state = "open" /\ client'[p].authenticated
      /\ \A q \in Nodes : q # p => client'[q] = client[q]
  BY <1>1, <1>2 DEF ClientRecord
<1>4. TypeOK'
  BY <1>1, <1>2, <1>3 DEF TypeOK, ClientRecord
<1>5. Elsewhere(p)
  BY <1>1, <1>2, <1>3, Types DEF Elsewhere, OthersKept
<1>6. Healthy(p)'
  BY <1>1, <1>2, <1>3 DEF LifeInv, Healthy, Running
<1>7. LifeInv'
  BY <1>1, <1>2, <1>5, <1>6, OthersHealthy DEF LifeInv
<1> QED
  BY <1>2, <1>4, <1>7, QuietInv DEF Stays, Idle, Resting

LEMMA ClientClosesKeeps ==
  ASSUME IInv, NEW p \in Nodes, ClientCloses(p)
  PROVE  IInv'
<1>1. /\ TypeOK /\ LifeInv /\ client \in [Nodes -> ClientRecord] /\ probe \in [Nodes -> ProbeRecord]
      /\ fault \subseteq Nodes
  BY Types DEF IInv
<1>2. /\ Idle /\ client[p].state = "open"
      /\ client' = [client EXCEPT ![p].state = "closed"]
      /\ probe' = [probe EXCEPT ![p].listening = FALSE, ![p].closeCheck = @ \/ probe[p].listening]
      /\ fault' = IF client[p].authenticated THEN fault ELSE fault \union {p}
      /\ UNCHANGED <<connecting, closed, current, call, node, heard, warnings>>
  BY DEF ClientCloses, Macrotask
<1>3. /\ client' \in [Nodes -> ClientRecord]
      /\ client'[p].state = "closed" /\ client'[p].authenticated = client[p].authenticated
      /\ \A q \in Nodes : q # p => client'[q] = client[q]
  BY <1>1, <1>2 DEF ClientRecord
<1>4. /\ probe' \in [Nodes -> ProbeRecord]
      /\ probe'[p].subscribers = probe[p].subscribers
      /\ probe'[p].started = probe[p].started /\ probe'[p].settled = probe[p].settled
      /\ probe'[p].start = probe[p].start /\ probe'[p].warned = probe[p].warned
      /\ probe'[p].timer = probe[p].timer /\ ~probe'[p].listening
      /\ \A q \in Nodes : q # p => probe'[q] = probe[q]
  BY <1>1, <1>2 DEF ProbeRecord
<1>5. TypeOK'
  BY <1>1, <1>2, <1>3, <1>4 DEF TypeOK, ClientRecord, ProbeRecord
<1>6. Elsewhere(p)
  BY <1>1, <1>2, <1>3, <1>4 DEF Elsewhere, OthersKept
<1>7. Healthy(p)
  BY <1>1 DEF LifeInv
<1>8. probe[p].started /\ ~probe[p].settled
  BY <1>2, <1>7 DEF Healthy
<1>9. p \in fault' \/ client'[p].authenticated
  BY <1>1, <1>2, <1>3
<1>10. p \in fault' => ~client'[p].authenticated
  BY <1>2, <1>3, <1>7, <1>8 DEF Healthy
<1>11. Healthy(p)'
  BY <1>2, <1>3, <1>4, <1>7, <1>8, <1>9, <1>10 DEF Healthy, Running
<1>12. LifeInv'
  BY <1>1, <1>2, <1>6, <1>11, OthersHealthy DEF LifeInv
<1>13. \A q \in Nodes : /\ probe'[q].subscribers = probe[q].subscribers
                        /\ probe'[q].started = probe[q].started /\ probe'[q].settled = probe[q].settled
                        /\ probe'[q].start = probe[q].start /\ probe'[q].warned = probe[q].warned
  BY <1>4
<1> QED
  BY <1>2, <1>5, <1>12, <1>13, QuietInv DEF Stays, Idle, Resting

LEMMA CloseCheckKeeps ==
  ASSUME IInv, NEW p \in Nodes, CloseCheck(p)
  PROVE  IInv'
<1>1. /\ TypeOK /\ LifeInv /\ probe \in [Nodes -> ProbeRecord] /\ client \in [Nodes -> ClientRecord]
      /\ fault \subseteq Nodes /\ connecting \in [Nodes -> {"none", "queued", "pending", "done"}]
  BY Types DEF IInv
<1>2. Healthy(p) /\ probe[p].closeCheck /\ Idle /\ UNCHANGED <<connecting, closed, node, heard, fault>>
  BY <1>1 DEF LifeInv, CloseCheck, Macrotask
<1>3. ~probe[p].settled /\ probe[p].started
  BY <1>2 DEF Healthy
<1> DEFINE q == [probe[p] EXCEPT !.closeCheck = FALSE]
<1>4. q \in ProbeRecord /\ ~q.settled
      /\ q.subscribers = probe[p].subscribers /\ q.started = probe[p].started
      /\ q.settled = probe[p].settled /\ q.start = probe[p].start /\ q.warned = probe[p].warned
      /\ q.timer = probe[p].timer /\ q.listening = probe[p].listening /\ ~q.closeCheck
  BY <1>1, <1>3 DEF ProbeRecord
<1>5. IF ~q.settled /\ ~client[p].authenticated
      THEN Finish(p, "failed")
      ELSE probe' = [probe EXCEPT ![p] = q] /\ UNCHANGED <<current, client, call, warnings>>
  BY DEF CloseCheck
<1> HIDE DEF q
<1>6. CASE ~client[p].authenticated
  <2>1. p \in fault'
    BY <1>2, <1>6 DEF Healthy
  <2>2. FinishCall("finish", p, "failed")
    BY <1>4, <1>5, <1>6 DEF Finish
  <2> QED
    BY <1>1, <1>2, <1>3, <2>1, <2>2, FinishKeeps DEF Final, Idle, Resting
<1>7. CASE client[p].authenticated
  <2>1. probe' = [probe EXCEPT ![p] = q] /\ UNCHANGED <<current, client, call, warnings>>
    BY <1>5, <1>7
  <2>2. probe' \in [Nodes -> ProbeRecord] /\ probe'[p] = q /\ \A m \in Nodes : m # p => probe'[m] = probe[m]
    BY <1>1, <1>4, <2>1
  <2>3. TypeOK'
    BY <1>1, <1>2, <2>1, <2>2 DEF TypeOK, ProbeRecord
  <2>4. Elsewhere(p)
    BY <1>1, <1>2, <2>1, <2>2 DEF Elsewhere, OthersKept
  <2>5. Healthy(p)'
    BY <1>2, <1>4, <1>7, <2>1, <2>2 DEF Healthy, Running
  <2>6. LifeInv'
    BY <1>1, <1>2, <2>1, <2>4, <2>5, OthersHealthy DEF LifeInv
  <2>7. \A m \in Nodes : /\ probe'[m].subscribers = probe[m].subscribers
                         /\ probe'[m].started = probe[m].started /\ probe'[m].settled = probe[m].settled
                         /\ probe'[m].start = probe[m].start /\ probe'[m].warned = probe[m].warned
    BY <1>4, <2>2
  <2> QED
    BY <1>2, <2>1, <2>3, <2>6, <2>7, QuietInv DEF Stays, Idle, Resting
<1> QED
  BY <1>1, <1>6, <1>7 DEF ClientRecord

\* finish finds the probe settled: only its connect() has moved on.
LEMMA LateFinishKeeps ==
  ASSUME IInv, NEW p \in Nodes, probe[p].settled, probe[p].started, Idle,
         UNCHANGED <<closed, current, probe, client, call, node, heard, fault, warnings>>,
         connecting' \in [Nodes -> {"none", "queued", "pending", "done"}],
         \A q \in Nodes : q # p => connecting'[q] = connecting[q]
  PROVE  IInv'
<1>1. TypeOK /\ LifeInv /\ probe \in [Nodes -> ProbeRecord] /\ client \in [Nodes -> ClientRecord]
  BY Types DEF IInv
<1>2. TypeOK'
  BY <1>1 DEF TypeOK
<1>3. Elsewhere(p)
  BY <1>1 DEF Elsewhere, OthersKept
<1>4. Healthy(p)'
  BY <1>1 DEF LifeInv, Healthy, Running
<1>5. LifeInv'
  BY <1>1, <1>3, <1>4, OthersHealthy DEF LifeInv
<1> QED
  BY <1>2, <1>5, QuietInv DEF Stays, Idle, Resting

LEMMA ConnectSettlesKeeps ==
  ASSUME IInv, NEW p \in Nodes, NEW resolved \in BOOLEAN, ConnectSettles(p, resolved)
  PROVE  IInv'
<1>1. /\ LifeInv /\ fault \subseteq Nodes /\ client \in [Nodes -> ClientRecord]
      /\ connecting \in [Nodes -> {"none", "queued", "pending", "done"}]
  BY Types DEF IInv
<1> DEFINE success == resolved /\ client[p].authenticated
<1>2. /\ Idle /\ connecting[p] = "pending" /\ connecting' = [connecting EXCEPT ![p] = "done"]
      /\ fault' = IF success \/ probe[p].settled THEN fault ELSE fault \union {p}
      /\ FinishCall("finish", p, IF success THEN "connected" ELSE "failed")
      /\ UNCHANGED <<closed, node, heard>>
  BY DEF ConnectSettles, Macrotask, Finish
<1>3. Healthy(p) /\ probe[p].started
  BY <1>1, <1>2 DEF LifeInv, Healthy
<1>4. /\ connecting' \in [Nodes -> {"none", "queued", "pending", "done"}]
      /\ \A q \in Nodes : q # p => connecting'[q] = connecting[q]
  BY <1>1, <1>2
<1>5. CASE probe[p].settled
  <2>1. UNCHANGED <<current, probe, client, call, warnings>>
    BY <1>2, <1>5 DEF FinishCall
  <2> QED
    BY <1>2, <1>3, <1>4, <1>5, <2>1, LateFinishKeeps
<1>6. CASE ~probe[p].settled
  <2>1. CASE success
    <3>1. p \notin fault'
      BY <1>2, <1>3, <1>6, <2>1 DEF Healthy
    <3> QED
      BY <1>1, <1>2, <1>3, <1>4, <1>6, <2>1, <3>1, FinishKeeps DEF Final, Idle, Resting
  <2>2. CASE ~success
    <3>1. fault' = fault \union {p} /\ FinishCall("finish", p, "failed")
      BY <1>2, <1>6, <2>2
    <3> QED
      BY <1>1, <1>2, <1>3, <1>4, <1>6, <3>1, FinishKeeps DEF Final, Idle, Resting
  <2> QED
    BY <2>1, <2>2
<1> QED
  BY <1>5, <1>6

LEMMA ErrorEventKeeps ==
  ASSUME IInv, NEW p \in Nodes, ErrorEvent(p)
  PROVE  IInv'
<1>1. /\ LifeInv /\ fault \subseteq Nodes
      /\ connecting \in [Nodes -> {"none", "queued", "pending", "done"}]
  BY Types DEF IInv
<1>2. /\ Idle /\ client[p].state # "none"
      /\ fault' = IF probe[p].settled THEN fault ELSE fault \union {p}
      /\ FinishCall("finish", p, "failed")
      /\ UNCHANGED <<closed, connecting, node, heard>>
  BY DEF ErrorEvent, Macrotask, Finish
<1>3. probe[p].started
  BY <1>1, <1>2 DEF LifeInv, Healthy
<1>4. CASE probe[p].settled
  <2>1. UNCHANGED <<current, probe, client, call, warnings, fault>>
    BY <1>2, <1>4 DEF FinishCall
  <2> QED
    BY <1>1, <1>2, <1>3, <1>4, <2>1, LateFinishKeeps
<1>5. CASE ~probe[p].settled
  BY <1>1, <1>2, <1>3, <1>5, FinishKeeps DEF Final, Idle, Resting
<1> QED
  BY <1>4, <1>5

LEMMA BeginReturnsKeeps ==
  ASSUME IInv, BeginReturns
  PROVE  IInv'
<1>1. /\ TypeOK /\ LifeInv /\ CallInv /\ fault \subseteq Nodes
      /\ connecting \in [Nodes -> {"none", "queued", "pending", "done"}]
      /\ probe \in [Nodes -> ProbeRecord] /\ client \in [Nodes -> ClientRecord]
  BY Types DEF IInv
<1>2. call.op = "begin" /\ call.todo = <<>> /\ UNCHANGED <<closed, node, heard>>
  BY DEF BeginReturns
<1>3. call # NoCall /\ Resting
  BY <1>2 DEF NoCall, Resting
<1>4. PICK p \in Nodes : p = call.probe
  BY <1>1, <1>3, CallTypes
<1>5. probe[p].started /\ client[p].state = "none" /\ p \notin fault
  BY <1>1, <1>2, <1>3, <1>4 DEF CallInv
<1>6. CASE /\ probe[p].settled /\ call' = NoCall
           /\ UNCHANGED <<current, probe, client, connecting, fault, warnings>>
  <2>1. TypeOK'
    BY <1>1, <1>2, <1>6 DEF TypeOK
  <2>2. LifeInv'
    BY <1>1, <1>2, <1>6 DEF LifeInv, Healthy, Running
  <2> QED
    BY <1>2, <1>3, <1>6, <2>1, <2>2, QuietInv DEF Stays
<1>7. CASE /\ ~probe[p].settled /\ call' = NoCall
           /\ probe' = [probe EXCEPT ![p].timer = TRUE, ![p].listening = TRUE]
           /\ client' = [client EXCEPT ![p].state = "open"]
           /\ connecting' = [connecting EXCEPT ![p] = "queued"]
           /\ UNCHANGED <<current, fault, warnings>>
  <2>1. /\ client' \in [Nodes -> ClientRecord]
        /\ client'[p].state = "open" /\ client'[p].authenticated = client[p].authenticated
        /\ \A q \in Nodes : q # p => client'[q] = client[q]
    BY <1>1, <1>7 DEF ClientRecord
  <2>2. /\ probe' \in [Nodes -> ProbeRecord]
        /\ probe'[p].subscribers = probe[p].subscribers
        /\ probe'[p].started = probe[p].started /\ probe'[p].settled = probe[p].settled
        /\ probe'[p].start = probe[p].start /\ probe'[p].warned = probe[p].warned
        /\ probe'[p].closeCheck = probe[p].closeCheck
        /\ \A q \in Nodes : q # p => probe'[q] = probe[q]
    BY <1>1, <1>7 DEF ProbeRecord
  <2>3. /\ connecting' \in [Nodes -> {"none", "queued", "pending", "done"}]
        /\ \A q \in Nodes : q # p => connecting'[q] = connecting[q]
    BY <1>1, <1>7
  <2>4. TypeOK'
    BY <1>1, <1>2, <1>7, <2>1, <2>2, <2>3 DEF TypeOK, ClientRecord, ProbeRecord
  <2>5. Elsewhere(p)
    BY <1>7, <2>1, <2>2, <2>3 DEF Elsewhere, OthersKept
  <2>6. Healthy(p)'
    BY <1>1, <1>5, <1>7, <2>1, <2>2 DEF LifeInv, Healthy, Running
  <2>7. LifeInv'
    BY <1>1, <1>2, <1>7, <2>5, <2>6, OthersHealthy DEF LifeInv
  <2>8. \A q \in Nodes : /\ probe'[q].subscribers = probe[q].subscribers
                         /\ probe'[q].started = probe[q].started /\ probe'[q].settled = probe[q].settled
                         /\ probe'[q].start = probe[q].start /\ probe'[q].warned = probe[q].warned
    BY <2>2
  <2> QED
    BY <1>2, <1>3, <1>7, <2>4, <2>7, <2>8, QuietInv DEF Stays
<1>8. CASE /\ ~probe[p].settled /\ fault' = fault \union {p} /\ UNCHANGED connecting
           /\ \E op \in {"finish", "factory"} : FinishCall(op, p, "failed")
  BY <1>1, <1>2, <1>3, <1>5, <1>8, FinishKeeps DEF Final
<1> QED
  BY <1>4, <1>6, <1>7, <1>8 DEF BeginReturns, Finish

LEMMA FinishReturnsKeeps ==
  ASSUME IInv, FinishReturns
  PROVE  IInv'
<1>1. /\ TypeOK /\ LifeInv /\ CallInv /\ SubInv /\ HearInv
      /\ probe \in [Nodes -> ProbeRecord] /\ client \in [Nodes -> ClientRecord]
  BY Types DEF IInv
<1>2. /\ call.op \in {"finish", "factory"} /\ call.todo = <<>> /\ call' = NoCall
      /\ UNCHANGED <<connecting, closed, current, node, heard, fault, warnings>>
  BY DEF FinishReturns
<1>3. call # NoCall
  BY <1>2 DEF NoCall
<1>4. PICK p \in Nodes : p = call.probe
  BY <1>1, <1>3, CallTypes
<1>5. probe[p].started /\ probe[p].settled /\ Used(p)
  BY <1>1, <1>2, <1>3, <1>4 DEF CallInv
<1>6. /\ probe' = [probe EXCEPT ![p].subscribers = <<>>]
      /\ client' = IF call.op = "factory" THEN [client EXCEPT ![p].state = "closed"] ELSE client
  BY <1>4 DEF FinishReturns
<1>7. <<>> \in Seq(Nodes) /\ Len(<<>>) = 0
  BY EmptySeq
<1>8. /\ probe' \in [Nodes -> ProbeRecord]
      /\ probe'[p].subscribers = <<>>
      /\ probe'[p].started = probe[p].started /\ probe'[p].settled = probe[p].settled
      /\ probe'[p].start = probe[p].start /\ probe'[p].warned = probe[p].warned
      /\ probe'[p].closeCheck = probe[p].closeCheck /\ probe'[p].timer = probe[p].timer
      /\ probe'[p].listening = probe[p].listening
      /\ \A q \in Nodes : q # p => probe'[q] = probe[q]
  BY <1>1, <1>6, <1>7 DEF ProbeRecord
<1>9. /\ client' \in [Nodes -> ClientRecord]
      /\ client'[p].state = client[p].state \/ client'[p].state = "closed"
      /\ client'[p].authenticated = client[p].authenticated
      /\ \A q \in Nodes : q # p => client'[q] = client[q]
  BY <1>1, <1>6 DEF ClientRecord
<1>10. TypeOK'
  BY <1>1, <1>2, <1>8, <1>9 DEF TypeOK, ProbeRecord, ClientRecord
<1>11. LifeInv'
  <2>1. Elsewhere(p)
    BY <1>2, <1>8, <1>9 DEF Elsewhere, OthersKept
  <2>2. Healthy(p)'
    BY <1>1, <1>2, <1>5, <1>8, <1>9 DEF LifeInv, Healthy, Running
  <2> QED
    BY <1>1, <1>2, <2>1, <2>2, OthersHealthy DEF LifeInv
<1>12. CallInv'
  BY <1>2 DEF CallInv
<1>13. \A q \in Nodes : Distinct(probe'[q].subscribers)
  BY <1>1, <1>7, <1>8 DEF Distinct, SubInv
<1>14. \A q \in Nodes, n \in Nodes : Subscribed(q, n)' => q # p /\ Subscribed(q, n)
  BY <1>7, <1>8 DEF Subscribed, Contains
<1>15. \A q \in Nodes : (Running(q)' <=> Running(q)) /\ (Used(q)' <=> Used(q))
  BY <1>8 DEF Running, Used
<1>16. SubInv'
  <2>1. ASSUME NEW n \in Nodes, node[n].unsubscribe # NoProbe
        PROVE  ~node[n].closed /\ node[n].start = "done" /\ Used(node[n].unsubscribe)'
    <3>1. PICK q \in Nodes : q = node[n].unsubscribe
      BY <1>1, <2>1, Types DEF NodeRecord
    <3>2. Used(q) /\ ~node[n].closed /\ node[n].start = "done"
      BY <1>1, <2>1, <3>1 DEF SubInv
    <3> QED
      BY <1>2, <1>15, <3>1, <3>2
  <2>2. \A n \in Nodes : node[n].start # "done" => ~Used(n)' /\ ~probe'[n].warned
    BY <1>1, <1>8, <1>15 DEF SubInv
  <2>3. ASSUME NEW q \in Nodes
        PROVE  /\ Running(q)' => probe'[q].subscribers # <<>>
               /\ ~Running(q)' /\ probe'[q].subscribers # <<>> => Finishing(q)'
    <3>1. CASE q = p
      BY <1>5, <1>8, <3>1 DEF Running
    <3>2. CASE q # p
      BY <1>1, <1>4, <1>8, <1>15, <3>2 DEF SubInv, Finishing
    <3> QED
      BY <3>1, <3>2
  <2>4. ASSUME NEW q \in Nodes, NEW n \in Nodes, Subscribed(q, n)'
        PROVE  node[n].unsubscribe = q
    <3>1. Subscribed(q, n)
      BY <1>14, <2>4
    <3> QED
      BY <1>1, <1>2, <3>1 DEF SubInv, Joining
  <2> QED
    BY <1>2, <1>13, <2>1, <2>2, <2>3, <2>4 DEF SubInv
<1>17. HearInv'
  <2>1. Fewer
    BY <1>2, <1>8, <1>14 DEF Fewer
  <2>2. \A q \in Nodes, n \in Nodes : Awaits(q, n)' <=> Awaits(q, n)
    BY <1>2, <1>7 DEF Awaits, Contains
  <2> QED
    BY <1>1, <1>2, <2>1, <2>2, HearSilent
<1> QED
  BY <1>10, <1>11, <1>12, <1>16, <1>17 DEF IInv

LEMMA JoinReturnsKeeps ==
  ASSUME IInv, JoinReturns
  PROVE  IInv'
<1>1. /\ TypeOK /\ LifeInv /\ CallInv /\ SubInv /\ HearInv
      /\ probe \in [Nodes -> ProbeRecord] /\ client \in [Nodes -> ClientRecord]
      /\ node \in [Nodes -> NodeRecord] /\ current \in Nodes \union {NoProbe}
  BY Types DEF IInv
<1>2. /\ call.op = "join" /\ call.todo = <<>> /\ call' = NoCall
      /\ UNCHANGED <<connecting, closed, heard, fault, warnings>>
  BY DEF JoinReturns
<1>3. call # NoCall
  BY <1>2 DEF NoCall
<1>4. PICK p \in Nodes, n \in Nodes : p = call.probe /\ n = call.node
  BY <1>1, <1>2, <1>3, CallTypes
<1>5. Used(p) /\ node[n].start = "done" /\ node[n].unsubscribe = NoProbe
  BY <1>1, <1>2, <1>3, <1>4 DEF CallInv
<1>6. \A q \in Nodes : ~Finishing(q) /\ \A m \in Nodes : Joining(q, m) => q = p /\ m = n
  BY <1>2, <1>4 DEF Finishing, Joining
<1>7. \A q \in Nodes, m \in Nodes : Awaits(q, m)' <=> Awaits(q, m)
  BY <1>2, EmptySeq DEF Awaits, Contains
<1>8. Distinct(probe[p].subscribers) /\ (~probe[p].warned => warnings[p] = 0)
  BY <1>1 DEF SubInv, LifeInv, Healthy
<1>9. CallInv'
  BY <1>2 DEF CallInv
<1>10. CASE node[n].closed
  <2>1. Leave(p, n) /\ node' = node
    BY <1>4, <1>10 DEF JoinReturns
  <2>2. Recedes(p) /\ probe'[p].warned = probe[p].warned /\ ~Subscribed(p, n)'
    BY <1>1, <1>8, <2>1, LeaveEffect
  <2>3. probe' \in [Nodes -> ProbeRecord] /\ client' \in [Nodes -> ClientRecord]
        /\ current' \in Nodes \union {NoProbe}
    BY <1>1, <2>2 DEF Recedes, OthersKept, Continues, Settles
  <2>4. TypeOK'
    BY <1>1, <1>2, <2>1, <2>3 DEF TypeOK, ProbeRecord, ClientRecord
  <2>5. LifeInv'
    BY <1>1, <1>2, <1>8, <2>2, RecedeLife
  <2>6. ASSUME NEW q \in Nodes, NEW m \in Nodes, Subscribed(q, m)'
        PROVE  Subscribed(q, m) /\ node[m].unsubscribe = q
    <3>1. Subscribed(q, m) /\ ~(q = p /\ m = n)
      BY <2>2, <2>6 DEF Recedes, OthersKept, Subscribed
    <3> QED
      BY <1>1, <1>6, <3>1 DEF SubInv
  <2>7. \A m \in Nodes : Stays(m)
    BY <2>1 DEF Stays
  <2>8. SubInv'
    <3>1. \A m \in Nodes : node'[m].unsubscribe # NoProbe => ~node'[m].closed
      BY <1>1, <2>1 DEF SubInv
    <3>2. \A q \in Nodes, m \in Nodes : Subscribed(q, m)' => node'[m].unsubscribe = q \/ Joining(q, m)'
      BY <2>1, <2>6
    <3> QED
      BY <1>1, <1>5, <1>6, <2>2, <2>7, <3>1, <3>2, SubKept
  <2>9. Fewer
    <3>1. ASSUME NEW q \in Nodes, NEW m \in Nodes, Subscribed(q, m)'
          PROVE  Subscribed(q, m) /\ probe'[q].started = probe[q].started /\ probe'[q].settled = probe[q].settled
      <4>1. Subscribed(q, m)
        BY <2>6, <3>1
      <4>2. CASE q # p
        BY <2>2, <4>1, <4>2 DEF Recedes, OthersKept
      <4>3. CASE q = p
        <5>1. probe'[p].subscribers # <<>>
          BY <2>3, <3>1, <4>3, NobodyIn DEF Subscribed, ProbeRecord
        <5> QED
          BY <2>2, <4>1, <4>3, <5>1 DEF Recedes, Continues
      <4> QED
        BY <4>2, <4>3
    <3> QED
      BY <2>1, <3>1 DEF Fewer
  <2>10. HearInv'
    BY <1>1, <1>2, <1>7, <2>9, HearSilent
  <2> QED
    BY <1>9, <2>4, <2>5, <2>8, <2>10 DEF IInv
<1>11. CASE ~node[n].closed
  <2>1. /\ node' = [node EXCEPT ![n].unsubscribe = p]
        /\ UNCHANGED <<current, probe, client>>
    BY <1>4, <1>11 DEF JoinReturns
  <2>2. /\ node' \in [Nodes -> NodeRecord]
        /\ node'[n].unsubscribe = p /\ node'[n].start = "done" /\ ~node'[n].closed
        /\ \A m \in Nodes : m # n => node'[m] = node[m]
    BY <1>1, <1>5, <1>11, <2>1 DEF NodeRecord
  <2>3. TypeOK'
    BY <1>1, <1>2, <2>1, <2>2 DEF TypeOK, NodeRecord
  <2>4. LifeInv'
    BY <1>1, <1>2, <2>1 DEF LifeInv, Healthy, Running
  <2>5. \A q \in Nodes, m \in Nodes : /\ Subscribed(q, m)' <=> Subscribed(q, m)
                                      /\ Used(q)' <=> Used(q)
                                      /\ Running(q)' <=> Running(q)
    BY <2>1 DEF Subscribed, Used, Running
  <2>6. SubInv'
    <3>1. ASSUME NEW m \in Nodes, node'[m].unsubscribe # NoProbe
          PROVE  ~node'[m].closed /\ node'[m].start = "done" /\ Used(node[m].unsubscribe)'
      <4>1. PICK q \in Nodes : q = node'[m].unsubscribe
        BY <2>2, <3>1 DEF NodeRecord
      <4>2. Used(q) /\ ~node'[m].closed /\ node'[m].start = "done"
        BY <1>1, <1>5, <2>2, <3>1, <4>1 DEF SubInv
      <4> QED
        BY <2>5, <4>1, <4>2
    <3>2. \A m \in Nodes : node'[m].start # "done" => ~Used(m)' /\ ~probe'[m].warned
      BY <1>1, <2>1, <2>2, <2>5 DEF SubInv
    <3>3. \A q \in Nodes : /\ Distinct(probe'[q].subscribers)
                           /\ Running(q)' => probe'[q].subscribers # <<>>
                           /\ ~Running(q)' /\ probe'[q].subscribers # <<>> => Finishing(q)'
      BY <1>1, <1>6, <2>1, <2>5 DEF SubInv
    <3>4. ASSUME NEW q \in Nodes, NEW m \in Nodes, Subscribed(q, m)'
          PROVE  node'[m].unsubscribe = q
      <4>1. node[m].unsubscribe = q \/ (q = p /\ m = n)
        BY <1>1, <1>6, <2>5, <3>4 DEF SubInv
      <4> QED
        BY <1>5, <2>2, <4>1, NoProbeAssumption
    <3> QED
      BY <3>1, <3>2, <3>3, <3>4 DEF SubInv
  <2>7. Fewer
    BY <1>5, <2>1, <2>2, <2>5 DEF Fewer
  <2>8. HearInv'
    BY <1>1, <1>2, <1>7, <2>7, HearSilent
  <2> QED
    BY <1>9, <2>3, <2>4, <2>6, <2>8 DEF IInv
<1> QED
  BY <1>10, <1>11

LEMMA BeginKeeps ==
  ASSUME IInv, NEW p \in Nodes, Begin(p)
  PROVE  IInv'
<1>1. /\ TypeOK /\ LifeInv /\ SubInv /\ HearInv /\ probe \in [Nodes -> ProbeRecord]
      /\ client \in [Nodes -> ClientRecord] /\ node \in [Nodes -> NodeRecord]
  BY Types DEF IInv
<1>2. /\ call = NoCall /\ probe[p].start
      /\ UNCHANGED <<connecting, closed, current, client, node, heard, fault, warnings>>
  BY DEF Begin, Macrotask, Idle
<1>3. ~probe[p].settled /\ ~probe[p].started /\ Healthy(p)
  BY <1>1, <1>2 DEF LifeInv, Healthy
<1>4. ~closed
  BY <1>1, <1>2, <1>3, NoProbeAssumption DEF LifeInv, Healthy, Running
<1>5. /\ probe' = [probe EXCEPT ![p].start = FALSE, ![p].started = TRUE]
      /\ call' = [op |-> "begin", probe |-> p, todo |-> probe[p].subscribers, status |-> "checking"]
  BY <1>3, <1>4 DEF Begin
<1>6. /\ probe' \in [Nodes -> ProbeRecord]
      /\ probe'[p].subscribers = probe[p].subscribers
      /\ probe'[p].started /\ ~probe'[p].settled /\ ~probe'[p].start
      /\ probe'[p].warned = probe[p].warned /\ probe'[p].closeCheck = probe[p].closeCheck
      /\ probe'[p].timer = probe[p].timer /\ probe'[p].listening = probe[p].listening
      /\ \A q \in Nodes : q # p => probe'[q] = probe[q]
  BY <1>1, <1>3, <1>5 DEF ProbeRecord
<1>7. probe[p].subscribers \in Seq(Nodes) /\ Distinct(probe[p].subscribers)
  BY <1>1 DEF ProbeRecord, SubInv
<1>8. /\ call' \in Calls /\ call' # NoCall
      /\ call'.op = "begin" /\ call'.probe = p /\ call'.todo = probe[p].subscribers
      /\ call'.status = "checking"
  BY <1>5, <1>7 DEF Calls, NoCall, Status
<1>9. TypeOK'
  BY <1>1, <1>2, <1>6, <1>8 DEF TypeOK, ProbeRecord
<1>10. LifeInv'
  <2>1. Elsewhere(p)
    BY <1>1, <1>2, <1>6 DEF Elsewhere, OthersKept
  <2>2. Healthy(p)'
    BY <1>2, <1>3, <1>6 DEF Healthy, Running
  <2> QED
    BY <1>1, <1>2, <2>1, <2>2, OthersHealthy DEF LifeInv
<1>11. CallInv'
  BY <1>2, <1>3, <1>6, <1>7, <1>8 DEF CallInv, Used, Healthy
<1>12. \A q \in Nodes : (Running(q)' <=> Running(q)) /\ (Used(q)' <=> Used(q))
  BY <1>2, <1>3, <1>6 DEF Running, Used
<1>13. \A q \in Nodes, n \in Nodes : Subscribed(q, n)' <=> Subscribed(q, n)
  BY <1>6 DEF Subscribed
<1>14. \A q \in Nodes, n \in Nodes : ~Finishing(q) /\ ~Joining(q, n) /\ ~Awaits(q, n)
  BY <1>2 DEF Finishing, Joining, Awaits
<1>15. SubInv'
  <2>1. ASSUME NEW n \in Nodes, node[n].unsubscribe # NoProbe
        PROVE  ~node[n].closed /\ node[n].start = "done" /\ Used(node[n].unsubscribe)'
    <3>1. PICK q \in Nodes : q = node[n].unsubscribe
      BY <1>1, <2>1 DEF NodeRecord
    <3>2. Used(q) /\ ~node[n].closed /\ node[n].start = "done"
      BY <1>1, <2>1, <3>1 DEF SubInv
    <3> QED
      BY <1>2, <1>12, <3>1, <3>2
  <2>2. \A n \in Nodes : node[n].start # "done" => ~Used(n)' /\ ~probe'[n].warned
    BY <1>1, <1>6, <1>12 DEF SubInv
  <2>3. ASSUME NEW q \in Nodes
        PROVE  /\ Distinct(probe'[q].subscribers)
               /\ Running(q)' => probe'[q].subscribers # <<>>
               /\ ~(~Running(q)' /\ probe'[q].subscribers # <<>>)
    <3>1. probe'[q].subscribers = probe[q].subscribers
      BY <1>6
    <3> QED
      BY <1>1, <1>12, <1>14, <3>1 DEF SubInv
  <2>4. \A q \in Nodes, n \in Nodes : Subscribed(q, n)' => node[n].unsubscribe = q
    BY <1>1, <1>13, <1>14 DEF SubInv
  <2> QED
    BY <1>2, <2>1, <2>2, <2>3, <2>4 DEF SubInv
<1>16. HearInv'
  <2>1. ASSUME NEW q \in Nodes, NEW n \in Nodes, Subscribed(q, n)'
        PROVE  /\ ~probe'[q].settled =>
                    heard[n] = IF ~probe'[q].started \/ Awaits(q, n)' THEN <<>> ELSE <<"checking">>
               /\ probe'[q].settled /\ Awaits(q, n)' => heard[n] = <<"checking">>
    <3>1. Subscribed(q, n)
      BY <1>13, <2>1
    <3>2. CASE q = p
      <4>1. Awaits(p, n)'
        BY <1>8, <3>1, <3>2 DEF Awaits, Subscribed
      <4> QED
        BY <1>1, <1>3, <1>6, <3>1, <3>2, <4>1 DEF HearInv
    <3>3. CASE q # p
      <4>1. ~Awaits(q, n)'
        BY <1>8, <3>3 DEF Awaits
      <4> QED
        BY <1>1, <1>6, <1>14, <3>1, <3>3, <4>1 DEF HearInv
    <3> QED
      BY <3>2, <3>3
  <2>2. \A n \in Nodes : node[n].start # "done" => heard[n] = <<>>
    BY <1>1 DEF HearInv
  <2>3. \A n \in Nodes :
          heard[n] \in {<<>>, <<"checking">>, <<"checking", "connected">>, <<"checking", "failed">>}
    BY <1>1 DEF HearInv
  <2> QED
    BY <1>2, <2>1, <2>2, <2>3 DEF HearInv
<1> QED
  BY <1>9, <1>10, <1>11, <1>15, <1>16 DEF IInv

\* subscribe with the coordinator open: n joins check p, whose record was r.
LEMMA JoinKeeps ==
  ASSUME IInv, NEW p \in Nodes, NEW n \in Nodes, NEW r \in ProbeRecord,
         Idle, node[n].start = "pending",
         node' = [node EXCEPT ![n].start = "done"],
         ~closed, current' = p,
         probe' = [probe EXCEPT ![p] = [r EXCEPT !.subscribers = Append(@, n)]],
         call' = [op |-> "join", probe |-> p, todo |-> IF r.started THEN <<n>> ELSE <<>>,
                  status |-> "checking", node |-> n],
         UNCHANGED <<connecting, closed, client, heard, fault, warnings>>,
         \/ p = current /\ r = probe[p]
         \/ /\ p = n /\ current = NoProbe
            /\ r.subscribers = <<>> /\ r.start /\ ~r.closeCheck /\ ~r.timer /\ ~r.listening
            /\ ~r.started /\ ~r.settled /\ ~r.warned
  PROVE  IInv'
<1>1. /\ TypeOK /\ LifeInv /\ SubInv /\ HearInv /\ probe \in [Nodes -> ProbeRecord]
      /\ client \in [Nodes -> ClientRecord] /\ node \in [Nodes -> NodeRecord]
  BY Types DEF IInv
<1>2. \A q \in Nodes, m \in Nodes : ~Finishing(q) /\ ~Joining(q, m) /\ ~Awaits(q, m)
  BY DEF Idle, Finishing, Joining, Awaits
<1>3. /\ ~Used(n) /\ ~probe[n].warned /\ node[n].unsubscribe = NoProbe /\ heard[n] = <<>>
      /\ warnings[n] = 0
  BY <1>1 DEF SubInv, HearInv, LifeInv, Healthy
<1>4. Healthy(p) /\ (p = current => Running(p) /\ p # n)
  BY <1>1, <1>3, NoProbeAssumption DEF LifeInv, Healthy, Running, Used
<1>5. \A m \in Nodes : ~Subscribed(m, n)
  BY <1>1, <1>2, <1>3, NoProbeAssumption DEF SubInv
<1>6. /\ r.subscribers \in Seq(Nodes) /\ Distinct(r.subscribers)
      /\ ~Contains(r.subscribers, n)
      /\ \A m \in Nodes : Contains(r.subscribers, m) => r = probe[p] /\ Subscribed(p, m)
  <2>1. r.subscribers \in Seq(Nodes)
    BY DEF ProbeRecord
  <2>2. CASE p = current /\ r = probe[p]
    BY <1>1, <1>5, <2>1, <2>2 DEF SubInv, Subscribed
  <2>3. CASE r.subscribers = <<>>
    BY <2>1, <2>3, EmptySeq DEF Distinct, Contains
  <2> QED
    BY <2>2, <2>3
<1>7. PICK subs \in Seq(Nodes) : subs = Append(r.subscribers, n)
  BY <1>6, AppendKeeps
<1>8. /\ subs # <<>> /\ Distinct(subs)
      /\ \A m : Contains(subs, m) <=> Contains(r.subscribers, m) \/ m = n
  BY <1>6, <1>7, AppendKeeps
<1>9. PICK t : t = [r EXCEPT !.subscribers = subs] /\ probe' = [probe EXCEPT ![p] = t]
  BY <1>7 DEF ProbeRecord
<1>10. /\ probe' \in [Nodes -> ProbeRecord]
       /\ probe'[p].subscribers = subs
       /\ probe'[p].started = r.started /\ probe'[p].settled = r.settled
       /\ probe'[p].start = r.start /\ probe'[p].warned = r.warned
       /\ probe'[p].closeCheck = r.closeCheck /\ probe'[p].timer = r.timer
       /\ probe'[p].listening = r.listening
       /\ \A q \in Nodes : q # p => probe'[q] = probe[q]
  <2>1. /\ t \in ProbeRecord /\ t.subscribers = subs
        /\ t.started = r.started /\ t.settled = r.settled /\ t.start = r.start /\ t.warned = r.warned
        /\ t.closeCheck = r.closeCheck /\ t.timer = r.timer /\ t.listening = r.listening
    BY <1>9, WithSubscribers
  <2>2. /\ probe' \in [Nodes -> ProbeRecord] /\ probe'[p] = t
        /\ \A q \in Nodes : q # p => probe'[q] = probe[q]
    BY <1>1, <1>9, <2>1
  <2> QED
    BY <2>1, <2>2
<1>11. (r.start \/ r.started) /\ ~r.settled
  BY <1>4 DEF Running
<1>12. /\ node' \in [Nodes -> NodeRecord]
       /\ node'[n].start = "done" /\ node'[n].unsubscribe = NoProbe
       /\ \A m \in Nodes : m # n => node'[m] = node[m]
  BY <1>1, <1>3 DEF NodeRecord
<1>13. /\ (IF r.started THEN <<n>> ELSE <<>>) \in Seq(Nodes)
       /\ Distinct(IF r.started THEN <<n>> ELSE <<>>)
       /\ \A m : Contains(IF r.started THEN <<n>> ELSE <<>>, m) <=> r.started /\ m = n
       /\ (IF r.started THEN <<n>> ELSE <<>>) # <<>> => r.started
  <2>1. CASE r.started
    <3>1. <<n>> \in Seq(Nodes) /\ Len(<<n>>) = 1 /\ <<n>>[1] = n
      OBVIOUS
    <3>2. \A i \in 1..1 : i = 1
      OBVIOUS
    <3> QED
      BY <2>1, <3>1, <3>2 DEF Distinct, Contains
  <2>2. CASE ~r.started
    BY <2>2, EmptySeq DEF Distinct, Contains
  <2> QED
    BY <2>1, <2>2
<1>14. /\ call' \in Calls /\ call' # NoCall
       /\ call'.op = "join" /\ call'.probe = p /\ call'.node = n /\ call'.status = "checking"
       /\ call'.todo = IF r.started THEN <<n>> ELSE <<>>
  BY <1>13 DEF Calls, NoCall
<1>15. TypeOK'
  BY <1>1, <1>10, <1>12, <1>14 DEF TypeOK, ProbeRecord, NodeRecord
<1>16. LifeInv'
  <2>1. Elsewhere(p)
    BY <1>1, <1>10, NoProbeAssumption DEF Elsewhere, OthersKept
  <2>2. Healthy(p)'
    <3>1. Running(p)'
      BY <1>10, <1>11 DEF Running
    <3>2. CASE p = current /\ r = probe[p]
      BY <1>4, <1>10, <3>1, <3>2 DEF Healthy
    <3>3. CASE /\ p = n /\ r.start /\ ~r.closeCheck /\ ~r.timer /\ ~r.listening
               /\ ~r.started /\ ~r.settled /\ ~r.warned
      BY <1>3, <1>4, <1>10, <3>1, <3>3 DEF Healthy, Used
    <3> QED
      BY <3>2, <3>3
  <2> QED
    BY <1>1, <2>1, <2>2, OthersHealthy
<1>17. Used(p)'
  BY <1>10, <1>11 DEF Used
<1>18. CallInv'
  BY <1>10, <1>12, <1>13, <1>14, <1>17 DEF CallInv, Used
<1>19. \A q \in Nodes : Used(q) => Used(q)'
  BY <1>10, <1>17 DEF Used
<1>20. ASSUME NEW q \in Nodes, NEW m \in Nodes, Subscribed(q, m)'
       PROVE  (q = p /\ m = n) \/ (m # n /\ Subscribed(q, m) /\ probe[q].started = probe'[q].started
                                    /\ probe[q].settled = probe'[q].settled)
  BY <1>5, <1>6, <1>8, <1>10, <1>20 DEF Subscribed
<1>21. SubInv'
  <2>1. ASSUME NEW m \in Nodes, node'[m].unsubscribe # NoProbe
        PROVE  ~node'[m].closed /\ node'[m].start = "done" /\ Used(node[m].unsubscribe)'
    <3>1. m # n /\ node'[m] = node[m]
      BY <1>12, <2>1
    <3>2. PICK q \in Nodes : q = node[m].unsubscribe
      BY <1>1, <2>1, <3>1 DEF NodeRecord
    <3>3. Used(q) /\ ~node[m].closed /\ node[m].start = "done"
      BY <1>1, <2>1, <3>1, <3>2 DEF SubInv
    <3> QED
      BY <1>19, <3>1, <3>2, <3>3
  <2>2. ASSUME NEW m \in Nodes, node'[m].start # "done"
        PROVE  ~Used(m)' /\ ~probe'[m].warned
    <3>1. m # n /\ node[m].start # "done"
      BY <1>12, <2>2
    <3>2. ~Used(m) /\ ~probe[m].warned
      BY <1>1, <3>1 DEF SubInv
    <3>3. m # p
      BY <1>4, <3>1, <3>2 DEF Running, Used
    <3> QED
      BY <1>10, <3>2, <3>3 DEF Used
  <2>3. ASSUME NEW q \in Nodes
        PROVE  /\ Distinct(probe'[q].subscribers)
               /\ Running(q)' => probe'[q].subscribers # <<>>
               /\ ~(~Running(q)' /\ probe'[q].subscribers # <<>>)
    <3>1. CASE q = p
      BY <1>8, <1>10, <1>11, <3>1 DEF Running
    <3>2. CASE q # p
      BY <1>1, <1>2, <1>10, <3>2 DEF Running, SubInv
    <3> QED
      BY <3>1, <3>2
  <2>4. ASSUME NEW q \in Nodes, NEW m \in Nodes, Subscribed(q, m)'
        PROVE  node'[m].unsubscribe = q \/ Joining(q, m)'
    <3>1. CASE q = p /\ m = n
      BY <1>14, <3>1 DEF Joining
    <3>2. CASE m # n /\ Subscribed(q, m)
      BY <1>1, <1>2, <1>12, <3>2 DEF SubInv
    <3> QED
      BY <1>20, <2>4, <3>1, <3>2
  <2> QED
    BY <2>1, <2>2, <2>3, <2>4 DEF SubInv
<1>22. HearInv'
  <2>1. ASSUME NEW q \in Nodes, NEW m \in Nodes, Subscribed(q, m)'
        PROVE  /\ ~probe'[q].settled =>
                    heard[m] = IF ~probe'[q].started \/ Awaits(q, m)' THEN <<>> ELSE <<"checking">>
               /\ probe'[q].settled /\ Awaits(q, m)' => heard[m] = <<"checking">>
    <3>1. CASE q = p /\ m = n
      <4>1. Awaits(p, n)' <=> r.started
        BY <1>13, <1>14 DEF Awaits
      <4> QED
        BY <1>3, <1>10, <1>11, <3>1, <4>1
    <3>2. CASE m # n /\ Subscribed(q, m) /\ probe[q].started = probe'[q].started
               /\ probe[q].settled = probe'[q].settled
      <4>1. ~Awaits(q, m)'
        BY <1>13, <1>14, <3>2 DEF Awaits
      <4> QED
        BY <1>1, <1>2, <3>2, <4>1 DEF HearInv
    <3> QED
      BY <1>20, <2>1, <3>1, <3>2
  <2>2. \A m \in Nodes : node'[m].start # "done" => heard[m] = <<>>
    BY <1>1, <1>3, <1>12 DEF HearInv
  <2>3. \A m \in Nodes :
          heard[m] \in {<<>>, <<"checking">>, <<"checking", "connected">>, <<"checking", "failed">>}
    BY <1>1 DEF HearInv
  <2> QED
    BY <2>1, <2>2, <2>3 DEF HearInv
<1> QED
  BY <1>15, <1>16, <1>18, <1>21, <1>22 DEF IInv

LEMMA SubscribeKeeps ==
  ASSUME IInv, NEW n \in Nodes, Subscribe(n)
  PROVE  IInv'
<1>1. /\ TypeOK /\ LifeInv /\ SubInv /\ probe \in [Nodes -> ProbeRecord]
      /\ client \in [Nodes -> ClientRecord] /\ node \in [Nodes -> NodeRecord]
      /\ current \in Nodes \union {NoProbe} /\ closed \in BOOLEAN /\ warnings \in [Nodes -> 0..1]
  BY Types DEF IInv
<1>2. /\ Idle /\ node[n].start = "pending" /\ node' = [node EXCEPT ![n].start = "done"]
      /\ UNCHANGED <<connecting, closed, client, heard, fault, warnings>>
  BY DEF Subscribe, Macrotask
<1>3. CASE node[n].closed \/ closed
  <2>1. UNCHANGED <<current, probe, call>>
    BY <1>3 DEF Subscribe
  <2>2. /\ node' \in [Nodes -> NodeRecord] /\ node[n].unsubscribe = NoProbe
        /\ node'[n].start = "done" /\ node'[n].unsubscribe = node[n].unsubscribe
        /\ \A m \in Nodes : m # n => node'[m] = node[m]
    BY <1>1, <1>2 DEF NodeRecord, SubInv
  <2>3. NodeStep(n)
    BY <2>2 DEF NodeStep, Stays, Ends
  <2>4. Distinct(probe[n].subscribers) /\ (~probe[n].warned => warnings[n] = 0)
    BY <1>1 DEF SubInv, LifeInv, Healthy
  <2>5. Recedes(n)
    BY <1>1, <1>2, <2>1, <2>4, SameRecedes
  <2>6. Effect(n)
    BY <1>1, <1>2, <2>1, <2>3, <2>4, <2>5 DEF Effect
  <2> QED
    BY <1>2, <2>1, <2>6, EffectKeeps
<1>4. CASE ~(node[n].closed \/ closed)
  <2>1. PICK p \in Nodes : p = IF current = NoProbe THEN n ELSE current
    BY <1>1
  <2> DEFINE new == [NewProbe EXCEPT !.start = TRUE]
  <2>2. /\ new \in ProbeRecord /\ new.subscribers = <<>> /\ new.start /\ ~new.closeCheck /\ ~new.timer
        /\ ~new.listening /\ ~new.started /\ ~new.settled /\ ~new.warned
    BY EmptySeq DEF NewProbe, ProbeRecord
  <2>3. PICK r \in ProbeRecord : r = IF current = NoProbe THEN new ELSE probe[p]
    BY <1>1, <2>2
  <2>4. /\ current' = p
        /\ probe' = [probe EXCEPT ![p] = [r EXCEPT !.subscribers = Append(@, n)]]
        /\ call' = [op |-> "join", probe |-> p, todo |-> IF r.started THEN <<n>> ELSE <<>>,
                    status |-> "checking", node |-> n]
    BY <1>4, <2>1, <2>3 DEF Subscribe
  <2> HIDE DEF new
  <2>5. \/ p = current /\ r = probe[p]
        \/ /\ p = n /\ current = NoProbe
           /\ r.subscribers = <<>> /\ r.start /\ ~r.closeCheck /\ ~r.timer /\ ~r.listening
           /\ ~r.started /\ ~r.settled /\ ~r.warned
    BY <2>1, <2>2, <2>3
  <2> QED
    BY <1>2, <1>4, <2>4, <2>5, JoinKeeps
<1> QED
  BY <1>3, <1>4

-----------------------------------------------------------------------------
(* The theorems.                                                           *)

LEMMA Initially ==
  ASSUME Init
  PROVE  IInv
<1>1. <<>> \in Seq(Nodes) /\ <<>> \in Seq(Status) /\ Len(<<>>) = 0
  BY EmptySeq
<1>2. probe = [p \in Nodes |-> NewProbe] /\ NewProbe \in ProbeRecord
  BY <1>1 DEF Init, NewProbe, ProbeRecord
<1>3. \A p \in Nodes : /\ probe[p].subscribers = <<>> /\ ~probe[p].start /\ ~probe[p].started
                       /\ ~probe[p].settled /\ ~probe[p].closeCheck /\ ~probe[p].timer /\ ~probe[p].listening
                       /\ ~probe[p].warned
  BY <1>2 DEF NewProbe
<1>4. TypeOK
  <2>1. client \in [Nodes -> ClientRecord] /\ node \in [Nodes -> NodeRecord]
    BY DEF Init, ClientRecord, NodeRecord, Status
  <2>2. probe \in [Nodes -> ProbeRecord]
    BY <1>2
  <2>3. heard \in [Nodes -> Seq(Status)] /\ warnings \in [Nodes -> 0..1]
    BY <1>1 DEF Init
  <2>4. /\ closed \in BOOLEAN /\ current \in Nodes \union {NoProbe} /\ fault \subseteq Nodes
        /\ connecting \in [Nodes -> {"none", "queued", "pending", "done"}]
        /\ call = NoCall
    BY DEF Init
  <2> QED
    BY <2>1, <2>2, <2>3, <2>4 DEF TypeOK, ProbeRecord, ClientRecord, NodeRecord
<1>5. LifeInv
  BY <1>3, NoProbeAssumption DEF Init, LifeInv, Healthy, Running
<1>6. CallInv
  BY DEF Init, CallInv
<1>7. \A p \in Nodes : Distinct(probe[p].subscribers) /\ \A n \in Nodes : ~Subscribed(p, n)
  BY <1>1, <1>3 DEF Distinct, Subscribed, Contains
<1>8. SubInv
  BY <1>3, <1>7 DEF Init, SubInv, Used, Running
<1>9. HearInv
  BY <1>7 DEF Init, HearInv
<1> QED
  BY <1>4, <1>5, <1>6, <1>8, <1>9 DEF IInv

LEMMA StutterKeeps ==
  ASSUME IInv, UNCHANGED vars
  PROVE  IInv'
BY DEF IInv, vars, TypeOK, LifeInv, Healthy, Running, CallInv, Used, SubInv, Subscribed, Joining, Finishing,
       HearInv, Awaits

LEMMA StepKeeps ==
  ASSUME IInv, [Next]_vars
  PROVE  IInv'
<1>1. CASE Callbacks
  BY <1>1, DeliverKeeps, BeginReturnsKeeps, FinishReturnsKeeps, JoinReturnsKeeps DEF Callbacks
<1>2. CASE CloseAccount
  BY <1>2, CloseAccountKeeps
<1>3. ASSUME NEW n \in Nodes, ProbeEvents(n)
      PROVE  IInv'
  BY <1>3, BeginKeeps, TimeoutKeeps, ConnectKeeps, CloseCheckKeeps DEF ProbeEvents
<1>4. ASSUME NEW n \in Nodes, ClientEvents(n)
      PROVE  IInv'
  BY <1>4, AuthenticateKeeps, ClientClosesKeeps, ErrorEventKeeps, ConnectSettlesKeeps DEF ClientEvents
<1>5. ASSUME NEW n \in Nodes, NodeEvents(n)
      PROVE  IInv'
  BY <1>5, StartKeeps, SubscribeKeeps, SetKeeps, CloseKeeps DEF NodeEvents
<1>6. CASE UNCHANGED vars
  BY <1>6, StutterKeeps
<1> QED
  BY <1>1, <1>2, <1>3, <1>4, <1>5, <1>6 DEF Next

LEMMA Inductive == Spec => []IInv
<1>1. Init => IInv
  BY Initially
<1>2. IInv /\ [Next]_vars => IInv'
  BY StepKeeps
<1> QED
  BY <1>1, <1>2, PTL DEF Spec

\* Every variable has its type; a check warns at most once.
THEOREM TypeCorrect == Spec => []TypeOK
<1>1. IInv => TypeOK
  BY DEF IInv
<1> QED
  BY <1>1, Inductive, PTL

LEMMA PrefixOfPair ==
  ASSUME NEW S, NEW a \in S, NEW b \in S
  PROVE  IsPrefix(<<>>, <<a, b>>) /\ IsPrefix(<<a>>, <<a, b>>) /\ IsPrefix(<<a, b>>, <<a, b>>)
<1>1. <<a, b>> \in Seq(S) /\ Len(<<a, b>>) = 2 /\ <<a, b>>[1] = a /\ <<a, b>>[2] = b
  OBVIOUS
<1>2. <<a>> \in Seq(S) /\ Len(<<a>>) = 1 /\ <<a>>[1] = a /\ Len(<<>>) = 0
  OBVIOUS
<1>3. \A i \in 1..2 : i = 1 \/ i = 2
  OBVIOUS
<1>4. SubSeq(<<a, b>>, 1, 0) = <<>>
  <2>1. SubSeq(<<a, b>>, 1, 0) \in Seq(S) /\ Len(SubSeq(<<a, b>>, 1, 0)) = 0
    BY <1>1, <1>2, SubSeqProperties
  <2> QED
    BY <2>1, EmptySeq
<1>5. SubSeq(<<a, b>>, 1, 1) = <<a>>
  <2>1. SubSeq(<<a, b>>, 1, 1) \in Seq(S) /\ Len(SubSeq(<<a, b>>, 1, 1)) = 1
        /\ SubSeq(<<a, b>>, 1, 1)[1] = a
    BY <1>1, <1>2, SubSeqProperties
  <2>2. \A i \in 1..1 : SubSeq(<<a, b>>, 1, 1)[i] = <<a>>[i]
    BY <1>2, <2>1
  <2> QED
    BY <1>1, <1>2, <2>1, <2>2, SeqEqual
<1>6. SubSeq(<<a, b>>, 1, 2) = <<a, b>>
  <2>1. SubSeq(<<a, b>>, 1, 2) \in Seq(S) /\ Len(SubSeq(<<a, b>>, 1, 2)) = 2
        /\ SubSeq(<<a, b>>, 1, 2)[1] = a /\ SubSeq(<<a, b>>, 1, 2)[2] = b
    BY <1>1, <1>2, SubSeqProperties
  <2>2. \A i \in 1..2 : SubSeq(<<a, b>>, 1, 2)[i] = <<a, b>>[i]
    BY <1>2, <1>3, <2>1
  <2> QED
    BY <1>1, <1>2, <2>1, <2>2, SeqEqual
<1>7. SubSeq(<<a>>, 1, 1) = <<a>>
  <2>1. SubSeq(<<a>>, 1, 1) \in Seq(S) /\ Len(SubSeq(<<a>>, 1, 1)) = 1 /\ SubSeq(<<a>>, 1, 1)[1] = a
    BY <1>2, SubSeqProperties
  <2>2. \A i \in 1..1 : SubSeq(<<a>>, 1, 1)[i] = <<a>>[i]
    BY <1>2, <2>1
  <2> QED
    BY <1>2, <2>1, <2>2, SeqEqual
<1>8. SubSeq(<<>>, 1, 0) = <<>>
  <2>1. <<>> \in Seq(S)
    BY EmptySeq
  <2>2. SubSeq(<<>>, 1, 0) \in Seq(S) /\ Len(SubSeq(<<>>, 1, 0)) = 0
    BY <1>2, <2>1, SubSeqProperties
  <2> QED
    BY <2>2, EmptySeq
<1>9. IsPrefix(<<>>, <<a, b>>)
  BY <1>1, <1>2, <1>4, <1>8 DEF IsPrefix
<1>10. IsPrefix(<<a>>, <<a, b>>)
  BY <1>1, <1>2, <1>5, <1>7 DEF IsPrefix
<1>11. IsPrefix(<<a, b>>, <<a, b>>)
  BY <1>1 DEF IsPrefix
<1> QED
  BY <1>9, <1>10, <1>11

\* One check gives a callback at most one result, after at most one "checking".
THEOREM AtMostOneResult == Spec => []OneResult
<1>1. IInv => OneResult
  <2> SUFFICES ASSUME IInv, NEW n \in Nodes
               PROVE  \E final \in Final : IsPrefix(heard[n], <<"checking", final>>)
    BY DEF OneResult
  <2>1. \/ heard[n] = <<>> \/ heard[n] = <<"checking">>
        \/ heard[n] = <<"checking", "connected">> \/ heard[n] = <<"checking", "failed">>
    BY DEF IInv, HearInv
  <2>2. "connected" \in Final /\ "failed" \in Final /\ Final \subseteq Status /\ "checking" \in Status
    BY DEF Final, Status
  <2>3. PICK checking \in Status, connected \in Status, failed \in Status :
          checking = "checking" /\ connected = "connected" /\ failed = "failed"
    BY <2>2
  <2>4. /\ IsPrefix(<<>>, <<checking, connected>>) /\ IsPrefix(<<checking>>, <<checking, connected>>)
        /\ IsPrefix(<<checking, connected>>, <<checking, connected>>)
        /\ IsPrefix(<<checking, failed>>, <<checking, failed>>)
    BY PrefixOfPair
  <2> QED
    BY <2>1, <2>2, <2>3, <2>4
<1> QED
  BY <1>1, Inductive, PTL

\* "connected" is said only of an authenticated connection without a fault, "failed" only after a
\* fault of this check.
THEOREM ResultsTrue == Spec => []ResultTrue
<1>1. IInv => ResultTrue
  BY DEF IInv, CallInv, ResultTrue
<1> QED
  BY <1>1, Inductive, PTL

LEMMA StoppedAlready ==
  ASSUME NEW r \in ProbeRecord, r.settled, ~r.start, ~r.closeCheck, ~r.timer, ~r.listening, r.subscribers = <<>>
  PROVE  r = [Stopped(r) EXCEPT !.subscribers = <<>>]
BY EmptySeq DEF Stopped, ProbeRecord

\* Between two callbacks an ended check holds nothing, and the one that runs has only open nodes.
THEOREM NothingIsLeft == Spec => []NothingLeft
<1>1. IInv => NothingLeft
  <2> SUFFICES ASSUME IInv, Idle, NEW p \in Nodes
               PROVE  /\ probe[p].settled => /\ probe[p] = [Stopped(probe[p]) EXCEPT !.subscribers = <<>>]
                                             /\ client[p].state # "open"
                      /\ Running(p) => /\ p = current /\ ~closed
                                       /\ probe[p].subscribers # <<>>
                                       /\ \A n \in Nodes : Subscribed(p, n) => ~node[n].closed
    BY DEF NothingLeft
  <2>1. TypeOK /\ Healthy(p) /\ SubInv /\ (closed => current = NoProbe)
    BY DEF IInv, LifeInv
  <2>2. ~Finishing(p) /\ \A n \in Nodes : ~Joining(p, n)
    BY DEF Idle, Finishing, Joining
  <2>3. ASSUME probe[p].settled
        PROVE  probe[p] = [Stopped(probe[p]) EXCEPT !.subscribers = <<>>] /\ client[p].state # "open"
    <3>1. probe[p] \in ProbeRecord
      BY <2>1, Types
    <3>2. probe[p].subscribers = <<>>
      BY <2>1, <2>2, <2>3 DEF SubInv, Running
    <3> QED
      BY <2>1, <2>3, <3>1, <3>2, StoppedAlready DEF Healthy
  <2>4. ASSUME Running(p)
        PROVE  p = current /\ ~closed /\ probe[p].subscribers # <<>>
    BY <2>1, <2>4, NoProbeAssumption DEF Healthy, SubInv
  <2>5. ASSUME NEW n \in Nodes, Subscribed(p, n)
        PROVE  ~node[n].closed
    <3>1. node[n].unsubscribe = p
      BY <2>1, <2>2, <2>5 DEF SubInv
    <3> QED
      BY <2>1, <3>1, NoProbeAssumption DEF SubInv
  <2> QED
    BY <2>3, <2>4, <2>5
<1> QED
  BY <1>1, Inductive, PTL

\* What StatusStays says of one step that leads to the nodes t.
StatusKept(t) ==
  \A n \in Nodes :
    /\ node[n].revised => t[n].shown \in {node[n].shown, "work"}
    /\ node[n].closed => t[n].shown = node[n].shown

LEMMA ListenersShow ==
  ASSUME NEW s \in [Nodes -> NodeRecord], StatusKept(s), NEW p,
         \A n \in Nodes : s[n].closed <=> node[n].closed,
         Listeners(s, p)
  PROVE  StatusKept(node')
<1>1. CASE node' = s
  BY <1>1
<1>2. CASE \E m \in Nodes : node' = StatusSet(s, m)
  <2>1. PICK m \in Nodes : node' = StatusSet(s, m)
    BY <1>2
  <2>2. /\ node'[m].shown = IF s[m].closed THEN s[m].shown ELSE "work"
        /\ \A n \in Nodes : n # m => node'[n] = s[n]
    BY <2>1 DEF StatusSet, NodeRecord
  <2> QED
    BY <2>2 DEF StatusKept
<1>3. CASE \E m \in Nodes : StatusClose(s, m)
  <2>1. PICK m \in Nodes : StatusClose(s, m)
    BY <1>3
  <2>2. node'[m].shown = s[m].shown /\ \A n \in Nodes : n # m => node'[n] = s[n]
    BY <2>1 DEF StatusClose, NodeRecord
  <2> QED
    BY <2>2 DEF StatusKept
<1> QED
  BY <1>1, <1>2, <1>3 DEF Listeners

\* Work or validation and a close have the last word on a node's status.
THEOREM StatusesStay == Spec => StatusStays
<1>1. TypeOK /\ [Next]_vars => [StatusKept(node')]_vars
  <2> SUFFICES ASSUME TypeOK, Next
               PROVE  StatusKept(node')
    OBVIOUS
  <2>1. node \in [Nodes -> NodeRecord]
    BY Types
  <2>2. StatusKept(node)
    BY DEF StatusKept
  <2>3. CASE UNCHANGED node
    BY <2>2, <2>3
  <2>4. CASE Deliver
    <3>1. CASE ~UNCHANGED node
      <4>1. PICK n, st : n = Head(call.todo) /\ st = call.status
        OBVIOUS
      <4>2. PICK s : s = [node EXCEPT ![n].shown = st]
        OBVIOUS
      <4>3. ~(node[n].closed \/ node[n].revised) /\ Listeners(s, call.probe)
        BY <2>4, <3>1, <4>1, <4>2 DEF Deliver
      <4>4. st \in Status \union {"none", "work"}
        BY <2>4, <4>1, CallTypes DEF Deliver, Idle
      <4>5. s \in [Nodes -> NodeRecord] /\ \A m \in Nodes : s[m].closed = node[m].closed
                                           /\ (m # n => s[m] = node[m])
        <5> DEFINE r == [node[n] EXCEPT !.shown = st]
        <5>1. s = [node EXCEPT ![n] = r]
          BY <4>2
        <5>2. n \in Nodes => r \in NodeRecord /\ r.closed = node[n].closed
          BY <2>1, <4>4 DEF NodeRecord
        <5> HIDE DEF r
        <5> QED
          BY <2>1, <5>1, <5>2
      <4>6. StatusKept(s)
        BY <4>3, <4>5 DEF StatusKept
      <4> QED
        BY <4>3, <4>5, <4>6, ListenersShow
    <3> QED
      BY <2>3, <3>1
  <2>5. CASE JoinReturns
    <3>1. \A n \in Nodes : node'[n].shown = node[n].shown
      BY <2>1, <2>5 DEF JoinReturns, NodeRecord
    <3> QED
      BY <3>1 DEF StatusKept
  <2>6. ASSUME NEW n \in Nodes, Start(n) \/ Subscribe(n)
        PROVE  StatusKept(node')
    <3>1. \A m \in Nodes : node'[m].shown = node[m].shown
      BY <2>1, <2>6 DEF Start, Subscribe, NodeRecord
    <3> QED
      BY <3>1 DEF StatusKept
  <2>7. ASSUME NEW n \in Nodes, Set(n)
        PROVE  StatusKept(node')
    <3>1. /\ node'[n].shown = IF node[n].closed THEN node[n].shown ELSE "work"
          /\ \A m \in Nodes : m # n => node'[m] = node[m]
      BY <2>1, <2>7 DEF Set, StatusSet, NodeRecord
    <3> QED
      BY <3>1 DEF StatusKept
  <2>8. ASSUME NEW n \in Nodes, Close(n)
        PROVE  StatusKept(node')
    <3>1. \A m \in Nodes : node'[m].shown = node[m].shown
      BY <2>1, <2>8 DEF Close, StatusClose, NodeRecord
    <3> QED
      BY <3>1 DEF StatusKept
  <2>9. CASE BeginReturns \/ FinishReturns \/ CloseAccount
    BY <2>3, <2>9 DEF BeginReturns, FinishReturns, CloseAccount
  <2>10. ASSUME NEW n \in Nodes, ProbeEvents(n) \/ ClientEvents(n)
         PROVE  StatusKept(node')
    <3>1. UNCHANGED node
      BY <2>10 DEF ProbeEvents, ClientEvents, Begin, Timeout, Connect, CloseCheck, Authenticate,
                  ClientCloses, ErrorEvent, ConnectSettles
    <3> QED
      BY <2>3, <3>1
  <2> QED
    BY <2>4, <2>5, <2>6, <2>7, <2>8, <2>9, <2>10 DEF Next, Callbacks, NodeEvents
<1>2. Spec => [][StatusKept(node')]_vars
  BY <1>1, TypeCorrect, PTL DEF Spec
<1>3. StatusKept(node') <=> \A n \in Nodes :
                              /\ node[n].revised => node'[n].shown \in {node[n].shown, "work"}
                              /\ node[n].closed => node'[n].shown = node[n].shown
  BY DEF StatusKept
<1>4. StatusStays <=> [][StatusKept(node')]_vars
  BY <1>3, PTL DEF StatusStays, StatusKept
<1> QED
  BY <1>2, <1>4
=============================================================================
