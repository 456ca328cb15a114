--------------------------- MODULE ConnectionCheck ---------------------------
(***************************************************************************)
(* The startup connection check of lib/imap-connection-check.js: the        *)
(* coordinator one account node owns (createConnectionChecker), and the     *)
(* status object of every imap-email node that uses the account             *)
(* (createConnectionStatus).                                                *)
(*                                                                          *)
(* Node.js runs one callback at a time, but node.status() runs its          *)
(* listeners at once, and a listener may close a node, report work or close *)
(* the account while the coordinator is still delivering.  So a delivery    *)
(* takes several steps here: `call` is the JavaScript stack, and while it   *)
(* is not empty only its next step is taken.                                *)
(*                                                                          *)
(* A node subscribes once in its life, so a probe is named after the node   *)
(* that created it.                                                         *)
(***************************************************************************)
EXTENDS Naturals, Sequences, SequencesExt

CONSTANTS
  Nodes,      \* the imap-email in and ack nodes of one account
  NoProbe     \* null

ASSUME NoProbeAssumption == NoProbe \notin Nodes

VARIABLES
  closed,     \* the coordinator's closed flag
  current,    \* the probe new subscribers join, or NoProbe
  probe,      \* every probe object
  client,     \* the ImapFlow client each probe created
  connecting, \* the promise chain of its connect()
  call,       \* the delivery on the stack
  node,       \* the status object of every node
  \* For the properties only:
  heard,      \* the statuses each node's callback was given, in order
  fault,      \* the probes whose check met a fault
  warnings    \* how often each probe has warned

vars == <<closed, current, probe, client, connecting, call, node, heard, fault, warnings>>

Final == {"connected", "failed"}
Status == {"checking"} \union Final

NoCall == [op |-> "none"]
Calls == [op : {"begin", "finish", "factory"}, probe : Nodes, todo : Seq(Nodes), status : Status]
         \union [op : {"join"}, probe : Nodes, todo : Seq(Nodes), status : {"checking"}, node : Nodes]

TypeOK ==
  /\ closed \in BOOLEAN
  /\ current \in Nodes \union {NoProbe}
  /\ probe \in [Nodes -> [subscribers : Seq(Nodes), start : BOOLEAN, closeCheck : BOOLEAN, timer : BOOLEAN,
                          listening : BOOLEAN, started : BOOLEAN, settled : BOOLEAN, warned : BOOLEAN]]
  /\ client \in [Nodes -> [state : {"none", "open", "closed"}, authenticated : BOOLEAN]]
  /\ connecting \in [Nodes -> {"none", "queued", "pending", "done"}]
  /\ call = NoCall \/ call \in Calls
  /\ node \in [Nodes -> [start : {"idle", "pending", "done"}, unsubscribe : Nodes \union {NoProbe},
                         closed : BOOLEAN, revised : BOOLEAN, shown : Status \union {"none", "work"}]]
  /\ heard \in [Nodes -> Seq(Status)]
  /\ fault \subseteq Nodes
  /\ warnings \in [Nodes -> 0..1]

NewProbe == [subscribers |-> <<>>, start |-> FALSE, closeCheck |-> FALSE, timer |-> FALSE, listening |-> FALSE,
             started |-> FALSE, settled |-> FALSE, warned |-> FALSE]

Init ==
  /\ closed = FALSE
  /\ current = NoProbe
  /\ probe = [p \in Nodes |-> NewProbe]
  /\ client = [p \in Nodes |-> [state |-> "none", authenticated |-> FALSE]]
  /\ connecting = [p \in Nodes |-> "none"]
  /\ call = NoCall
  /\ node = [n \in Nodes |-> [start |-> "idle", unsubscribe |-> NoProbe, closed |-> FALSE, revised |-> FALSE,
                              shown |-> "none"]]
  /\ heard = [n \in Nodes |-> <<>>]
  /\ fault = {}
  /\ warnings = [p \in Nodes |-> 0]

-----------------------------------------------------------------------------
(* The end of a check.                                                      *)

Subscribed(p, n) == Contains(probe[p].subscribers, n)

\* No immediate or timer survives and the close listener is off.
Stopped(r) == [r EXCEPT !.settled = TRUE, !.start = FALSE, !.closeCheck = FALSE, !.timer = FALSE, !.listening = FALSE]

\* safeClose; the events it emits find the probe settled.
Closed(c) == [c EXCEPT !.state = IF @ = "open" THEN "closed" ELSE @]

\* The part of finish before its delivery; q is the probe with its subscribers as they are then.
Settle(p, q) ==
  /\ current' = IF current = p THEN NoProbe ELSE current
  /\ probe' = [probe EXCEPT ![p] = Stopped(q)]
  /\ client' = [client EXCEPT ![p] = Closed(@)]

\* warnOnce
Warned(r) == [r EXCEPT !.warned = TRUE]

\* Mutant: every failed callback warns.
WarningsOf_Always(p) == [warnings EXCEPT ![p] = @ + 1]

WarningsOf(p) == IF probe[p].warned THEN warnings ELSE [warnings EXCEPT ![p] = @ + 1]

\* finish(probe, null, true): nobody is told and nothing is warned about.
Cancel(p) == Settle(p, [probe[p] EXCEPT !.subscribers = <<>>])

\* finish with a result, up to the first subscriber; op says what follows the delivery.
FinishCall(op, p, status) ==
  IF probe[p].settled
  THEN UNCHANGED <<current, probe, client, call, warnings>>
  ELSE /\ Settle(p, IF status = "failed" THEN Warned(probe[p]) ELSE probe[p])
       /\ warnings' = IF status = "failed" THEN WarningsOf(p) ELSE warnings
       /\ call' = [op |-> op, probe |-> p, todo |-> probe[p].subscribers, status |-> status]

Finish(p, status) == FinishCall("finish", p, status)

\* The function subscribe returns.
Leave(p, n) ==
  LET left == [probe[p] EXCEPT !.subscribers = RemoveFirst(@, n)] IN
  IF left.settled \/ left.subscribers # <<>>
  THEN probe' = [probe EXCEPT ![p] = left] /\ UNCHANGED <<current, client>>
  ELSE Settle(p, left)

-----------------------------------------------------------------------------
(* The status object of a node.  s is the value of `node` before the call.  *)

StatusSet(s, n) == [s EXCEPT ![n].revised = TRUE, ![n].shown = IF s[n].closed THEN @ ELSE "work"]

StatusClose(s, n) ==
  /\ node' = [s EXCEPT ![n].closed = TRUE, ![n].revised = TRUE, ![n].unsubscribe = NoProbe,
                       ![n].start = IF @ = "pending" THEN "done" ELSE @]
  /\ IF s[n].unsubscribe = NoProbe THEN UNCHANGED <<current, probe, client>> ELSE Leave(s[n].unsubscribe, n)

\* close() of the coordinator
CheckerClose ==
  /\ closed' = TRUE
  /\ IF current = NoProbe THEN UNCHANGED <<current, probe, client>> ELSE Cancel(current)

\* What the listeners of node.status() may do before it returns.
Listeners(s, p) ==
  \/ node' = s /\ UNCHANGED <<closed, current, probe, client, warnings>>
  \/ /\ probe' = [probe EXCEPT ![p] = Warned(@)]
     /\ warnings' = WarningsOf(p)
     /\ node' = s /\ UNCHANGED <<closed, current, client>>
  \/ \E m \in Nodes : node' = StatusSet(s, m) /\ UNCHANGED <<closed, current, probe, client, warnings>>
  \/ \E m \in Nodes : StatusClose(s, m) /\ UNCHANGED <<closed, warnings>>
  \/ CheckerClose /\ node' = s /\ UNCHANGED warnings

-----------------------------------------------------------------------------
(* The call on the stack.                                                   *)

Idle == call = NoCall

\* No macrotask runs before the microtasks that are queued.
Macrotask == Idle /\ \A p \in Nodes : connecting[p] # "queued"

DeliveryContinues == [call EXCEPT !.todo = Tail(@)]

\* Mutant: a late result replaces the status of work.
Deliver_ShowsAlways ==
  LET p == call.probe
      n == Head(call.todo) IN
  /\ ~Idle /\ call.todo # <<>>
  /\ call' = DeliveryContinues
  /\ UNCHANGED <<connecting, fault>>
  /\ IF ~Subscribed(p, n)
     THEN UNCHANGED <<closed, current, probe, client, node, heard, warnings>>
     ELSE /\ heard' = [heard EXCEPT ![n] = Append(@, call.status)]
          /\ IF node[n].closed
             THEN UNCHANGED <<closed, current, probe, client, node, warnings>>
             ELSE Listeners([node EXCEPT ![n].shown = call.status], p)

\* One turn of the loop in deliver; the callback of createConnectionStatus decides whether to show.
Deliver ==
  LET p == call.probe
      n == Head(call.todo) IN
  /\ ~Idle /\ call.todo # <<>>
  /\ call' = DeliveryContinues
  /\ UNCHANGED <<connecting, fault>>
  /\ IF ~Subscribed(p, n)
     THEN UNCHANGED <<closed, current, probe, client, node, heard, warnings>>
     ELSE /\ heard' = [heard EXCEPT ![n] = Append(@, call.status)]
          /\ IF node[n].closed \/ node[n].revised
             THEN UNCHANGED <<closed, current, probe, client, node, warnings>>
             ELSE Listeners([node EXCEPT ![n].shown = call.status], p)

\* Mutant: no total time limit.
BeginReturns_Unlimited ==
  LET p == call.probe IN
  /\ call.op = "begin" /\ call.todo = <<>>
  /\ UNCHANGED <<closed, node, heard>>
  /\ \/ /\ probe[p].settled
        /\ call' = NoCall
        /\ UNCHANGED <<current, probe, client, connecting, fault, warnings>>
     \/ /\ ~probe[p].settled
        /\ call' = NoCall
        /\ probe' = [probe EXCEPT ![p].listening = TRUE]
        /\ client' = [client EXCEPT ![p].state = "open"]
        /\ connecting' = [connecting EXCEPT ![p] = "queued"]
        /\ UNCHANGED <<current, fault, warnings>>
     \/ /\ ~probe[p].settled                     \* createClient throws
        /\ fault' = fault \union {p}
        /\ Finish(p, "failed")
        /\ UNCHANGED connecting
     \/ /\ ~probe[p].settled                     \* createClient calls onError before it returns
        /\ fault' = fault \union {p}
        /\ FinishCall("factory", p, "failed")
        /\ UNCHANGED connecting

\* begin after the delivery: the timer, then the client with its listeners and queued connect().
BeginReturns ==
  LET p == call.probe IN
  /\ call.op = "begin" /\ call.todo = <<>>
  /\ UNCHANGED <<closed, node, heard>>
  /\ \/ /\ probe[p].settled
        /\ call' = NoCall
        /\ UNCHANGED <<current, probe, client, connecting, fault, warnings>>
     \/ /\ ~probe[p].settled
        /\ call' = NoCall
        /\ probe' = [probe EXCEPT ![p].timer = TRUE, ![p].listening = TRUE]
        /\ client' = [client EXCEPT ![p].state = "open"]
        /\ connecting' = [connecting EXCEPT ![p] = "queued"]
        /\ UNCHANGED <<current, fault, warnings>>
     \/ /\ ~probe[p].settled                     \* createClient throws
        /\ fault' = fault \union {p}
        /\ Finish(p, "failed")
        /\ UNCHANGED connecting
     \/ /\ ~probe[p].settled                     \* createClient calls onError before it returns
        /\ fault' = fault \union {p}
        /\ FinishCall("factory", p, "failed")
        /\ UNCHANGED connecting

\* The end of finish; a client the factory still returns is closed.
FinishReturns ==
  LET p == call.probe IN
  /\ call.op \in {"finish", "factory"} /\ call.todo = <<>>
  /\ call' = NoCall
  /\ probe' = [probe EXCEPT ![p].subscribers = <<>>]
  /\ client' = IF call.op = "factory" THEN [client EXCEPT ![p].state = "closed"] ELSE client
  /\ UNCHANGED <<connecting, closed, current, node, heard, fault, warnings>>

\* Mutant: a node closed during subscribe keeps its subscription.
JoinReturns_Keeps ==
  LET p == call.probe
      n == call.node IN
  /\ call.op = "join" /\ call.todo = <<>>
  /\ call' = NoCall
  /\ IF FALSE
     THEN Leave(p, n) /\ UNCHANGED node
     ELSE /\ node' = [node EXCEPT ![n].unsubscribe = p]
          /\ UNCHANGED <<current, probe, client>>
  /\ UNCHANGED <<connecting, closed, heard, fault, warnings>>

\* start's immediate after subscribe returned: a node closed meanwhile leaves at once.
JoinReturns ==
  LET p == call.probe
      n == call.node IN
  /\ call.op = "join" /\ call.todo = <<>>
  /\ call' = NoCall
  /\ IF node[n].closed
     THEN Leave(p, n) /\ UNCHANGED node
     ELSE /\ node' = [node EXCEPT ![n].unsubscribe = p]
          /\ UNCHANGED <<current, probe, client>>
  /\ UNCHANGED <<connecting, closed, heard, fault, warnings>>

-----------------------------------------------------------------------------
(* The nodes.                                                               *)

\* The constructor ends with connectionStatus.start(account).
Start(n) ==
  /\ Idle /\ node[n].start = "idle"
  /\ node' = [node EXCEPT ![n].start = "pending"]
  /\ UNCHANGED <<connecting, closed, current, probe, client, call, heard, fault, warnings>>

\* Mutant: every subscriber is told at once, also before the check starts.
Subscribe_TellsAlways(n) ==
  LET p == IF current = NoProbe THEN n ELSE current
      r == IF current = NoProbe THEN [NewProbe EXCEPT !.start = TRUE] ELSE probe[p]
      s == [node EXCEPT ![n].start = "done"] IN
  /\ Macrotask /\ node[n].start = "pending"
  /\ node' = s
  /\ IF node[n].closed \/ closed
     THEN UNCHANGED <<current, probe, call>>
     ELSE /\ current' = p
          /\ probe' = [probe EXCEPT ![p] = [r EXCEPT !.subscribers = Append(@, n)]]
          /\ call' = [op |-> "join", probe |-> p, todo |-> <<n>>,
                      status |-> "checking", node |-> n]
  /\ UNCHANGED <<connecting, closed, client, heard, fault, warnings>>

\* start's immediate and subscribe: a new probe, or the running one, which answers at once.
Subscribe(n) ==
  LET p == IF current = NoProbe THEN n ELSE current
      r == IF current = NoProbe THEN [NewProbe EXCEPT !.start = TRUE] ELSE probe[p]
      s == [node EXCEPT ![n].start = "done"] IN
  /\ Macrotask /\ node[n].start = "pending"
  /\ node' = s
  /\ IF node[n].closed \/ closed
     THEN UNCHANGED <<current, probe, call>>
     ELSE /\ current' = p
          /\ probe' = [probe EXCEPT ![p] = [r EXCEPT !.subscribers = Append(@, n)]]
          /\ call' = [op |-> "join", probe |-> p, todo |-> IF r.started THEN <<n>> ELSE <<>>,
                      status |-> "checking", node |-> n]
  /\ UNCHANGED <<connecting, closed, client, heard, fault, warnings>>

\* Work or validation reports a status.
Set(n) ==
  /\ Idle
  /\ node' = StatusSet(node, n)
  /\ UNCHANGED <<connecting, closed, current, probe, client, call, heard, fault, warnings>>

Close(n) ==
  /\ Idle
  /\ StatusClose(node, n)
  /\ UNCHANGED <<connecting, closed, call, heard, fault, warnings>>

CloseAccount ==
  /\ Idle
  /\ CheckerClose
  /\ UNCHANGED <<connecting, call, node, heard, fault, warnings>>

-----------------------------------------------------------------------------
(* The probe's immediates, its timer and the events of its client.          *)

Begin(p) ==
  /\ Macrotask /\ probe[p].start
  /\ IF probe[p].settled \/ closed
     THEN probe' = [probe EXCEPT ![p].start = FALSE] /\ UNCHANGED call
     ELSE /\ probe' = [probe EXCEPT ![p].start = FALSE, ![p].started = TRUE]
          /\ call' = [op |-> "begin", probe |-> p, todo |-> probe[p].subscribers, status |-> "checking"]
  /\ UNCHANGED <<connecting, closed, current, client, node, heard, fault, warnings>>

Timeout(p) ==
  /\ Macrotask /\ probe[p].timer
  /\ fault' = fault \union {p}
  /\ Finish(p, "failed")
  /\ UNCHANGED <<connecting, closed, node, heard>>

\* The microtask that calls connect(), unless the probe was settled meanwhile.
Connect(p) ==
  /\ Idle /\ connecting[p] = "queued"
  /\ connecting' = [connecting EXCEPT ![p] = IF probe[p].settled THEN "done" ELSE "pending"]
  /\ UNCHANGED <<closed, current, probe, client, call, node, heard, fault, warnings>>

\* The server accepts the login.
Authenticate(p) ==
  /\ Macrotask /\ client[p].state = "open" /\ connecting[p] = "pending"
  /\ client' = [client EXCEPT ![p].authenticated = TRUE]
  /\ UNCHANGED <<connecting, closed, current, probe, call, node, heard, fault, warnings>>

\* onClose: wait one immediate, connect() may resolve first.
ClientCloses(p) ==
  /\ Macrotask /\ client[p].state = "open" /\ connecting[p] = "pending"
  /\ client' = [client EXCEPT ![p].state = "closed"]
  /\ probe' = [probe EXCEPT ![p].listening = FALSE, ![p].closeCheck = @ \/ probe[p].listening]
  /\ fault' = IF client[p].authenticated THEN fault ELSE fault \union {p}
  /\ UNCHANGED <<connecting, closed, current, call, node, heard, warnings>>

\* Mutant: a close before connect() resolves always counts as lost.
CloseCheck_Hasty(p) ==
  /\ Macrotask /\ probe[p].closeCheck
  /\ LET q == [probe[p] EXCEPT !.closeCheck = FALSE] IN
     IF ~q.settled
     THEN Finish(p, "failed")
     ELSE probe' = [probe EXCEPT ![p] = q] /\ UNCHANGED <<current, client, call, warnings>>
  /\ UNCHANGED <<connecting, closed, node, heard, fault>>

CloseCheck(p) ==
  /\ Macrotask /\ probe[p].closeCheck
  /\ LET q == [probe[p] EXCEPT !.closeCheck = FALSE] IN
     IF ~q.settled /\ ~client[p].authenticated
     THEN Finish(p, "failed")
     ELSE probe' = [probe EXCEPT ![p] = q] /\ UNCHANGED <<current, client, call, warnings>>
  /\ UNCHANGED <<connecting, closed, node, heard, fault>>


\* connect() settles; a resolved one is a success only if the client is authenticated.
ConnectSettles(p, resolved) ==
  /\ Macrotask /\ connecting[p] = "pending"
  /\ connecting' = [connecting EXCEPT ![p] = "done"]
  /\ LET success == resolved /\ client[p].authenticated IN
     /\ fault' = IF success \/ probe[p].settled THEN fault ELSE fault \union {p}
     /\ Finish(p, IF success THEN "connected" ELSE "failed")
  /\ UNCHANGED <<closed, node, heard>>

\* An error event, which may come late.
ErrorEvent(p) ==
  /\ Macrotask /\ client[p].state # "none"
  /\ fault' = IF probe[p].settled THEN fault ELSE fault \union {p}
  /\ Finish(p, "failed")
  /\ UNCHANGED <<closed, connecting, node, heard>>

-----------------------------------------------------------------------------
Callbacks == Deliver \/ BeginReturns \/ FinishReturns \/ JoinReturns

ProbeEvents(p) == Begin(p) \/ Timeout(p) \/ Connect(p) \/ CloseCheck(p)

ClientEvents(p) ==
  \/ Authenticate(p) \/ ClientCloses(p) \/ ErrorEvent(p)
  \/ \E resolved \in BOOLEAN : ConnectSettles(p, resolved)

NodeEvents(n) == Start(n) \/ Subscribe(n) \/ Set(n) \/ Close(n)

Next ==
  \/ Callbacks
  \/ CloseAccount
  \/ \E n \in Nodes : ProbeEvents(n) \/ ClientEvents(n) \/ NodeEvents(n)

Spec == Init /\ [][Next]_vars

(***************************************************************************)
(* A call on the stack returns, and the event loop runs every immediate,    *)
(* microtask and timer that is due.  The server owes nothing.               *)
(***************************************************************************)
Fairness ==
  /\ WF_vars(Callbacks)
  /\ \A n \in Nodes : WF_vars(Subscribe(n)) /\ WF_vars(Begin(n)) /\ WF_vars(Connect(n))
                      /\ WF_vars(Timeout(n)) /\ WF_vars(CloseCheck(n))

LiveSpec == Spec /\ Fairness

-----------------------------------------------------------------------------
(* Properties.                                                              *)

\* One check gives a callback at most one result, after at most one "checking", and says no more.
OneResult ==
  \A n \in Nodes : \E final \in Final : IsPrefix(heard[n], <<"checking", final>>)

\* A result is true: "connected" needs an authenticated client, and "failed" a fault of this very
\* check - never just the close a verified login ends with.
ResultTrue ==
  call # NoCall /\ call.todo # <<>> =>
    /\ call.status = "connected" => client[call.probe].authenticated /\ call.probe \notin fault
    /\ call.status = "failed" => call.probe \in fault

Running(p) == (probe[p].start \/ probe[p].started) /\ ~probe[p].settled

\* Between two callbacks of the event loop a check that ended holds nothing: its client is closed,
\* no timer or immediate is left and nobody is subscribed.  A check that runs is the account's only
\* one and has a subscriber, none of them closed: the last node to leave ends it, also a node that
\* a status listener closes before subscribe has returned.
NothingLeft ==
  Idle => \A p \in Nodes :
    /\ probe[p].settled => /\ probe[p] = [Stopped(probe[p]) EXCEPT !.subscribers = <<>>]
                           /\ client[p].state # "open"
    /\ Running(p) => /\ p = current /\ ~closed
                     /\ probe[p].subscribers # <<>>
                     /\ \A n \in Nodes : Subscribed(p, n) => ~node[n].closed

\* Once work or validation has set a status no check result replaces it, and a closed node's status
\* does not change at all.
StatusStays ==
  [][\A n \in Nodes :
       /\ node[n].revised => node'[n].shown \in {node[n].shown, "work"}
       /\ node[n].closed => node'[n].shown = node[n].shown]_vars

\* The fixed time limit ends every check: a node that asked hears a result unless it or its account
\* is closed.
Answered ==
  \A n \in Nodes : node[n].start = "pending" ~>
    \/ node[n].closed \/ closed
    \/ heard[n] # <<>> /\ Last(heard[n]) \in Final
=============================================================================
