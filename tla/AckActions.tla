------------------------------ MODULE AckActions ------------------------------
(***************************************************************************)
(* lib/imap-ack-actions.js executeAckActionRange and lib/imap-delete.js    *)
(* deleteUidRange: the IMAP commands that carry out one ACK plan for one   *)
(* chunk of UIDs, what the code makes of each answer, and which failures   *)
(* it reports as partial.  Other clients change the mailbox in between,    *)
(* the connection is lost before or after a command's effect, and the      *)
(* client's selected mailbox may change under the call.                    *)
(***************************************************************************)
EXTENDS Naturals, Sequences, FiniteSets, SequencesExt

CONSTANTS
  Uids,       \* messages of the mailbox
  Chunk,      \* UIDs of `range`
  MaxOther    \* bound: changes made by others

ASSUME ChunkAssumption == Chunk \subseteq Uids /\ Chunk # {}
ASSUME BoundAssumption == MaxOther \in Nat

VARIABLES
  plan,       \* the normalised plan; `ensure` is ensureTargetMailbox
  caps,       \* capabilities the server announces
  mail,       \* server: "present", "marked" (\Deleted) or "absent" for each UID
  link,       \* client.usable and whether client.mailbox is still the one of the call
  at, wire,   \* command the call awaits (index, 0: not called) and its progress
  found,      \* what the SEARCH on the wire will answer
  outcome,    \* how the call ended
  confirmed,  \* history: message-changing commands the server answered with OK
  removed,    \* history: messages this call took out of the mailbox
  others      \* bound: changes made by others so far

vars == <<plan, caps, mail, link, at, wire, found, outcome, confirmed, removed, others>>

\* validateAckActionPlan: only "move" and "copy" have a target, "delete" has no flags.
Plan ==
  {p \in [action : {"flag", "move", "copy", "delete"}, add : BOOLEAN, remove : BOOLEAN,
          ensure : BOOLEAN] :
     /\ p.ensure => p.action \in {"move", "copy"}
     /\ p.add \/ p.remove => p.action # "delete"}

\* "store" is the explicit STORE of \Deleted; "mark" and "expunge" are the two commands of
\* messageDelete.
Command == {"create", "add", "remove", "move", "copy", "store", "mark", "expunge", "search"}

FlagCommands == (IF plan.add THEN <<"add">> ELSE <<>>)
                  \o (IF plan.remove THEN <<"remove">> ELSE <<>>)
Ensured == IF plan.ensure THEN <<"create">> ELSE <<>>

\* The commands of the plan, in the order the code awaits them.
Commands ==
  CASE plan.action = "flag"   -> FlagCommands
    [] plan.action = "move"   -> Ensured \o FlagCommands \o <<"move">>
    [] plan.action = "copy"   -> Ensured \o <<"copy">> \o FlagCommands
    [] plan.action = "delete" -> <<"store", "mark", "expunge", "search">>

Current == Commands[at]
Changing == Command \ {"create", "search"}

\* Mutant of Supported: the capability is not required; ImapFlow then falls back.
Supported_Assumed == TRUE

\* assertCapability
Supported == /\ plan.action = "move" => "MOVE" \in caps
             /\ plan.action = "delete" => "UIDPLUS" \in caps

\* assertSelected before the STORE, before messageDelete, and before and after the SEARCH
Selected == link.usable /\ link.same

\* Mutant of Guarded: nothing is asserted after the SEARCH.
Guarded_NotAtEnd(i) == plan.action = "delete" /\ i \in {1, 2, 4}

\* Whether deleteUidRange asserts the mailbox before command i (5: before it returns).
Guarded(i) == plan.action = "delete" /\ i \in {1, 2, 4, 5}

\* Mutant of Partial: no `partial` on a failed removal of flags after their addition.
Partial_NotOnRemove(i) ==
  \/ plan.action = "move" /\ Commands[i] = "move" /\ (plan.add \/ plan.remove)
  \/ plan.action = "copy" /\ i > Len(Ensured) + 1
  \/ plan.action = "delete" /\ i > 1

\* Whether an error at command i (or after the last one) carries `partial`.
Partial(i) ==
  \/ plan.action \in {"flag", "move"} /\ Commands[i] = "remove" /\ plan.add
  \/ plan.action = "move" /\ Commands[i] = "move" /\ (plan.add \/ plan.remove)
  \/ plan.action = "copy" /\ i > Len(Ensured) + 1
  \/ plan.action = "delete" /\ i > 1

Failed(i) == IF Partial(i) THEN "partial" ELSE "error"

TypeOK ==
  /\ plan \in Plan /\ caps \subseteq {"MOVE", "UIDPLUS"}
  /\ mail \in [Uids -> {"present", "marked", "absent"}]
  /\ link \in [usable : BOOLEAN, same : BOOLEAN]
  /\ at \in 0..5 /\ wire \in {"none", "sent", "OK", "NO", "lost"}
  /\ found \subseteq Chunk /\ removed \subseteq Uids /\ confirmed \subseteq Changing
  /\ outcome \in {"none", "ok", "error", "partial"} /\ others \in 0..MaxOther
  /\ (wire = "none") = (at = 0 \/ outcome # "none")

Init == /\ plan \in Plan /\ caps \in SUBSET {"MOVE", "UIDPLUS"}
        /\ mail \in [Uids -> {"present", "marked", "absent"}]
        /\ link = [usable |-> TRUE, same |-> TRUE]
        /\ at = 0 /\ wire = "none" /\ found = {} /\ outcome = "none"
        /\ confirmed = {} /\ removed = {} /\ others = 0

-----------------------------------------------------------------------------
(* The call.                                                               *)

\* Go on to command i, or end there: an assertion fails, or the commands are done.
GoOn(i) ==
  LET fails == Guarded(i) /\ ~Selected
      done  == i > Len(Commands)
  IN  /\ outcome' = IF fails THEN Failed(i) ELSE IF done THEN "ok" ELSE "none"
      /\ at' = IF fails \/ done THEN at ELSE i
      /\ wire' = IF fails \/ done THEN "none" ELSE "sent"

Fail == outcome' = Failed(at) /\ wire' = "none" /\ UNCHANGED at

\* executeAckActionRange up to its first command
Call ==
  /\ at = 0 /\ outcome = "none"
  /\ IF Supported THEN GoOn(1) ELSE outcome' = "error" /\ UNCHANGED <<at, wire>>
  /\ UNCHANGED <<plan, caps, mail, link, found, confirmed, removed, others>>

\* ImapFlow's result is truthy after an OK, and may be after a NO ("create": the mailbox
\* exists; deletion: NO normalised to a success with an empty answer).
Results(c, answer) ==
  CASE answer = "OK" -> {TRUE}
    [] answer = "NO" -> IF c \in {"create", "store", "mark", "expunge", "search"}
                        THEN BOOLEAN ELSE {FALSE}
    [] answer = "lost" -> {FALSE}

\* Mutant of Accepted: a false result of a command outside deleteUidRange is no error.
Accepted_FalseOk(c, answer, result) ==
  /\ answer # "lost"
  /\ c \in {"store", "mark", "expunge", "search"} => answer = "OK" /\ result
  /\ c = "search" => found = {}

\* assertImapSucceeded, ensureMailbox, confirmedCommand and the test of `remaining`
Accepted(c, answer, result) ==
  /\ result
  /\ c \in {"store", "mark", "expunge", "search"} => answer = "OK"
  /\ c = "search" => found = {}

\* The code after the await of a command.
Reply ==
  /\ wire \in {"OK", "NO", "lost"}
  /\ \E result \in Results(Current, wire) :
       IF Accepted(Current, wire, result) THEN GoOn(at + 1) ELSE Fail
  /\ confirmed' = confirmed \union (IF wire = "OK" THEN {Current} \intersect Changing ELSE {})
  /\ UNCHANGED <<plan, caps, mail, link, found, removed, others>>

-----------------------------------------------------------------------------
(* The server, the connection and other clients.                           *)

Marked == {u \in Uids : mail[u] = "marked"}

\* Messages a command takes out of the mailbox.  Without MOVE, ImapFlow copies and deletes;
\* without UIDPLUS, a deletion is a plain EXPUNGE.
Expunges(c) ==
  LET deletes == IF "UIDPLUS" \in caps THEN {} ELSE Marked
  IN  CASE c = "move" -> Chunk \union (IF "MOVE" \in caps THEN {} ELSE deletes)
        [] c = "expunge" -> (Marked \intersect Chunk) \union deletes
        [] OTHER -> {}

\* The server executes the command in the selected mailbox.
Execute ==
  /\ wire = "sent" /\ link.usable
  /\ LET gone == IF link.same THEN {u \in Expunges(Current) : mail[u] # "absent"} ELSE {}
         mark == IF link.same /\ Current \in {"store", "mark"} THEN Chunk ELSE {}
     IN  /\ mail' = [u \in Uids |-> IF u \in gone THEN "absent"
                                    ELSE IF u \in mark /\ mail[u] = "present" THEN "marked"
                                    ELSE mail[u]]
         /\ removed' = removed \union gone
  /\ found' = IF Current = "search" /\ link.same THEN {u \in Chunk : mail[u] # "absent"} ELSE {}
  /\ wire' = "OK"
  /\ UNCHANGED <<plan, caps, link, at, outcome, confirmed, others>>

\* The server refuses the command.
Refuse ==
  /\ wire = "sent" /\ link.usable
  /\ wire' = "NO" /\ found' = {}
  /\ UNCHANGED <<plan, caps, mail, link, at, outcome, confirmed, removed, others>>

\* The connection ends: before or after the command on the wire had its effect, or when its
\* answer has been read already.  A command that is sent on a lost connection throws.
Lose ==
  /\ link.usable \/ wire = "sent"
  /\ link' = [link EXCEPT !.usable = FALSE]
  /\ wire' \in (IF wire = "none" THEN {wire} ELSE {wire, "lost"} \ {"sent"})
  /\ UNCHANGED <<plan, caps, mail, at, found, outcome, confirmed, removed, others>>

\* client.mailbox becomes another mailbox or another UIDVALIDITY.
Reselect ==
  /\ link.same /\ others < MaxOther
  /\ link' = [link EXCEPT !.same = FALSE]
  /\ others' = others + 1
  /\ UNCHANGED <<plan, caps, mail, at, wire, found, outcome, confirmed, removed>>

\* Another client sets or clears \Deleted, or expunges.
OtherClient ==
  /\ others < MaxOther
  /\ \E u \in Uids : \E state \in {"present", "marked", "absent"} \ {mail[u]} :
       mail[u] # "absent" /\ mail' = [mail EXCEPT ![u] = state]
  /\ others' = others + 1
  /\ UNCHANGED <<plan, caps, link, at, wire, found, outcome, confirmed, removed>>

Next == Call \/ Reply \/ Execute \/ Refuse \/ Lose \/ Reselect \/ OtherClient

Spec == Init /\ [][Next]_vars

-----------------------------------------------------------------------------
(* Properties.                                                             *)

\* A delete that is reported as successful has left no message of its chunk in the mailbox,
\* whatever other clients did to \Deleted meanwhile, and although the mailbox may have been
\* another one when the SEARCH was answered.
DeleteMeansGone ==
  outcome = "ok" /\ plan.action = "delete" => \A u \in Chunk : mail[u] = "absent"

\* No plan takes a message outside its chunk out of the mailbox, not even one that another
\* client has flagged \Deleted; and only "move" and "delete" take any out.
OthersUntouched ==
  removed \subseteq (IF plan.action \in {"move", "delete"} THEN Chunk ELSE {})

\* An error is reported as partial exactly if the server has confirmed a command of the plan
\* that changes messages: the caller stops on it and never takes it for an untouched chunk.
PartialMeansChanged ==
  outcome \in {"error", "partial"} => (outcome = "partial") = (confirmed # {})

\* Success is reported only when the server has confirmed every command that changes messages.
AllConfirmed == outcome = "ok" => confirmed = ToSet(Commands) \intersect Changing

\* A message leaves by "delete" only after the explicit STORE was confirmed.
ExpungeAfterStore == plan.action = "delete" /\ removed # {} => "store" \in confirmed
=============================================================================
